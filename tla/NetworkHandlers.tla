----------------------------- MODULE NetworkHandlers -----------------------------
(***************************************************************************)
(* ril_network.c: signal, registration and operator, radio power, network  *)
(* selection and scans, preferred types, cell information and the radio    *)
(* capability.  The radio-power mutexes are in module RadioLocks, the      *)
(* asynchronous commands in module AsyncCmd.                               *)
(***************************************************************************)
EXTENDS HandlerPaths

VOICE_NETWORK_STATE_CHANGED == Indicate("RESPONSE_VOICE_NETWORK_STATE_CHANGED", None)

\* the answers parsed again from a rebuilt line
NewLine(A) == On("p_newResponse", A)

-----------------------------------------------------------------------------
(* Signal, registration and operator.                                      *)

\* +CSQ is rewritten by csq_execute_cmd_rsp, which may give no response
requestSignalStrength ==
  ( LineFailed & Generic
  | Ok & ReadLine &
      ( Generic
      | NewLine(Ok & ReadLine) & (Success(Struct("SignalStrength")) | Generic) ) ) &
  Free & NewLine(Free)

\* a failure is answered at once and again at the label error
requestSignalStrengthLTE ==
  ( LineFailed & Generic & Generic
  | Ok & ReadLine &
      ( Generic
      | NewLine(Ok & ReadLine) & (Success(Struct("SignalStrength")) | Generic) ) ) &
  Free & NewLine(Free)

queryCeregTac == (Ok & ReadLine | LineFailed) & Free

\* one of four queries, told apart by the request
requestRegistrationState(payload) ==
  (Ok & ReadLine & ((Calls("queryCeregTac") | Skip) & Success(payload) | Generic) | LineFailed & Generic) & Free

\* success is not looked at: a refusal has no lines, and three are needed
requestOperator ==
  (Ok & ReadLine & (Success(Texts(3)) | Generic) | OkEmpty & Generic | Failed & Generic) & Free

requestQueryNetworkSelectionMode ==
  (Ok & ReadLine | LineFailed) & Free & (Success(Ints(1)) | Generic)

networkQueries ==
  [ SIGNAL_STRENGTH |-> requestSignalStrength | requestSignalStrengthLTE,
    VOICE_REGISTRATION_STATE |-> requestRegistrationState(Texts(15)),
    DATA_REGISTRATION_STATE |-> requestRegistrationState(Texts(6)),
    IMS_REGISTRATION_STATE |-> requestRegistrationState(Ints(2)),
    VOICE_RADIO_TECH |-> requestRegistrationState(Ints(1)),
    OPERATOR |-> requestOperator,
    QUERY_NETWORK_SELECTION_MODE |-> requestQueryNetworkSelectionMode ]

-----------------------------------------------------------------------------
(* Radio power.                                                            *)

\* one for every SIM
sendUnsolRadioCapability ==
  LET One == Indicate("RADIO_CAPABILITY", Struct("RadioCapability")) IN One & One

RADIO_CAPABILITY_CHANGED == Indicate("EXT_RADIO_CAPABILITY_CHANGED", None)

\* the SIMs of the other slots are asked once
initSIMPresentState == Skip | TakeChannel & Calls("getSIMStatus") & GiveChannel

\* CME error 15: the main SIM changes, the work mode is swapped and sent again
TestMode ==
  (Ok | NoAnswer | Refused & ReadFinal & (Skip | RADIO_CAPABILITY_CHANGED)) & FreeAndClear

SautoAttach == Skip | AnyEnd & FreeAndClear

RadioOff ==
  (Skip | Calls("getSIMStatus")) & (Ok & Calls("setRadioState") & Success(None) | Failed & Generic)

RadioOn ==
  (Skip | Calls("getSIMStatus")) & Calls("initSIMPresentState") &
  ( Generic
  | Success(None) & (Skip | Indicate("RESPONSE_SIM_STATUS_CHANGED", None))
  | (Skip | TestMode) & SautoAttach &
      ( Ok & Calls("setRadioState") & Success(None)
      | Refused & Calls("isRadioOn") & (Generic | Calls("setRadioState") & Success(None))
      | NoAnswer & (Raise("radioOnError") | Calls("isRadioOn")) & Generic ) )

\* all of it under s_radioPowerMutex of the slot
requestRadioPower == Takes(Ints(1)) & (RadioOff & Free | RadioOn & Free | Success(None))

\* the calls are hung up first; the results of the two commands are not looked at
requestShutdown == On("all_calls", AnyEnd & Free) & Calls("setRadioState") & Success(None)

requestSetEmergencyOnly ==
  Takes(Ints(1)) &
  (Generic | (Ok & Calls("isRadioOn") & Success(None) | Failed & Generic) & Free)

\* a refused AT+CFUN=1 may have turned the radio on all the same
requestResetRadio ==
  ( Failed & Free & Generic
  | Ok & FreeAndClear &
      ( Ok & Calls("setRadioState") & Free & Success(None)
      | Failed & Calls("isRadioOn") & Free & (Generic | Calls("setRadioState") & Success(None)) ) )

radioPowerRequests ==
  [ RADIO_POWER |-> requestRadioPower,
    SHUTDOWN |-> requestShutdown,
    EXT_SHUTDOWN |-> requestShutdown,
    SET_EMERGENCY_ONLY |-> requestSetEmergencyOnly,
    RESET_RADIO |-> requestResetRadio ]

-----------------------------------------------------------------------------
(* The radio state and what follows it (sprd_ril.c).                       *)

onSIMReady == Skip

\* a channel of its own when it runs as a timer; SIM_NOT_READY starts it again
pollSIMState(own) ==
  LET Answer == Calls("getSIMStatus") &
                ( Calls("setRadioState") & (Skip | Indicate("RESPONSE_SIM_STATUS_CHANGED", None))
                | After("pollSIMState") )
  IN  Skip | IF own THEN TakeChannel & Answer & GiveChannel ELSE Answer

onRadioPowerOn == pollSIMState(FALSE)

setRadioState ==
  Skip
  | Indicate("RESPONSE_RADIO_STATE_CHANGED", None) & Indicate("RESPONSE_SIM_STATUS_CHANGED", None)
    & (Skip | onSIMReady | Calls("onRadioPowerOn"))

isRadioOn == (Ok & ReadLine | LineFailed) & Free

initModemProp == (Skip | Ok & ReadLine | LineFailed) & FreeAndClear

\* sv points into the response and is used before the response is freed
updateIMEISV == Skip | (Ok & ReadLine | LineFailed) & FreeAndClear

initializeCallback ==
  TakeChannel & Calls("setRadioState") & AnyEnd & FreeAndClear & Calls("initModemProp")
  & (Skip | Calls("updateIMEISV")) & Calls("isRadioOn") & (Skip | Calls("setRadioState")) & GiveChannel

\* a late +CREG after AT+SFUN=4 timed out
radioPowerOnTimeout == TakeChannel & Calls("setRadioState") & GiveChannel

-----------------------------------------------------------------------------
(* Network selection and scans.                                            *)

\* a label shared by the answer that is refused and the one that is missing
Rejected(err) == Refused & ReadFinal & (Fail(err) | Generic) | NoAnswer & Generic

SET_NETWORK_SELECTION_AUTOMATIC ==
  Raise("setNetworkId") &
  (Rejected("ILLEGAL_SIM_OR_ME") | Ok & FreeAndClear & (Ok & Success(None) | Rejected("ILLEGAL_SIM_OR_ME"))) &
  Free & Lower("setNetworkId")

requestNetworkRegistration ==
  Takes(Text) & Reads("string") & (Ok & Success(None) | Rejected("ILLEGAL_SIM_OR_ME")) & Free

SET_NETWORK_SELECTION_MANUAL ==
  Raise("setNetworkId") & requestNetworkRegistration & Lower("setNetworkId")

\* fewer than three groups in the line, or an empty one, take the error path too
requestNetworkList ==
  ( Ok & ReadLine & (Success(Texts(4)) | Success(Texts(8)) | ReadFinal & Generic)
  | Rejected("OPERATION_NOT_ALLOWED")
  | NoLine & Generic ) & Free

QUERY_AVAILABLE_NETWORKS ==
  Raise("manualSearchNetworkId") & requestNetworkList & Lower("manualSearchNetworkId")

requestStartNetworkScan ==
  Takes(Struct("NetworkScanRequest")) &
  (Ok & Success(None) | Failed & Fail("REQUEST_NOT_SUPPORTED")) & FreeAndClear

\* a list that needs no operator name from the modem
requestUpdateOperatorName ==
  Takes(Text) & (Success(None) & VOICE_NETWORK_STATE_CHANGED | Generic)

selectionRequests ==
  [ SET_NETWORK_SELECTION_AUTOMATIC |-> SET_NETWORK_SELECTION_AUTOMATIC,
    SET_NETWORK_SELECTION_MANUAL |-> SET_NETWORK_SELECTION_MANUAL,
    QUERY_AVAILABLE_NETWORKS |-> QUERY_AVAILABLE_NETWORKS,
    STOP_QUERY_NETWORK |-> Plain(None),
    START_NETWORK_SCAN |-> requestStartNetworkScan,
    STOP_NETWORK_SCAN |-> Success(None),
    UPDATE_OPERATOR_NAME |-> requestUpdateOperatorName ]

-----------------------------------------------------------------------------
(* Bands and preferred types.                                              *)

\* the mutexes of both slots are kept until +SPTESTMODE; CME error 3 is
\* retried, three times in the code and once here
requestSetLTEPreferredNetType ==
  LET Registered == Raise("radioPowerMutex") & Later
      Removed == Lower("radioPowerMutex")
  IN  Takes(Ints(1)) &
      ( Generic
      | Success(None)
      | Ok & Registered & Free
      | Failed & Generic & Free
      | Refused & ReadFinal & FreeAndClear & (Ok & Registered & Free | Failed & Generic & Free) )

\* the type is compared first, and the answer given without a command
requestSetPreferredNetType ==
  VOICE_NETWORK_STATE_CHANGED & Takes(Ints(1)) &
  ((Skip | Ok) & Free & Success(None) | (Skip | Failed) & Free & Generic)

\* read from the work mode that was stored
requestGetLTEPreferredNetType == Success(Ints(1)) | Generic

requestGetPreferredNetType ==
  (Ok & ReadLine | LineFailed) & Free & (Success(Ints(1)) | Generic)

SET_PREFERRED_NETWORK_TYPE == requestSetLTEPreferredNetType | requestSetPreferredNetType

GET_PREFERRED_NETWORK_TYPE == requestGetLTEPreferredNetType | requestGetPreferredNetType

typeRequests ==
  [ SET_BAND_MODE |-> Takes(Ints(1)) & Success(None),
    QUERY_AVAILABLE_BAND_MODE |-> Success(Ints(6)),
    SET_PREFERRED_NETWORK_TYPE |-> SET_PREFERRED_NETWORK_TYPE,
    EXT_SET_PREFERRED_NETWORK_TYPE |-> SET_PREFERRED_NETWORK_TYPE,
    GET_PREFERRED_NETWORK_TYPE |-> GET_PREFERRED_NETWORK_TYPE,
    EXT_GET_PREFERRED_NETWORK_TYPE |-> GET_PREFERRED_NETWORK_TYPE,
    SET_LOCATION_UPDATES |-> Takes(Ints(1)) & Success(None),
    SET_UNSOL_CELL_INFO_LIST_RATE |-> Success(None),
    GET_IMS_BEARER_STATE |-> Success(Ints(1)) ]

-----------------------------------------------------------------------------
(* Cells.                                                                  *)

\* +Q2GNCELL, then +Q3GNCELL, then +SPQ4GNCELL, until one has neighbours
requestNeighboaringCellIds ==
  LET Answered == (Success(List("NeighboringCell*")) | Generic) & Free
      Last == (Ok & ReadLine & Answered | LineFailed & Generic & Free)
      Then(Next) == LineFailed & Generic & Free | Ok & ReadLine & (Answered | FreeAndClear & Next)
  IN  Fail("SIM_ABSENT") | Then(Then(Last))

\* operator, registration, signal and neighbours; the rebuilt signal line
\* stays until the end
requestGetCellInfoList ==
  LET Out == Free & NewLine(Free)
      NotFound == Fail("NO_NETWORK_FOUND")
      Ask(Next) == LineFailed & Out & NotFound | Ok & ReadLine & (Out & NotFound | FreeAndClear & Next)
      Neighbours == LineFailed & Out & NotFound | Ok & ReadLine & (Success(List("CellInfo")) & Out | Out & NotFound)
      Signal == LineFailed & Out & NotFound
                | Ok & ReadLine &
                    ( Out & NotFound
                    | NewLine(Ok & ReadLine) & (Out & NotFound | FreeAndClear & Neighbours) )
  IN  Ask(Ask(Signal))

cellRequests ==
  [ GET_NEIGHBORING_CELL_IDS |-> requestNeighboaringCellIds,
    GET_CELL_INFO_LIST |-> requestGetCellInfoList ]

-----------------------------------------------------------------------------
(* Radio capability.                                                       *)

requestGetRadioCapability == Success(Struct("RadioCapability"))

\* 1: kept for +SPTESTMODE, 2: nothing to change, 0 or less: not done
applySetLTERadioCapability ==
  [ unchanged |-> Skip,
    refused |-> Failed & FreeAndClear,
    kept |-> Ok & FreeAndClear | Refused & ReadFinal & FreeAndClear & Ok & FreeAndClear ]

\* AT+SFUN=5 and then AT+SFUN=4 on both SIMs, the other one through a channel of
\* its own: only the channels of the SIMs before the one that fails are given back
applySetRadioCapability ==
  LET Agreed == Ok & FreeAndClear
      Stopped == Failed & FreeAndClear
      Return(A) == A & GiveChannel & FreeAndClear
      SecondRound == Stopped | Agreed & Return(Ok | Failed) | Return(Failed) | Return(Ok) & (Agreed | Stopped)
      OwnFirst == Stopped | Agreed & TakeChannel & (Stopped | Agreed & SecondRound)
      OtherFirst == TakeChannel & (Stopped | Agreed & (Return(Failed) | Agreed & SecondRound))
  IN  Skip | OwnFirst | OtherFirst

\* the radio-power mutexes of both SIMs are kept with the request
requestSetRadioCapability ==
  LET RC == Success(Struct("RadioCapability"))
      Refuse == Done("GENERIC_FAILURE", Struct("RadioCapability"))
  IN  Takes(Struct("RadioCapability")) &
      ( RC
      | Fail("INVALID_STATE")
      | applySetLTERadioCapability.unchanged & RC & sendUnsolRadioCapability
      | applySetLTERadioCapability.refused & Refuse
      | applySetLTERadioCapability.kept & Raise("radioPowerMutex") & Later
      | Calls("applySetRadioCapability") & (RC & sendUnsolRadioCapability | Refuse) )

capabilityRequests ==
  [ GET_RADIO_CAPABILITY |-> requestGetRadioCapability,
    SET_RADIO_CAPABILITY |-> Fail("REQUEST_NOT_SUPPORTED") | requestSetRadioCapability ]

processNetworkRequests ==
  networkQueries @@ radioPowerRequests @@ selectionRequests @@ typeRequests @@ cellRequests @@ capabilityRequests

networkProcedures ==
  [ queryCeregTac |-> queryCeregTac,
    initSIMPresentState |-> initSIMPresentState,
    setRadioState |-> setRadioState,
    onRadioPowerOn |-> onRadioPowerOn,
    isRadioOn |-> isRadioOn,
    initModemProp |-> initModemProp,
    updateIMEISV |-> updateIMEISV,
    applySetRadioCapability |-> applySetRadioCapability ]

\* signal_process wakes for every SIM whose strength changed
SIGNAL == Skip | Indicate("SIGNAL_STRENGTH", Struct("SignalStrength"))

networkCallbacks ==
  [ initializeCallback |-> initializeCallback,
    pollSIMState |-> pollSIMState(TRUE),
    radioPowerOnTimeout |-> radioPowerOnTimeout,
    signal_process |-> SIGNAL ]

-----------------------------------------------------------------------------
(* Unsolicited lines.                                                      *)

\* the request that waits for +SPTESTMODE is completed and the mutexes are freed
dispatchSPTESTMODE ==
  LET RC == Struct("RadioCapability")
  IN  Lower("radioPowerMutex") &
      (Success(None) | Generic | Success(RC) & sendUnsolRadioCapability | Done("GENERIC_FAILURE", RC))

processNetworkScanResults == Indicate("NETWORK_SCAN_RESULT", Struct("NetworkScanResult"))

CREG ==
  VOICE_NETWORK_STATE_CHANGED & (Skip | Lower("radioOnError") & After("radioPowerOnTimeout"))

CIREGU ==
  Indicate("RESPONSE_IMS_NETWORK_STATE_CHANGED", Ints(1)) & Indicate("IMS_NETWORK_STATE_CHANGED", Ints(1))

processNetworkUnsolicited ==
  [ CSQ |-> SIGNAL,
    CESQ |-> SIGNAL,
    CREG |-> CREG,
    CGREG |-> VOICE_NETWORK_STATE_CHANGED,
    CEREG |-> Skip | VOICE_NETWORK_STATE_CHANGED,
    CIREGU |-> Skip | CIREGU,
    CONN |-> Skip | Indicate("RESPONSE_IMS_BEARER_ESTABLISTED", Ints(1)),
    SPNWNAME |-> Skip | VOICE_NETWORK_STATE_CHANGED,
    SPTESTMODE |-> Skip | dispatchSPTESTMODE,
    SPFREQSCAN |-> Skip | processNetworkScanResults ]

=============================================================================
