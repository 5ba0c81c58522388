------------------------------- MODULE MiscHandlers -------------------------------
(***************************************************************************)
(* ril_misc.c: device identity, screen state, raw AT commands, virtual     *)
(* SIM, radio preferences.                                                 *)
(***************************************************************************)
EXTENDS HandlerPaths

requestBasebandVersion ==
  Ok & ReadLine & (Success(Text) & Free | Free & Generic)
  | OkEmpty & Free & Generic
  | Failed & Free & Generic

requestGetIMEISV == OneLine(Text)

\* the IMEI must come, the software version may be missing
requestDeviceIdentify ==
  ( LineFailed & Generic
  | Ok & ReadLine & FreeAndClear & (Ok & ReadLine | LineFailed) & Success(Texts(4)) ) & Free

requestGetHardwareConfig == Success(List("HardwareConfig"))

\* the commands have neither response nor outcome
requestScreeState ==
  Takes(Ints(1)) &
  ( Skip
  | (Skip | After("onQuerySignalStrengthLTE") | After("onQuerySignalStrength"))
    & Indicate("RESPONSE_VOICE_NETWORK_STATE_CHANGED", None) )
  & Success(None)

SET_MUTE == Takes(Ints(1)) & Success(None)

\* the line begins with +CMUT: , so at_tok_start cannot fail
GET_MUTE == (Ok & ReadLine & Success(Ints(1)) | LineFailed & Generic) & Free

GET_BAND_INFO == Generic | (Ok & ReadLine & Success(Text) | LineFailed & Generic) & Free

GET_IMEI == (Ok & ReadLine & Success(Text) | LineFailed & Generic) & Free

SET_LOCATION_INFO == Takes(Texts(2)) & (Generic | Plain(None))

requestGetSpecialRATCAP == OneLine(Ints(1))

downgradeRadioPower ==
  LET Set == Ok & Success(None) | Failed & Generic
  IN  Takes(Ints(1)) & (Set | Ok & FreeAndClear & Set | Failed & Generic) & Free

-----------------------------------------------------------------------------
(* Raw AT commands.  The answer is an array of one string, failures        *)
(* included.                                                               *)

RawFailure == Done("GENERIC_FAILURE", Texts(1))

\* the end both functions share: the final response is part of the answer
RawAnswer ==
  ( (Ok & ReadLine | OkEmpty) & ReadFinal & Success(Texts(1)) & (Skip | Calls("setRadioState"))
  | Refused & ReadFinal & RawFailure
  | NoAnswer & RawFailure ) & Free

\* VSIM_CREATE, VSIM_EXIT and VSIM_TIMEOUT only fill atResp, the buffer of sendCmdSync
VsimOfSendAT ==
  Skip
  | ( Ok & Calls("onSimDisabled") & ReadFinal
    | Refused & ReadFinal ) & Free
  | NoAnswer & RawFailure & Free

requestSendAT(payload) == Takes(payload) & (RawFailure & Free | RawFailure | RawAnswer | VsimOfSendAT)

\* VSIM_TIMEOUT looks at p_response although it has sent nothing
requestVsimCmd ==
  Takes(Text) &
  ( RawFailure & Free
  | RawAnswer
  | Ok & Calls("onSimDisabled") & ReadFinal & Success(Texts(1)) & Free
  | ReadFinal & Success(Texts(1)) & Free )

-----------------------------------------------------------------------------
(* Requests answered without the modem, on the calling thread.             *)

requestGetRadioPreference == Takes(Text) & Reads("string") & (Fail("INVALID_ARGUMENTS") | Success(Text))

requestSetRadioPreference == Takes(Texts(2)) & Reads("strings") & (Fail("INVALID_ARGUMENTS") | Unchecked)

processPropRequests ==
  [ GET_RADIO_PREFERENCE |-> requestGetRadioPreference,
    SET_RADIO_PREFERENCE |-> requestSetRadioPreference ]

processMiscRequests ==
  [ BASEBAND_VERSION |-> requestBasebandVersion,
    GET_IMEI |-> GET_IMEI,
    GET_IMEISV |-> requestGetIMEISV,
    DEVICE_IDENTITY |-> requestDeviceIdentify,
    SET_MUTE |-> SET_MUTE,
    GET_MUTE |-> GET_MUTE,
    SCREEN_STATE |-> requestScreeState,
    GET_HARDWARE_CONFIG |-> requestGetHardwareConfig,
    OEM_HOOK_STRINGS |-> requestSendAT(Texts(1)),
    NV_RESET_CONFIG |-> Success(None),
    GET_BAND_INFO |-> GET_BAND_INFO,
    SET_BAND_INFO_MODE |-> SetInt,
    SET_SPECIAL_RATCAP |-> SetInt,
    SEND_CMD |-> requestSendAT(Text),
    VSIM_SEND_CMD |-> requestVsimCmd,
    RADIO_POWER_FALLBACK |-> downgradeRadioPower,
    SET_LOCATION_INFO |-> SET_LOCATION_INFO,
    GET_SPECIAL_RATCAP |-> requestGetSpecialRATCAP ]

-----------------------------------------------------------------------------
(* Timed callbacks, threads of the virtual SIM, unsolicited lines.         *)

\* cesq_execute_cmd_rsp and csq_execute_cmd_rsp build a second response from the first
QuerySignal ==
  LET Both == Free & On("p_newResponse", Free)
      Converted == On("p_newResponse", Ok & ReadLine)
  IN  TakeChannel &
      ( LineFailed & GiveChannel & Both
      | Ok & ReadLine &
        ( GiveChannel & Both
        | Converted & (Skip | Indicate("SIGNAL_STRENGTH", Struct("SignalStrength"))) & GiveChannel & Both ) )

onQuerySignalStrengthLTE == QuerySignal

onQuerySignalStrength == QuerySignal

vsimQueryVirtual == TakeChannel & (Ok & ReadLine | LineFailed) & Free & GiveChannel

onSimDisabled == Calls("getSIMStatus") & Calls("setRadioState")

closeVirtual == TakeChannel & Calls("onSimDisabled") & GiveChannel

miscProcedures ==
  [ vsimQueryVirtual |-> vsimQueryVirtual,
    onSimDisabled |-> onSimDisabled,
    closeVirtual |-> closeVirtual ]

closeVirtualThread == Skip | Calls("closeVirtual")

\* a lost connection asks both SIMs and closes the virtual ones after a minute
listenVsimSocketThread ==
  Skip | Calls("vsimQueryVirtual") & Calls("vsimQueryVirtual") & After("closeVirtualThread")

sendVsimReqThread == Skip | Calls("vsimQueryVirtual") & Calls("vsimQueryVirtual")

miscCallbacks ==
  [ onQuerySignalStrengthLTE |-> onQuerySignalStrengthLTE,
    onQuerySignalStrength |-> onQuerySignalStrength,
    closeVirtualThread |-> closeVirtualThread,
    listenVsimSocketThread |-> listenVsimSocketThread,
    sendVsimReqThread |-> sendVsimReqThread ]

processMiscUnsolicited ==
  [ CTZV |-> Skip | Indicate("NITZ_TIME_RECEIVED", Text),
    SPCLB |-> Indicate("BAND_INFO", Text),
    RSIMREQ |-> Indicate("VSIM_RSIM_REQ", Text),
    SPLTERATEMODE |-> Skip ]

=============================================================================
