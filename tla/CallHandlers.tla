------------------------------ MODULE CallHandlers ------------------------------
(***************************************************************************)
(* ril_call.c: calls, DTMF, video phone, IMS calls and handover.           *)
(***************************************************************************)
EXTENDS HandlerPaths

-----------------------------------------------------------------------------
(* Calls.                                                                  *)

\* all_calls frees its own response whatever it contains
CountCalls == On("all_calls", AnyEnd & Free)

requestGetCurrentCalls ==
  ( OkEmpty & Success(List("Call*"))
  | Ok & ReadLine & Success(List("Call*"))
  | Failed & Generic ) & Free

requestDial ==
  Takes(Struct("Dial")) & (Fail("INVALID_STATE") | (Ok & Success(None) | Failed & Generic | Generic) & Free)

\* called with a NULL token when an emergency number is redialled
requestEccDial == Takes(Struct("Dial")) & Unchecked

\* isEccNumber compares the number with the emergency numbers
DIAL == Reads("address") & (requestDial | requestEccDial)

requestHangup == Takes(Ints(1)) & CountCalls & PlainOr("INVALID_STATE")

requestHangupWaitingOrBackground == Fail("INVALID_STATE") | Plain(None)

requestHangupForeResumeBack == PlainOr("INVALID_STATE")

requestSwitchWaitOrHoldAndActive == PlainOr("INVALID_STATE")

requestConference == PlainOr("INVALID_STATE")

requestUDUB == Fail("INVALID_STATE") | Plain(None)

requestAnswer == PlainOr("INVALID_STATE")

requestSeparateConnection == Takes(Ints(1)) & (Generic | PlainOr("INVALID_STATE"))

requestExplicitCallTransfer == PlainOr("INVALID_STATE")

\* malloc'ed, filled under s_callMutex and freed after the answer
requestLastCallFailCause == Success(Struct("LastCallFailCauseInfo"))

requestGetCurrentCallsVoLTE ==
  ( OkEmpty & Success(List("CallVoLTE*"))
  | Ok & ReadLine & Success(List("CallVoLTE*"))
  | Failed & Generic ) & Free

\* hangs up call by call (two are enough to see the loop), then AT+CHLD=2; the
\* outcome of each hang-up is looked for in p_response, which belongs to +CLCC
requestSwitchMultiCall ==
  LET HangUp(A) == On("p_resp", A) & ReadFinal
      Freed == FreeAndClear & On("p_resp", FreeAndClear)
      Switch == FreeAndClear & ( Ok & Success(None) & FreeAndClear
                               | Failed & Generic & Freed )
      HungUp == HangUp(Ok | Refused) & On("p_resp", FreeAndClear)
      Stopped == On("p_resp", NoAnswer) & Generic & Freed
  IN  Takes(Ints(1)) &
      ( Switch
      | Failed & Generic & Freed
      | OkEmpty & Switch
      | Ok & ReadLine & ( Switch | Stopped | HungUp & Switch
                        | HungUp & Stopped | HungUp & HungUp & Switch ) )

-----------------------------------------------------------------------------
(* DTMF.                                                                   *)

requestDTMF == Takes(Text) & Reads("string") & PlainOr("INVALID_MODEM_STATE")

TwoToneCommands ==
  LET ToneRefused == Refused & ReadFinal & Fails({"INVALID_MODEM_STATE", "GENERIC_FAILURE"})
  IN  ( Ok & FreeAndClear & (Ok & Success(None) | ToneRefused | NoAnswer & Generic)
      | ToneRefused | NoAnswer & Generic ) & Free

requestDTMFStart == Takes(Text) & Reads("string") & (Generic | TwoToneCommands)

\* without a tone in s_DTMFList there is nothing to stop
requestDTMFStop == Generic | TwoToneCommands

-----------------------------------------------------------------------------
(* Video phone and IMS.                                                    *)

requestVideoPhoneDial == Takes(Struct("VideoPhoneDial")) & Unchecked

requestUpdateImsNetworkInfo == Takes(Struct("IMS_NetworkInfo")) & (Generic | Plain(None))

requestImsCallRequestMediaChange == Takes(Ints(2)) & (Generic & Free | Plain(None))

requestImsCallResponseMediaChange == Takes(Ints(3)) & (Generic & Free | Plain(None))

requestGetVideoResolution == OneLine(Ints(1))

requestGetImsPaniInfo ==
  (Ok & ReadLine & (ReadLine & Success(Struct("IMS_NetworkInfo")) | Generic) | LineFailed & Generic) & Free

SET_IMS_VOICE_CALL_AVAILABILITY ==
  LET Query == (Ok & ReadLine | LineFailed) & FreeAndClear
  IN  Takes(Ints(1)) & (Query & Plain(None) | Ok & ReadLine & FreeAndClear & Success(None))

GET_HD_VOICE_STATE == OneLine(Ints(1))

\* the reader of s_realEccList is isEccNumber, on the thread that dials
UPDATE_ECCLIST == Takes(Text) & Success(None)

\* at_send_command's outcome only decides between the two when it has none
IMS_NOTIFY_HANDOVER_CALL_INFO == Takes(Text) & Unchecked

-----------------------------------------------------------------------------
(* processCallRequest.                                                     *)

callRequests ==
  [ GET_CURRENT_CALLS |-> requestGetCurrentCalls,
    DIAL |-> DIAL,
    HANGUP |-> requestHangup,
    HANGUP_WAITING_OR_BACKGROUND |-> requestHangupWaitingOrBackground,
    HANGUP_FOREGROUND_RESUME_BACKGROUND |-> requestHangupForeResumeBack,
    SWITCH_WAITING_OR_HOLDING_AND_ACTIVE |-> requestSwitchWaitOrHoldAndActive,
    CONFERENCE |-> requestConference,
    UDUB |-> requestUDUB,
    LAST_CALL_FAIL_CAUSE |-> requestLastCallFailCause,
    DTMF |-> requestDTMF,
    ANSWER |-> requestAnswer,
    DTMF_START |-> requestDTMFStart,
    DTMF_STOP |-> requestDTMFStop,
    SEPARATE_CONNECTION |-> requestSeparateConnection,
    EXPLICIT_CALL_TRANSFER |-> requestExplicitCallTransfer,
    EXT_EXPLICIT_CALL_TRANSFER |-> requestExplicitCallTransfer,
    SET_TTY_MODE |-> Success(None),
    QUERY_TTY_MODE |-> Success(Ints(1)),
    EXIT_EMERGENCY_CALLBACK_MODE |-> Success(None) ]

imsCallRequests ==
  [ GET_IMS_CURRENT_CALLS |-> requestGetCurrentCallsVoLTE,
    SET_IMS_VOICE_CALL_AVAILABILITY |-> SET_IMS_VOICE_CALL_AVAILABILITY,
    GET_IMS_VOICE_CALL_AVAILABILITY |-> OneLine(Ints(1)),
    IMS_CALL_REQUEST_MEDIA_CHANGE |-> requestImsCallRequestMediaChange,
    IMS_CALL_RESPONSE_MEDIA_CHANGE |-> requestImsCallResponseMediaChange,
    IMS_CALL_FALL_BACK_TO_VOICE |-> SetInt,
    IMS_INITIAL_GROUP_CALL |-> Takes(Text) & Plain(None),
    IMS_ADD_TO_GROUP_CALL |-> Takes(Text) & Plain(None) ]

videoPhoneRequests ==
  [ VIDEOPHONE_DIAL |-> requestVideoPhoneDial,
    VIDEOPHONE_CODEC |-> Takes(Struct("VideoPhoneCodec")) & Plain(None),
    VIDEOPHONE_FALLBACK |-> Plain(None),
    VIDEOPHONE_STRING |-> Takes(Text) & (Generic | Plain(None)),
    VIDEOPHONE_LOCAL_MEDIA |-> (Takes(Ints(2)) | Takes(Ints(3))) & Plain(None),
    VIDEOPHONE_CONTROL_IFRAME |-> Takes(Ints(2)) & Plain(None),
    SWITCH_MULTI_CALL |-> requestSwitchMultiCall,
    GET_HD_VOICE_STATE |-> GET_HD_VOICE_STATE,
    UPDATE_ECCLIST |-> UPDATE_ECCLIST,
    SET_VOICE_DOMAIN |-> SetInt ]

handoverRequests ==
  [ IMS_HANDOVER |-> SetInt,
    IMS_HANDOVER_STATUS_UPDATE |-> Takes(Ints(1)) & Unchecked,
    IMS_NETWORK_INFO_CHANGE |-> requestUpdateImsNetworkInfo,
    IMS_HANDOVER_CALL_END |-> Takes(Ints(1)) & Unchecked,
    IMS_UPDATE_DATA_ROUTER |-> Unchecked,
    IMS_WIFI_ENABLE |-> Takes(Ints(1)) & Unchecked,
    IMS_WIFI_CALL_STATE_CHANGE |-> Takes(Ints(1)) & Unchecked,
    GET_TPMR_STATE |-> OneLine(Ints(1)),
    SET_TPMR_STATE |-> Takes(Ints(1)) & Unchecked,
    SET_VIDEO_RESOLUTION |-> SetInt ]

callSettingRequests ==
  [ ENABLE_LOCAL_HOLD |-> SetInt,
    ENABLE_WIFI_PARAM_REPORT |-> SetInt,
    CALL_MEDIA_CHANGE_REQUEST_TIMEOUT |-> SetInt,
    SET_DUAL_VOLTE_STATE |-> SetInt,
    SET_LOCAL_TONE |-> SetInt,
    IMS_NOTIFY_HANDOVER_CALL_INFO |-> IMS_NOTIFY_HANDOVER_CALL_INFO,
    GET_IMS_SRVCC_CAPBILITY |-> OneLine(Ints(1)) ]

singleCallRequests ==
  [ IMS_HOLD_SINGLE_CALL |-> Takes(Ints(2)) & Plain(None),
    IMS_MUTE_SINGLE_CALL |-> Takes(Ints(2)) & Plain(None),
    IMS_SILENCE_SINGLE_CALL |-> Takes(Ints(2)) & Plain(None),
    IMS_ENABLE_LOCAL_CONFERENCE |-> SetInt,
    GET_VIDEO_RESOLUTION |-> requestGetVideoResolution,
    GET_IMS_PANI_INFO |-> requestGetImsPaniInfo ]

processCallRequest ==
  callRequests @@ imsCallRequests @@ videoPhoneRequests @@ handoverRequests
  @@ callSettingRequests @@ singleCallRequests

-----------------------------------------------------------------------------
(* Timed callbacks and threads started by unsolicited lines.               *)

CallStateChanged ==
  Indicate("RESPONSE_IMS_CALL_STATE_CHANGED", None) | Indicate("RESPONSE_CALL_STATE_CHANGED", None)

dialEmergencyWhileCallFailed ==
  TakeChannel &
  ( Failed
  | (Ok | OkEmpty) & ReadLine & (Skip | Indicate("ECC_NETWORKLIST_CHANGED", Text) & NoToken(requestEccDial)) )
  & GiveChannel & Free

redialWhileCallFailed ==
  TakeChannel & NoToken(requestDial) & GiveChannel

\* s_srvccPendingRequest is never filled, so the loop does not run
excuteSrvccPendingOperate == Skip

queryEccNetworkList ==
  TakeChannel &
  ( Failed
  | (Ok | OkEmpty) & ReadLine & (Skip | Indicate("ECC_NETWORKLIST_CHANGED", Text)) )
  & Free & GiveChannel

onDowngradeToVoice == Skip | TakeChannel & AnyEnd & Free & GiveChannel

onCallCSFallBackAccept == TakeChannel & GiveChannel

onSSCallCSFallBackAccept == TakeChannel & GiveChannel

callCallbacks ==
  [ dialEmergencyWhileCallFailed |-> dialEmergencyWhileCallFailed,
    redialWhileCallFailed |-> redialWhileCallFailed,
    excuteSrvccPendingOperate |-> excuteSrvccPendingOperate,
    queryEccNetworkList |-> queryEccNetworkList,
    onDowngradeToVoice |-> onDowngradeToVoice,
    onCallCSFallBackAccept |-> onCallCSFallBackAccept,
    onSSCallCSFallBackAccept |-> onSSCallCSFallBackAccept,
    sendCSCallStateChanged |-> Indicate("RESPONSE_CALL_STATE_CHANGED", None),
    sendIMSCallStateChanged |-> Indicate("RESPONSE_IMS_CALL_STATE_CHANGED", None) ]

-----------------------------------------------------------------------------
(* processCallUnsolicited: a line that does not parse is dropped.          *)

callLines ==
  LET DSCI == Indicate("VIDEOPHONE_DSCI", Struct("VideoPhoneDSCI"))
  IN  [ CRING |-> Skip | Indicate("RESPONSE_CALL_STATE_CHANGED", None),
        DSCI |-> Skip
               | CallStateChanged & (Skip | DSCI)
               | (After("dialEmergencyWhileCallFailed") | After("redialWhileCallFailed")) & (Skip | DSCI) ]

imsCallLines ==
  [ CMCCSI |-> Skip | Indicate("RESPONSE_IMS_CALL_STATE_CHANGED", None),
    CMCCSS |-> Skip | Indicate("RESPONSE_IMS_CALL_STATE_CHANGED", None),
    CEN1 |-> After("queryEccNetworkList"),
    CIREPH |-> Skip
             | (Skip | After("excuteSrvccPendingOperate")) & Indicate("SRVCC_STATE_NOTIFY", Ints(1))
               & (Skip | After("sendCSCallStateChanged") | After("sendIMSCallStateChanged")) ]

videoPhoneLines ==
  [ DVTCODECRI |-> Skip | Indicate("VIDEOPHONE_CODEC", Ints(1)) | Indicate("VIDEOPHONE_CODEC", Ints(4)),
    DVTSTRRI |-> Skip | Indicate("VIDEOPHONE_STRING", Text),
    DVTSENDRI |-> Skip | Indicate("VIDEOPHONE_REMOTE_MEDIA", Ints(2))
                       | Indicate("VIDEOPHONE_REMOTE_MEDIA", Ints(3)),
    DVTMMTI |-> Skip | Indicate("VIDEOPHONE_MM_RING", Ints(1)),
    DVTRELEASING |-> Skip | Indicate("VIDEOPHONE_RELEASING", Text),
    DVTRECARI |-> Skip | Indicate("VIDEOPHONE_RECORD_VIDEO", Ints(1)),
    VTMDSTRT |-> Skip | Indicate("VIDEOPHONE_MEDIA_START", Ints(1)),
    DVTRING |-> Skip | Indicate("RESPONSE_CALL_STATE_CHANGED", None) ]

imsLines ==
  [ SPIMSPDPINFO |-> Skip | After("onDowngradeToVoice"),
    SCSFB |-> Skip | After("onCallCSFallBackAccept"),
    CSSSFB |-> Skip | After("onSSCallCSFallBackAccept"),
    IMSHOU |-> Skip | Indicate("IMS_HANDOVER_REQUEST", Ints(1)),
    IMSHORSTU |-> Skip | Indicate("IMS_HANDOVER_STATUS_CHANGE", Ints(1)),
    IMSHOLTEINFU |-> Skip | Indicate("IMS_NETWORK_INFO_CHANGE", Struct("IMS_NetworkInfo")),
    IMSREGADDR |-> Skip | Indicate("IMS_REGISTER_ADDRESS_CHANGE", Texts(2))
                        | Indicate("IMS_REGISTER_ADDRESS_CHANGE", Texts(1)),
    WIFIPARAM |-> Skip | Indicate("IMS_WIFI_PARAM", Ints(4)),
    EARLYMEDIA |-> Skip | Indicate("EARLY_MEDIA", Ints(1)),
    SPCAPABILITY |-> Skip | Indicate("UPDATE_HD_VOICE_STATE", Ints(1)) ]

processCallUnsolicited == callLines @@ imsCallLines @@ videoPhoneLines @@ imsLines

=============================================================================
