----------------------------- MODULE HidlResponses -----------------------------
(***************************************************************************)
(* ril_service.cpp, the functions that carry an answer of the vendor       *)
(* library to the client: which payload each of them understands.  Most    *)
(* compare a length with the size of the type they expect and, when it     *)
(* differs, turn SUCCESS into INVALID_RESPONSE; a string is believed.  A   *)
(* list has any length.                                                    *)
(***************************************************************************)
EXTENDS HandlerPaths

AnyLength == 1..15

Checked(payloads) == [accepts |-> payloads, otherwise |-> "INVALID_RESPONSE"]

\* no length is compared: another payload is read as if it were this one
Believed(payloads) == [accepts |-> payloads, otherwise |-> "MISREAD"]

\* the payload is not looked at
Ignored == [accepts |-> {}, otherwise |-> "SUCCESS"]

\* responseInt
AnInt == Checked({Ints(1)})

\* responseIntOrEmpty
IntOrNone == Checked({None, Ints(1)})

TwoInts == Checked({Ints(2)})

SomeInts == Checked({Ints(n) : n \in AnyLength})

IntsOrNone == Checked({None} \cup {Ints(n) : n \in AnyLength})

\* convertCharPtrToHidlString
StringOrNone == Believed({None, Text})

\* resp[0] of an array that is not tested for NULL
FirstString == Believed({Texts(n) : n \in AnyLength})

Strings(ns) == Checked({Texts(n) : n \in ns})

StringsOrNone(ns) == Checked({None} \cup {Texts(n) : n \in ns})

ListOrNone(name) == Checked({None, List(name)})

-----------------------------------------------------------------------------
(* IRadioResponse and IOemHookResponse.                                    *)

simResponses ==
  [ getIccCardStatus |-> Checked({Struct("CardStatus")}),
    supplyIccPinForApp |-> IntOrNone, supplyIccPukForApp |-> IntOrNone,
    supplyIccPin2ForApp |-> IntOrNone, supplyIccPuk2ForApp |-> IntOrNone ]

simPinResponses ==
  [ changeIccPinForApp |-> IntOrNone, changeIccPin2ForApp |-> IntOrNone,
    supplyNetworkDepersonalization |-> IntOrNone ]

callResponses ==
  [ getCurrentCalls |-> ListOrNone("Call*"), dial |-> Ignored,
    getIMSIForApp |-> StringOrNone, hangupConnection |-> Ignored,
    hangupWaitingOrBackground |-> Ignored ]

callControlResponses ==
  [ hangupForegroundResumeBackground |-> Ignored,
    switchWaitingOrHoldingAndActive |-> Ignored, conference |-> Ignored,
    rejectCall |-> Ignored,
    getLastCallFailCause |-> Checked({Ints(1), Struct("LastCallFailCauseInfo")}) ]

signalResponses ==
  [ getSignalStrength |-> Checked({Struct("SignalStrength")}) ]

registrationResponses ==
  [ getVoiceRegistrationState |-> Strings({15}),
    getDataRegistrationState |-> Strings({6, 11}) ]

operatorResponses ==
  [ getOperator |-> Strings({3}), setRadioPower |-> Ignored, sendDtmf |-> Ignored,
    sendSms |-> Checked({Struct("SmsResponse")}),
    sendSMSExpectMore |-> Checked({Struct("SmsResponse")}) ]

dataCallResponses ==
  [ setupDataCall |-> Checked({None, Struct("DataCall"), List("DataCall")}),
    iccIOForApp |-> Checked({Struct("IccIo")}), sendUssd |-> Ignored,
    cancelPendingUssd |-> Ignored ]

serviceResponses ==
  [ getClir |-> TwoInts, setClir |-> Ignored,
    getCallForwardStatus |-> ListOrNone("CallForwardInfo*"), setCallForward |-> Ignored,
    getCallWaiting |-> TwoInts ]

lockResponses ==
  [ setCallWaiting |-> Ignored, acknowledgeLastIncomingGsmSms |-> Ignored,
    acceptCall |-> Ignored, deactivateDataCall |-> Ignored,
    getFacilityLockForApp |-> AnInt, setFacilityLockForApp |-> IntOrNone,
    setBarringPassword |-> Ignored ]

networkResponses ==
  [ getNetworkSelectionMode |-> AnInt, setNetworkSelectionModeAutomatic |-> Ignored,
    setNetworkSelectionModeManual |-> Ignored,
    getAvailableNetworks |-> StringsOrNone({4, 8}) ]

toneResponses ==
  [ startDtmf |-> Ignored, stopDtmf |-> Ignored, getBasebandVersion |-> StringOrNone,
    separateConnection |-> Ignored, setMute |-> Ignored, getMute |-> AnInt,
    getClip |-> AnInt ]

listResponses ==
  [ getDataCallList |-> ListOrNone("DataCall"), setSuppServiceNotifications |-> Ignored,
    deleteSmsOnSim |-> Ignored, setBandMode |-> Ignored, writeSmsToSim |-> AnInt,
    getAvailableBandModes |-> IntsOrNone ]

stkResponses ==
  [ sendEnvelope |-> StringOrNone, sendTerminalResponseToSim |-> Ignored,
    handleStkCallSetupRequestFromSim |-> Ignored, explicitCallTransfer |-> Ignored,
    setPreferredNetworkType |-> Ignored, getPreferredNetworkType |-> AnInt ]

cdmaModeResponses ==
  [ getNeighboringCids |-> ListOrNone("NeighboringCell*"), setLocationUpdates |-> Ignored,
    setCdmaSubscriptionSource |-> Ignored, setCdmaRoamingPreference |-> Ignored,
    getCdmaRoamingPreference |-> AnInt, setTTYMode |-> Ignored ]

privacyResponses ==
  [ getTTYMode |-> AnInt, setPreferredVoicePrivacy |-> Ignored,
    getPreferredVoicePrivacy |-> AnInt, sendCDMAFeatureCode |-> Ignored,
    sendBurstDtmf |-> Ignored, sendCdmaSms |-> Checked({Struct("SmsResponse")}) ]

broadcastResponses ==
  [ acknowledgeLastIncomingCdmaSms |-> Ignored,
    getGsmBroadcastConfig |-> ListOrNone("GsmBroadcastSmsConfigInfo*"),
    setGsmBroadcastConfig |-> Ignored, setGsmBroadcastActivation |-> Ignored,
    getCdmaBroadcastConfig |-> ListOrNone("CdmaBroadcastSmsConfigInfo*") ]

subscriptionResponses ==
  [ setCdmaBroadcastConfig |-> Ignored, setCdmaBroadcastActivation |-> Ignored,
    getCDMASubscription |-> Strings({5}), writeSmsToRuim |-> AnInt,
    deleteSmsOnRuim |-> Ignored ]

deviceResponses ==
  [ getDeviceIdentity |-> Strings({4}), exitEmergencyCallbackMode |-> Ignored,
    getSmscAddress |-> StringOrNone, setSmscAddress |-> Ignored,
    reportSmsMemoryStatus |-> Ignored, reportStkServiceIsRunning |-> Ignored ]

technologyResponses ==
  [ getCdmaSubscriptionSource |-> AnInt, requestIsimAuthentication |-> StringOrNone,
    acknowledgeIncomingGsmSmsWithPdu |-> Ignored,
    sendEnvelopeWithStatus |-> Checked({Struct("IccIo")}),
    getVoiceRadioTechnology |-> AnInt, getCellInfoList |-> ListOrNone("CellInfo") ]

imsSmsResponses ==
  [ setCellInfoListRate |-> Ignored, setInitialAttachApn |-> Ignored,
    getImsRegistrationState |-> TwoInts, sendImsSms |-> Checked({Struct("SmsResponse")}),
    iccTransmitApduBasicChannel |-> Checked({Struct("IccIo")}) ]

apduResponses ==
  [ iccOpenLogicalChannel |-> IntsOrNone, iccCloseLogicalChannel |-> Ignored,
    iccTransmitApduLogicalChannel |-> Checked({Struct("IccIo")}),
    nvReadItem |-> StringOrNone, nvWriteItem |-> Ignored, nvWriteCdmaPrl |-> Ignored ]

configResponses ==
  [ nvResetConfig |-> Ignored, setUiccSubscription |-> Ignored,
    setDataAllowed |-> Ignored, getHardwareConfig |-> ListOrNone("HardwareConfig"),
    requestIccSimAuthentication |-> Checked({Struct("IccIo")}),
    setDataProfile |-> Ignored ]

capabilityResponses ==
  [ requestShutdown |-> Ignored,
    getRadioCapability |-> Checked({Struct("RadioCapability")}),
    setRadioCapability |-> Checked({Struct("RadioCapability")}),
    startLceService |-> Checked({Struct("LceStatus")}),
    stopLceService |-> Checked({Struct("LceStatus")}) ]

carrierResponses ==
  [ pullLceData |-> Checked({Struct("LceData")}),
    getModemActivityInfo |-> Checked({Struct("ActivityStats")}),
    setAllowedCarriers |-> AnInt,
    getAllowedCarriers |-> Checked({None, Struct("CarrierRestrictions")}) ]

scanResponses ==
  [ sendDeviceState |-> Ignored, setCarrierInfoForImsiEncryption |-> Ignored,
    setIndicationFilter |-> Ignored, setSimCardPower |-> Ignored,
    startNetworkScan |-> Ignored, stopNetworkScan |-> Ignored ]

hookResponses ==
  [ startKeepalive |-> Checked({Struct("KeepaliveStatus")}), stopKeepalive |-> Ignored,
    sendRequestRaw |-> Checked({Raw}), sendRequestStrings |-> StringsOrNone(AnyLength) ]

-----------------------------------------------------------------------------
(* IExtRadioResponse and IAtcRadioResponse.                                *)

videoPhoneResponses ==
  [ videoPhoneDial |-> Ignored, videoPhoneCodec |-> Ignored,
    videoPhoneFallback |-> Ignored, videoPhoneString |-> Ignored,
    videoPhoneLocalMedia |-> Ignored, videoPhoneControlIFrame |-> Ignored,
    switchMultiCall |-> Ignored ]

attachResponses ==
  [ setTrafficClass |-> Ignored, enableLTE |-> Ignored, attachData |-> Ignored,
    stopQueryNetwork |-> Ignored, forceDeatch |-> Ignored, getHDVoiceState |-> IntOrNone,
    simmgrSimPower |-> Ignored ]

simExtResponses ==
  [ enableRauNotify |-> Ignored, setCOLP |-> Ignored, getDefaultNAN |-> StringOrNone,
    simGetAtr |-> StringOrNone, explicitCallTransferExt |-> Ignored,
    getSimCapacity |-> Strings(AnyLength) ]

simlockResponses ==
  [ storeSmsToSim |-> Ignored, querySmsStorageMode |-> StringOrNone,
    getSimlockRemaintimes |-> IntOrNone, setFacilityLockForUser |-> Ignored,
    getSimlockStatus |-> IntOrNone, getSimlockDummys |-> SomeInts ]

bandResponses ==
  [ getSimlockWhitelist |-> StringOrNone, updateEcclist |-> Ignored,
    getBandInfo |-> StringOrNone, setBandInfoMode |-> Ignored, setSinglePDN |-> Ignored,
    setSpecialRatcap |-> Ignored, queryColp |-> IntOrNone ]

colrResponses ==
  [ queryColr |-> IntOrNone, mmiEnterSim |-> Ignored, updateOperatorName |-> Ignored,
    simmgrGetSimStatus |-> Checked({Struct("CardStatus")}), setXcapIPAddress |-> Ignored ]

cardExtResponses ==
  [ sendCmdAsync |-> FirstString, getIccCardStatusExt |-> Checked({Struct("CardStatus")}),
    reAttach |-> Ignored, setPreferredNetworkTypeExt |-> Ignored,
    getICCID |-> StringOrNone, requestShutdownExt |-> Ignored ]

voiceExtResponses ==
  [ setSmsBearer |-> Ignored, setVoiceDomain |-> Ignored, updateCLIP |-> Ignored,
    getTPMRState |-> IntOrNone, setTPMRState |-> Ignored, setVideoResolution |-> Ignored,
    enableLocalHold |-> Ignored ]

plmnResponses ==
  [ enableWiFiParamReport |-> Ignored, callMediaChangeRequestTimeOut |-> Ignored,
    setDualVolteState |-> Ignored, setLocalTone |-> Ignored,
    updatePlmnPriority |-> Ignored, queryPlmn |-> StringOrNone,
    setSimPowerReal |-> Ignored ]

preferenceResponses ==
  [ getRadioPreference |-> StringOrNone, setRadioPreference |-> Ignored,
    getPreferredNetworkTypeExt |-> AnInt, setRadioPowerFallback |-> Ignored,
    getCnap |-> TwoInts, setLocationInfo |-> Ignored ]

subsidyResponses ==
  [ getSpecialRatcap |-> IntOrNone, getVideoResolution |-> IntOrNone,
    setEmergencyOnly |-> Ignored, getSubsidyLockdyStatus |-> IntOrNone,
    vsimSendCmd |-> StringOrNone ]

-----------------------------------------------------------------------------
(* IExtRadioResponse: IMS.                                                 *)

imsCallResponses ==
  [ getIMSCurrentCalls |-> Checked({List("CallVoLTE*")}),
    setIMSVoiceCallAvailability |-> Ignored, getIMSVoiceCallAvailability |-> IntOrNone,
    initISIM |-> IntOrNone ]

imsMediaResponses ==
  [ requestVolteCallMediaChange |-> Ignored, responseVolteCallMediaChange |-> Ignored,
    setIMSSmscAddress |-> Ignored, volteCallFallBackToVoice |-> Ignored,
    setIMSInitialAttachApn |-> Ignored,
    queryCallForwardStatus |-> Checked({List("CallForwardInfoUri*")}) ]

imsGroupResponses ==
  [ setCallForwardUri |-> Ignored, IMSInitialGroupCall |-> Ignored,
    IMSAddGroupCall |-> Ignored, enableIMS |-> Ignored, disableIMS |-> Ignored,
    getIMSBearerState |-> IntOrNone, setInitialAttachSOSApn |-> Ignored ]

imsHandoverResponses ==
  [ IMSHandover |-> Ignored, notifyIMSHandoverStatusUpdate |-> Ignored,
    notifyIMSNetworkInfoChanged |-> Ignored, notifyIMSCallEnd |-> Ignored,
    notifyVoWifiEnable |-> Ignored, notifyVoWifiCallStateChanged |-> Ignored,
    notifyDataRouterUpdate |-> Ignored ]

imsSingleCallResponses ==
  [ IMSHoldSingleCall |-> Ignored, IMSMuteSingleCall |-> Ignored,
    IMSSilenceSingleCall |-> Ignored, IMSEnableLocalConference |-> Ignored,
    notifyHandoverCallInfo |-> Ignored, getSrvccCapbility |-> IntOrNone,
    getIMSPcscfAddress |-> StringOrNone ]

imsAddressResponses ==
  [ setIMSPcscfAddress |-> Ignored, getFacilityLockForAppExt |-> TwoInts,
    getImsRegAddress |-> Strings(AnyLength),
    getImsPaniInfo |-> Checked({Struct("IMS_NetworkInfo")}) ]

-----------------------------------------------------------------------------
responseFunctions ==
  simResponses @@ simPinResponses @@ callResponses @@ callControlResponses @@
  signalResponses @@ registrationResponses @@ operatorResponses @@
  dataCallResponses @@ serviceResponses @@ lockResponses @@ networkResponses @@
  toneResponses @@ listResponses @@ stkResponses @@ cdmaModeResponses @@
  privacyResponses @@ broadcastResponses @@ subscriptionResponses @@
  deviceResponses @@ technologyResponses @@ imsSmsResponses @@ apduResponses @@
  configResponses @@ capabilityResponses @@ carrierResponses @@ scanResponses @@
  hookResponses @@ videoPhoneResponses @@ attachResponses @@ simExtResponses @@
  simlockResponses @@ bandResponses @@ colrResponses @@ cardExtResponses @@
  voiceExtResponses @@ plmnResponses @@ preferenceResponses @@ subsidyResponses @@
  imsCallResponses @@ imsMediaResponses @@ imsGroupResponses @@
  imsHandoverResponses @@ imsSingleCallResponses @@ imsAddressResponses

-----------------------------------------------------------------------------
(* The response function of every request (ril_commands.h and its OEM and  *)
(* ATC counterparts); "none" is a NULL pointer.                            *)

commands ==
  [ GET_SIM_STATUS |-> "getIccCardStatus", ENTER_SIM_PIN |-> "supplyIccPinForApp",
    ENTER_SIM_PUK |-> "supplyIccPukForApp", ENTER_SIM_PIN2 |-> "supplyIccPin2ForApp",
    ENTER_SIM_PUK2 |-> "supplyIccPuk2ForApp", CHANGE_SIM_PIN |-> "changeIccPinForApp",
    CHANGE_SIM_PIN2 |-> "changeIccPin2ForApp",
    ENTER_NETWORK_DEPERSONALIZATION |-> "supplyNetworkDepersonalization",
    GET_CURRENT_CALLS |-> "getCurrentCalls", DIAL |-> "dial", GET_IMSI |-> "getIMSIForApp",
    HANGUP |-> "hangupConnection", HANGUP_WAITING_OR_BACKGROUND |-> "hangupWaitingOrBackground",
    HANGUP_FOREGROUND_RESUME_BACKGROUND |-> "hangupForegroundResumeBackground",
    SWITCH_WAITING_OR_HOLDING_AND_ACTIVE |-> "switchWaitingOrHoldingAndActive",
    CONFERENCE |-> "conference", UDUB |-> "rejectCall",
    LAST_CALL_FAIL_CAUSE |-> "getLastCallFailCause", SIGNAL_STRENGTH |-> "getSignalStrength",
    VOICE_REGISTRATION_STATE |-> "getVoiceRegistrationState",
    DATA_REGISTRATION_STATE |-> "getDataRegistrationState", OPERATOR |-> "getOperator",
    RADIO_POWER |-> "setRadioPower", DTMF |-> "sendDtmf", SEND_SMS |-> "sendSms",
    SEND_SMS_EXPECT_MORE |-> "sendSMSExpectMore", SETUP_DATA_CALL |-> "setupDataCall",
    SIM_IO |-> "iccIOForApp", SEND_USSD |-> "sendUssd", CANCEL_USSD |-> "cancelPendingUssd",
    GET_CLIR |-> "getClir", SET_CLIR |-> "setClir",
    QUERY_CALL_FORWARD_STATUS |-> "getCallForwardStatus", SET_CALL_FORWARD |-> "setCallForward",
    QUERY_CALL_WAITING |-> "getCallWaiting", SET_CALL_WAITING |-> "setCallWaiting",
    SMS_ACKNOWLEDGE |-> "acknowledgeLastIncomingGsmSms", GET_IMEI |-> "none",
    GET_IMEISV |-> "none", ANSWER |-> "acceptCall", DEACTIVATE_DATA_CALL |-> "deactivateDataCall",
    QUERY_FACILITY_LOCK |-> "getFacilityLockForApp",
    SET_FACILITY_LOCK |-> "setFacilityLockForApp",
    CHANGE_BARRING_PASSWORD |-> "setBarringPassword",
    QUERY_NETWORK_SELECTION_MODE |-> "getNetworkSelectionMode",
    SET_NETWORK_SELECTION_AUTOMATIC |-> "setNetworkSelectionModeAutomatic",
    SET_NETWORK_SELECTION_MANUAL |-> "setNetworkSelectionModeManual",
    QUERY_AVAILABLE_NETWORKS |-> "getAvailableNetworks", DTMF_START |-> "startDtmf",
    DTMF_STOP |-> "stopDtmf", BASEBAND_VERSION |-> "getBasebandVersion",
    SEPARATE_CONNECTION |-> "separateConnection", SET_MUTE |-> "setMute", GET_MUTE |-> "getMute",
    QUERY_CLIP |-> "getClip", LAST_DATA_CALL_FAIL_CAUSE |-> "none",
    DATA_CALL_LIST |-> "getDataCallList", RESET_RADIO |-> "none",
    OEM_HOOK_RAW |-> "sendRequestRaw", OEM_HOOK_STRINGS |-> "sendRequestStrings",
    SCREEN_STATE |-> "sendDeviceState",
    SET_SUPP_SVC_NOTIFICATION |-> "setSuppServiceNotifications",
    WRITE_SMS_TO_SIM |-> "writeSmsToSim", DELETE_SMS_ON_SIM |-> "deleteSmsOnSim",
    SET_BAND_MODE |-> "setBandMode", QUERY_AVAILABLE_BAND_MODE |-> "getAvailableBandModes",
    STK_GET_PROFILE |-> "none", STK_SET_PROFILE |-> "none",
    STK_SEND_ENVELOPE_COMMAND |-> "sendEnvelope",
    STK_SEND_TERMINAL_RESPONSE |-> "sendTerminalResponseToSim",
    STK_HANDLE_CALL_SETUP_REQUESTED_FROM_SIM |-> "handleStkCallSetupRequestFromSim",
    EXPLICIT_CALL_TRANSFER |-> "explicitCallTransfer",
    SET_PREFERRED_NETWORK_TYPE |-> "setPreferredNetworkType",
    GET_PREFERRED_NETWORK_TYPE |-> "getPreferredNetworkType",
    GET_NEIGHBORING_CELL_IDS |-> "getNeighboringCids",
    SET_LOCATION_UPDATES |-> "setLocationUpdates",
    CDMA_SET_SUBSCRIPTION_SOURCE |-> "setCdmaSubscriptionSource",
    CDMA_SET_ROAMING_PREFERENCE |-> "setCdmaRoamingPreference",
    CDMA_QUERY_ROAMING_PREFERENCE |-> "getCdmaRoamingPreference", SET_TTY_MODE |-> "setTTYMode",
    QUERY_TTY_MODE |-> "getTTYMode",
    CDMA_SET_PREFERRED_VOICE_PRIVACY_MODE |-> "setPreferredVoicePrivacy",
    CDMA_QUERY_PREFERRED_VOICE_PRIVACY_MODE |-> "getPreferredVoicePrivacy",
    CDMA_FLASH |-> "sendCDMAFeatureCode", CDMA_BURST_DTMF |-> "sendBurstDtmf",
    CDMA_VALIDATE_AND_WRITE_AKEY |-> "none", CDMA_SEND_SMS |-> "sendCdmaSms",
    CDMA_SMS_ACKNOWLEDGE |-> "acknowledgeLastIncomingCdmaSms",
    GSM_GET_BROADCAST_SMS_CONFIG |-> "getGsmBroadcastConfig",
    GSM_SET_BROADCAST_SMS_CONFIG |-> "setGsmBroadcastConfig",
    GSM_SMS_BROADCAST_ACTIVATION |-> "setGsmBroadcastActivation",
    CDMA_GET_BROADCAST_SMS_CONFIG |-> "getCdmaBroadcastConfig",
    CDMA_SET_BROADCAST_SMS_CONFIG |-> "setCdmaBroadcastConfig",
    CDMA_SMS_BROADCAST_ACTIVATION |-> "setCdmaBroadcastActivation",
    CDMA_SUBSCRIPTION |-> "getCDMASubscription", CDMA_WRITE_SMS_TO_RUIM |-> "writeSmsToRuim",
    CDMA_DELETE_SMS_ON_RUIM |-> "deleteSmsOnRuim", DEVICE_IDENTITY |-> "getDeviceIdentity",
    EXIT_EMERGENCY_CALLBACK_MODE |-> "exitEmergencyCallbackMode",
    GET_SMSC_ADDRESS |-> "getSmscAddress", SET_SMSC_ADDRESS |-> "setSmscAddress",
    REPORT_SMS_MEMORY_STATUS |-> "reportSmsMemoryStatus",
    REPORT_STK_SERVICE_IS_RUNNING |-> "reportStkServiceIsRunning",
    CDMA_GET_SUBSCRIPTION_SOURCE |-> "getCdmaSubscriptionSource",
    ISIM_AUTHENTICATION |-> "requestIsimAuthentication",
    ACKNOWLEDGE_INCOMING_GSM_SMS_WITH_PDU |-> "acknowledgeIncomingGsmSmsWithPdu",
    STK_SEND_ENVELOPE_WITH_STATUS |-> "sendEnvelopeWithStatus",
    VOICE_RADIO_TECH |-> "getVoiceRadioTechnology", GET_CELL_INFO_LIST |-> "getCellInfoList",
    SET_UNSOL_CELL_INFO_LIST_RATE |-> "setCellInfoListRate",
    SET_INITIAL_ATTACH_APN |-> "setInitialAttachApn",
    IMS_REGISTRATION_STATE |-> "getImsRegistrationState", IMS_SEND_SMS |-> "sendImsSms",
    SIM_TRANSMIT_APDU_BASIC |-> "iccTransmitApduBasicChannel",
    SIM_OPEN_CHANNEL |-> "iccOpenLogicalChannel", SIM_CLOSE_CHANNEL |-> "iccCloseLogicalChannel",
    SIM_TRANSMIT_APDU_CHANNEL |-> "iccTransmitApduLogicalChannel", NV_READ_ITEM |-> "nvReadItem",
    NV_WRITE_ITEM |-> "nvWriteItem", NV_WRITE_CDMA_PRL |-> "nvWriteCdmaPrl",
    NV_RESET_CONFIG |-> "nvResetConfig", SET_UICC_SUBSCRIPTION |-> "setUiccSubscription",
    ALLOW_DATA |-> "setDataAllowed", GET_HARDWARE_CONFIG |-> "getHardwareConfig",
    SIM_AUTHENTICATION |-> "requestIccSimAuthentication", GET_DC_RT_INFO |-> "none",
    SET_DC_RT_INFO_RATE |-> "none", SET_DATA_PROFILE |-> "setDataProfile",
    SHUTDOWN |-> "requestShutdown", GET_RADIO_CAPABILITY |-> "getRadioCapability",
    SET_RADIO_CAPABILITY |-> "setRadioCapability", START_LCE |-> "startLceService",
    STOP_LCE |-> "stopLceService", PULL_LCEDATA |-> "pullLceData",
    GET_ACTIVITY_INFO |-> "getModemActivityInfo",
    SET_CARRIER_RESTRICTIONS |-> "setAllowedCarriers",
    GET_CARRIER_RESTRICTIONS |-> "getAllowedCarriers", SEND_DEVICE_STATE |-> "sendDeviceState",
    SET_UNSOLICITED_RESPONSE_FILTER |-> "setIndicationFilter",
    SET_SIM_CARD_POWER |-> "setSimCardPower",
    SET_CARRIER_INFO_IMSI_ENCRYPTION |-> "setCarrierInfoForImsiEncryption",
    START_NETWORK_SCAN |-> "startNetworkScan", STOP_NETWORK_SCAN |-> "stopNetworkScan",
    START_KEEPALIVE |-> "startKeepalive", STOP_KEEPALIVE |-> "stopKeepalive" ]

oemCommands ==
  [ VIDEOPHONE_DIAL |-> "videoPhoneDial", VIDEOPHONE_CODEC |-> "videoPhoneCodec",
    VIDEOPHONE_FALLBACK |-> "videoPhoneFallback", VIDEOPHONE_STRING |-> "videoPhoneString",
    VIDEOPHONE_LOCAL_MEDIA |-> "videoPhoneLocalMedia",
    VIDEOPHONE_CONTROL_IFRAME |-> "videoPhoneControlIFrame",
    SWITCH_MULTI_CALL |-> "switchMultiCall", TRAFFIC_CLASS |-> "setTrafficClass",
    ENABLE_LTE |-> "enableLTE", ATTACH_DATA |-> "attachData",
    STOP_QUERY_NETWORK |-> "stopQueryNetwork", FORCE_DETACH |-> "forceDeatch",
    GET_HD_VOICE_STATE |-> "getHDVoiceState", SIMMGR_SIM_POWER |-> "simmgrSimPower",
    ENABLE_RAU_NOTIFY |-> "enableRauNotify", SET_COLP |-> "setCOLP",
    GET_DEFAULT_NAN |-> "getDefaultNAN", SIM_GET_ATR |-> "simGetAtr",
    EXT_EXPLICIT_CALL_TRANSFER |-> "explicitCallTransferExt",
    GET_SIM_CAPACITY |-> "getSimCapacity", STORE_SMS_TO_SIM |-> "storeSmsToSim",
    QUERY_SMS_STORAGE_MODE |-> "querySmsStorageMode",
    GET_SIMLOCK_REMAIN_TIMES |-> "getSimlockRemaintimes",
    SET_FACILITY_LOCK_FOR_USER |-> "setFacilityLockForUser",
    GET_SIMLOCK_STATUS |-> "getSimlockStatus", GET_SIMLOCK_DUMMYS |-> "getSimlockDummys",
    GET_SIMLOCK_WHITE_LIST |-> "getSimlockWhitelist", UPDATE_ECCLIST |-> "updateEcclist",
    GET_BAND_INFO |-> "getBandInfo", SET_BAND_INFO_MODE |-> "setBandInfoMode",
    SET_SINGLE_PDN |-> "setSinglePDN", SET_SPECIAL_RATCAP |-> "setSpecialRatcap",
    QUERY_COLP |-> "queryColp", QUERY_COLR |-> "queryColr", MMI_ENTER_SIM |-> "mmiEnterSim",
    UPDATE_OPERATOR_NAME |-> "updateOperatorName", SIMMGR_GET_SIM_STATUS |-> "simmgrGetSimStatus",
    SET_XCAP_IP_ADDR |-> "setXcapIPAddress", SEND_CMD |-> "sendCmdAsync",
    EXT_GET_SIM_STATUS |-> "getIccCardStatusExt", REATTACH |-> "reAttach",
    EXT_SET_PREFERRED_NETWORK_TYPE |-> "setPreferredNetworkTypeExt",
    EXT_SHUTDOWN |-> "requestShutdownExt", SET_SMS_BEARER |-> "setSmsBearer",
    SET_VOICE_DOMAIN |-> "setVoiceDomain", UPDATE_CLIP |-> "updateCLIP",
    SET_TPMR_STATE |-> "setTPMRState", GET_TPMR_STATE |-> "getTPMRState",
    SET_VIDEO_RESOLUTION |-> "setVideoResolution", ENABLE_LOCAL_HOLD |-> "enableLocalHold",
    ENABLE_WIFI_PARAM_REPORT |-> "enableWiFiParamReport",
    CALL_MEDIA_CHANGE_REQUEST_TIMEOUT |-> "callMediaChangeRequestTimeOut",
    SET_DUAL_VOLTE_STATE |-> "setDualVolteState", SET_LOCAL_TONE |-> "setLocalTone",
    UPDATE_PLMN |-> "updatePlmnPriority", QUERY_PLMN |-> "queryPlmn",
    SIM_POWER_REAL |-> "setSimPowerReal", GET_RADIO_PREFERENCE |-> "getRadioPreference",
    SET_RADIO_PREFERENCE |-> "setRadioPreference", GET_IMS_CURRENT_CALLS |-> "getIMSCurrentCalls",
    SET_IMS_VOICE_CALL_AVAILABILITY |-> "setIMSVoiceCallAvailability",
    GET_IMS_VOICE_CALL_AVAILABILITY |-> "getIMSVoiceCallAvailability", INIT_ISIM |-> "initISIM",
    IMS_CALL_REQUEST_MEDIA_CHANGE |-> "requestVolteCallMediaChange",
    IMS_CALL_RESPONSE_MEDIA_CHANGE |-> "responseVolteCallMediaChange",
    SET_IMS_SMSC |-> "setIMSSmscAddress",
    IMS_CALL_FALL_BACK_TO_VOICE |-> "volteCallFallBackToVoice",
    SET_IMS_INITIAL_ATTACH_APN |-> "setIMSInitialAttachApn",
    QUERY_CALL_FORWARD_STATUS_URI |-> "queryCallForwardStatus",
    SET_CALL_FORWARD_URI |-> "setCallForwardUri",
    IMS_INITIAL_GROUP_CALL |-> "IMSInitialGroupCall", IMS_ADD_TO_GROUP_CALL |-> "IMSAddGroupCall",
    ENABLE_IMS |-> "enableIMS", DISABLE_IMS |-> "disableIMS",
    GET_IMS_BEARER_STATE |-> "getIMSBearerState",
    SET_SOS_INITIAL_ATTACH_APN |-> "setInitialAttachSOSApn", IMS_HANDOVER |-> "IMSHandover",
    IMS_HANDOVER_STATUS_UPDATE |-> "notifyIMSHandoverStatusUpdate",
    IMS_NETWORK_INFO_CHANGE |-> "notifyIMSNetworkInfoChanged",
    IMS_HANDOVER_CALL_END |-> "notifyIMSCallEnd", IMS_WIFI_ENABLE |-> "notifyVoWifiEnable",
    IMS_WIFI_CALL_STATE_CHANGE |-> "notifyVoWifiCallStateChanged",
    IMS_UPDATE_DATA_ROUTER |-> "notifyDataRouterUpdate",
    IMS_HOLD_SINGLE_CALL |-> "IMSHoldSingleCall", IMS_MUTE_SINGLE_CALL |-> "IMSMuteSingleCall",
    IMS_SILENCE_SINGLE_CALL |-> "IMSSilenceSingleCall",
    IMS_ENABLE_LOCAL_CONFERENCE |-> "IMSEnableLocalConference",
    IMS_NOTIFY_HANDOVER_CALL_INFO |-> "notifyHandoverCallInfo",
    GET_IMS_SRVCC_CAPBILITY |-> "getSrvccCapbility", GET_IMS_PCSCF_ADDR |-> "setIMSPcscfAddress",
    SET_IMS_PCSCF_ADDR |-> "getIMSPcscfAddress",
    EXT_QUERY_FACILITY_LOCK |-> "getFacilityLockForAppExt", IMS_REGADDR |-> "getImsRegAddress",
    EXT_GET_PREFERRED_NETWORK_TYPE |-> "getPreferredNetworkTypeExt",
    RADIO_POWER_FALLBACK |-> "setRadioPowerFallback", GET_CNAP |-> "getCnap",
    SET_LOCATION_INFO |-> "setLocationInfo", GET_SPECIAL_RATCAP |-> "getSpecialRatcap",
    GET_VIDEO_RESOLUTION |-> "getVideoResolution", GET_IMS_PANI_INFO |-> "getImsPaniInfo",
    SET_EMERGENCY_ONLY |-> "setEmergencyOnly",
    GET_SUBSIDYLOCK_STATUS |-> "getSubsidyLockdyStatus", GET_ICCID |-> "getICCID" ]

atcCommands ==
  [ VSIM_SEND_CMD |-> "vsimSendCmd" ]

responseOf == commands @@ oemCommands @@ atcCommands

===============================================================================
