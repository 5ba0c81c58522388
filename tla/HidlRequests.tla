----------------------------- MODULE HidlRequests ------------------------------
(***************************************************************************)
(* ril_service.cpp, first half: the methods a client calls on IRadio,      *)
(* IExtRadio (radio interactor) and IAtcRadio.  A method adds a request to *)
(* the list of outstanding ones, allocates the blocks that carry its       *)
(* arguments and hands them to the vendor library; the dispatch helpers    *)
(* do this for the common shapes, the other methods allocate a structure   *)
(* and what hangs on it by themselves.  When an allocation fails the       *)
(* blocks allocated so far are freed and the method answers NO_MEMORY.     *)
(*                                                                         *)
(* Not here: sendCmdSync (answered by a function of the vendor library,    *)
(* never listed), responseAcknowledgement and the setResponseFunctions.    *)
(***************************************************************************)
EXTENDS HandlerPaths

\* the request, the type of its data, the blocks allocated, in order, and those that
\* are NULL instead when the string they are for is empty
Carries(request, payload, blocks, nulls) ==
  [request |-> request, payload |-> payload, blocks |-> blocks, nulls |-> nulls]

\* the blocks that copyHidlStringToRil fills
hidlStrings ==
  {"string", "address", "sub_address", "uusData", "path", "data", "pin2", "aid", "number", "pdu",
   "smsc", "apn", "protocol", "username", "password", "value", "authData", "mnc", "mcc", "keyId",
   "ruleset", "info"}

Sends(request, payload, blocks) ==
  Carries(request, payload, blocks, hidlStrings \cap {blocks[i] : i \in DOMAIN blocks})

Refusal(request, err) == [request |-> request, err |-> err]

Void(request) == Sends(request, None, <<>>)

Int(request, n) == Sends(request, Ints(n), <<"array">>)

Str(request) == Sends(request, Text, <<"string">>)

\* allowEmpty, or strings that the method makes itself
Strs(request, n) == Carries(request, Texts(n), <<"array", "strings">>, {})

\* one of the strings at least may be NULL
StrsOrNull(request, n) == Carries(request, Texts(n), <<"array", "strings">>, {"strings"})

Bytes(request) == Carries(request, Raw, <<"data">>, {})

-----------------------------------------------------------------------------
(* IRadio.                                                                 *)

simMethods ==
  [ getIccCardStatus |-> Void("GET_SIM_STATUS"),
    supplyIccPinForApp |-> Strs("ENTER_SIM_PIN", 2),
    supplyIccPukForApp |-> Strs("ENTER_SIM_PUK", 3),
    supplyIccPin2ForApp |-> Strs("ENTER_SIM_PIN2", 2),
    supplyIccPuk2ForApp |-> Strs("ENTER_SIM_PUK2", 3),
    changeIccPinForApp |-> Strs("CHANGE_SIM_PIN", 3),
    changeIccPin2ForApp |-> Strs("CHANGE_SIM_PIN2", 3),
    supplyNetworkDepersonalization |-> Strs("ENTER_NETWORK_DEPERSONALIZATION", 1) ]

callMethods ==
  [ getCurrentCalls |-> Void("GET_CURRENT_CALLS"),
    dial |-> Sends("DIAL", Struct("Dial"), <<"dial", "address", "uusInfo", "uusData">>),
    getImsiForApp |-> StrsOrNull("GET_IMSI", 1),
    hangup |-> Int("HANGUP", 1),
    hangupWaitingOrBackground |-> Void("HANGUP_WAITING_OR_BACKGROUND"),
    hangupForegroundResumeBackground |-> Void("HANGUP_FOREGROUND_RESUME_BACKGROUND"),
    switchWaitingOrHoldingAndActive |-> Void("SWITCH_WAITING_OR_HOLDING_AND_ACTIVE"),
    conference |-> Void("CONFERENCE"),
    rejectCall |-> Void("UDUB"),
    getLastCallFailCause |-> Void("LAST_CALL_FAIL_CAUSE") ]

stateMethods ==
  [ getSignalStrength |-> Void("SIGNAL_STRENGTH"),
    getVoiceRegistrationState |-> Void("VOICE_REGISTRATION_STATE"),
    getDataRegistrationState |-> Void("DATA_REGISTRATION_STATE"),
    getOperator |-> Void("OPERATOR"),
    setRadioPower |-> Int("RADIO_POWER", 1),
    sendDtmf |-> Str("DTMF"),
    sendSms |-> StrsOrNull("SEND_SMS", 2) ]

dataMethods ==
  [ sendSMSExpectMore |-> StrsOrNull("SEND_SMS_EXPECT_MORE", 2),
    setupDataCall |-> Strs("SETUP_DATA_CALL", 7),
    iccIOForApp |->
        Sends("SIM_IO", Struct("SIM_IO"),
              <<"struct", "path", "data", "pin2", "aid">>) ]

serviceMethods ==
  [ sendUssd |-> Str("SEND_USSD"),
    cancelPendingUssd |-> Void("CANCEL_USSD"),
    getClir |-> Void("GET_CLIR"),
    setClir |-> Int("SET_CLIR", 1),
    getCallForwardStatus |->
        Sends("QUERY_CALL_FORWARD_STATUS", Struct("CallForwardInfo"),
              <<"struct", "number">>),
    setCallForward |->
        Sends("SET_CALL_FORWARD", Struct("CallForwardInfo"),
              <<"struct", "number">>),
    getCallWaiting |-> Int("QUERY_CALL_WAITING", 1),
    setCallWaiting |-> Int("SET_CALL_WAITING", 2),
    acknowledgeLastIncomingGsmSms |-> Int("SMS_ACKNOWLEDGE", 2),
    acceptCall |-> Void("ANSWER"),
    deactivateDataCall |-> Strs("DEACTIVATE_DATA_CALL", 2),
    getFacilityLockForApp |-> Strs("QUERY_FACILITY_LOCK", 4),
    setFacilityLockForApp |-> Strs("SET_FACILITY_LOCK", 5),
    setBarringPassword |-> Strs("CHANGE_BARRING_PASSWORD", 3),
    getNetworkSelectionMode |-> Void("QUERY_NETWORK_SELECTION_MODE") ]

networkMethods ==
  [ setNetworkSelectionModeAutomatic |-> Void("SET_NETWORK_SELECTION_AUTOMATIC"),
    setNetworkSelectionModeManual |-> Str("SET_NETWORK_SELECTION_MANUAL"),
    getAvailableNetworks |-> Void("QUERY_AVAILABLE_NETWORKS"),
    startNetworkScan |-> Sends("START_NETWORK_SCAN", Struct("NetworkScanRequest"), <<"struct">>),
    stopNetworkScan |-> Void("STOP_NETWORK_SCAN"),
    startDtmf |-> Str("DTMF_START") ]

settingMethods ==
  [ stopDtmf |-> Void("DTMF_STOP"),
    getBasebandVersion |-> Void("BASEBAND_VERSION"),
    separateConnection |-> Int("SEPARATE_CONNECTION", 1),
    setMute |-> Int("SET_MUTE", 1),
    getMute |-> Void("GET_MUTE"),
    getClip |-> Void("QUERY_CLIP"),
    getDataCallList |-> Void("DATA_CALL_LIST"),
    setSuppServiceNotifications |-> Int("SET_SUPP_SVC_NOTIFICATION", 1),
    writeSmsToSim |->
        Sends("WRITE_SMS_TO_SIM", Struct("SmsWriteArgs"),
              <<"struct", "pdu", "smsc">>) ]

smsStkMethods ==
  [ deleteSmsOnSim |-> Int("DELETE_SMS_ON_SIM", 1),
    setBandMode |-> Int("SET_BAND_MODE", 1),
    getAvailableBandModes |-> Void("QUERY_AVAILABLE_BAND_MODE"),
    sendEnvelope |-> Str("STK_SEND_ENVELOPE_COMMAND"),
    sendTerminalResponseToSim |-> Str("STK_SEND_TERMINAL_RESPONSE"),
    handleStkCallSetupRequestFromSim |-> Int("STK_HANDLE_CALL_SETUP_REQUESTED_FROM_SIM", 1),
    explicitCallTransfer |-> Void("EXPLICIT_CALL_TRANSFER") ]

modeMethods ==
  [ setPreferredNetworkType |-> Int("SET_PREFERRED_NETWORK_TYPE", 1),
    getPreferredNetworkType |-> Void("GET_PREFERRED_NETWORK_TYPE"),
    getNeighboringCids |-> Void("GET_NEIGHBORING_CELL_IDS"),
    setLocationUpdates |-> Int("SET_LOCATION_UPDATES", 1),
    setCdmaSubscriptionSource |-> Int("CDMA_SET_SUBSCRIPTION_SOURCE", 1),
    setCdmaRoamingPreference |-> Int("CDMA_SET_ROAMING_PREFERENCE", 1),
    getCdmaRoamingPreference |-> Void("CDMA_QUERY_ROAMING_PREFERENCE"),
    setTTYMode |-> Int("SET_TTY_MODE", 1),
    getTTYMode |-> Void("QUERY_TTY_MODE"),
    setPreferredVoicePrivacy |-> Int("CDMA_SET_PREFERRED_VOICE_PRIVACY_MODE", 1),
    getPreferredVoicePrivacy |-> Void("CDMA_QUERY_PREFERRED_VOICE_PRIVACY_MODE"),
    sendCDMAFeatureCode |-> Str("CDMA_FLASH"),
    sendBurstDtmf |-> StrsOrNull("CDMA_BURST_DTMF", 3) ]

cdmaMethods ==
  [ sendCdmaSms |-> Sends("CDMA_SEND_SMS", Struct("CDMA_SMS_Message"), <<"struct">>),
    acknowledgeLastIncomingCdmaSms |->
        Sends("CDMA_SMS_ACKNOWLEDGE", Struct("CDMA_SMS_Ack"),
              <<"struct">>),
    getGsmBroadcastConfig |-> Void("GSM_GET_BROADCAST_SMS_CONFIG"),
    setGsmBroadcastConfig |->
        Sends("GSM_SET_BROADCAST_SMS_CONFIG", List("GsmBroadcastSmsConfigInfo*"),
              <<"array", "elements">>),
    setGsmBroadcastActivation |-> Int("GSM_SMS_BROADCAST_ACTIVATION", 1),
    getCdmaBroadcastConfig |-> Void("CDMA_GET_BROADCAST_SMS_CONFIG") ]

broadcastMethods ==
  [ setCdmaBroadcastConfig |->
        Sends("CDMA_SET_BROADCAST_SMS_CONFIG", List("CdmaBroadcastSmsConfigInfo*"),
              <<"array", "elements">>),
    setCdmaBroadcastActivation |-> Int("CDMA_SMS_BROADCAST_ACTIVATION", 1),
    getCDMASubscription |-> Void("CDMA_SUBSCRIPTION"),
    writeSmsToRuim |->
        Sends("CDMA_WRITE_SMS_TO_RUIM", Struct("CDMA_SMS_WriteArgs"),
              <<"struct">>),
    deleteSmsOnRuim |-> Int("CDMA_DELETE_SMS_ON_RUIM", 1),
    getDeviceIdentity |-> Void("DEVICE_IDENTITY"),
    exitEmergencyCallbackMode |-> Void("EXIT_EMERGENCY_CALLBACK_MODE"),
    getSmscAddress |-> Void("GET_SMSC_ADDRESS"),
    setSmscAddress |-> Str("SET_SMSC_ADDRESS") ]

reportMethods ==
  [ reportSmsMemoryStatus |-> Int("REPORT_SMS_MEMORY_STATUS", 1),
    reportStkServiceIsRunning |-> Void("REPORT_STK_SERVICE_IS_RUNNING"),
    getCdmaSubscriptionSource |-> Void("CDMA_GET_SUBSCRIPTION_SOURCE"),
    requestIsimAuthentication |-> Str("ISIM_AUTHENTICATION"),
    acknowledgeIncomingGsmSmsWithPdu |-> StrsOrNull("ACKNOWLEDGE_INCOMING_GSM_SMS_WITH_PDU", 2),
    sendEnvelopeWithStatus |-> Str("STK_SEND_ENVELOPE_WITH_STATUS"),
    getVoiceRadioTechnology |-> Void("VOICE_RADIO_TECH"),
    getCellInfoList |-> Void("GET_CELL_INFO_LIST"),
    setCellInfoListRate |-> Int("SET_UNSOL_CELL_INFO_LIST_RATE", 1) ]

apnMethods ==
  [ setInitialAttachApn |->
        Carries("SET_INITIAL_ATTACH_APN", Struct("InitialAttachApn"),
                <<"struct", "apn", "protocol", "username", "password">>,
                {"protocol", "username", "password"}),
    getImsRegistrationState |-> Void("IMS_REGISTRATION_STATE") ]

apduMethods ==
  [ sendImsSms |-> Sends("IMS_SEND_SMS", Struct("ImsSms"), <<"struct", "array", "smsc", "pdu">>),
    iccTransmitApduBasicChannel |->
        Sends("SIM_TRANSMIT_APDU_BASIC", Struct("SIM_APDU"),
              <<"struct", "data">>),
    iccOpenLogicalChannel |->
        Sends("SIM_OPEN_CHANNEL", Struct("OpenChannelParams"),
              <<"struct", "aid">>),
    iccCloseLogicalChannel |-> Int("SIM_CLOSE_CHANNEL", 1),
    iccTransmitApduLogicalChannel |->
        Sends("SIM_TRANSMIT_APDU_CHANNEL", Struct("SIM_APDU"),
              <<"struct", "data">>) ]

nvMethods ==
  [ nvReadItem |-> Sends("NV_READ_ITEM", Struct("NV_ReadItem"), <<"struct">>),
    nvWriteItem |-> Sends("NV_WRITE_ITEM", Struct("NV_WriteItem"), <<"struct", "value">>),
    nvWriteCdmaPrl |-> Bytes("NV_WRITE_CDMA_PRL"),
    nvResetConfig |-> Int("NV_RESET_CONFIG", 1),
    setUiccSubscription |-> Sends("SET_UICC_SUBSCRIPTION", Struct("SelectUiccSub"), <<"struct">>),
    setDataAllowed |-> Int("ALLOW_DATA", 1),
    getHardwareConfig |-> Void("GET_HARDWARE_CONFIG") ]

authMethods ==
  [ requestIccSimAuthentication |->
        Sends("SIM_AUTHENTICATION", Struct("SimAuthentication"),
              <<"struct", "authData", "aid">>) ]

profileMethods ==
  [ setDataProfile |->
        Carries("SET_DATA_PROFILE", List("DataProfileInfo*"),
                <<"array", "profiles", "strings">>, {"strings"}) ]

capabilityMethods ==
  [ requestShutdown |-> Void("SHUTDOWN"),
    getRadioCapability |-> Void("GET_RADIO_CAPABILITY"),
    setRadioCapability |-> Sends("SET_RADIO_CAPABILITY", Struct("RadioCapability"), <<"struct">>),
    startLceService |-> Int("START_LCE", 2),
    stopLceService |-> Void("STOP_LCE"),
    pullLceData |-> Void("PULL_LCEDATA"),
    getModemActivityInfo |-> Void("GET_ACTIVITY_INFO"),
    setAllowedCarriers |->
        Sends("SET_CARRIER_RESTRICTIONS", Struct("CarrierRestrictions"),
              <<"struct", "allowed", "excluded">>) ]

powerMethods ==
  [ getAllowedCarriers |-> Void("GET_CARRIER_RESTRICTIONS"),
    sendDeviceState |-> Int("SCREEN_STATE", 1),
    setSimCardPower |-> Int("SET_SIM_CARD_POWER", 1),
    setSimCardPower_1_1 |-> Int("SET_SIM_CARD_POWER", 1),
    setCarrierInfoForImsiEncryption |->
        Sends("SET_CARRIER_INFO_IMSI_ENCRYPTION", Struct("CarrierInfoForImsiEncryption"),
              <<"struct", "mnc", "mcc", "keyId", "carrierKey">>) ]

keepaliveMethods ==
  [ startKeepalive |-> Sends("START_KEEPALIVE", Struct("KeepaliveRequest"), <<"struct">>),
    stopKeepalive |-> Int("STOP_KEEPALIVE", 1),
    sendRequestRaw |-> Bytes("OEM_HOOK_RAW"),
    sendRequestStrings |-> StrsOrNull("OEM_HOOK_STRINGS", 1) ]

-----------------------------------------------------------------------------
(* IExtRadio.                                                              *)

videoPhoneMethods ==
  [ videoPhoneDial |->
        Sends("VIDEOPHONE_DIAL", Struct("VideoPhoneDial"),
              <<"struct", "address", "sub_address">>),
    videoPhoneCodec |-> Sends("VIDEOPHONE_CODEC", Struct("VideoPhoneCodec"), <<"struct">>),
    videoPhoneFallback |-> Void("VIDEOPHONE_FALLBACK"),
    videoPhoneString |-> Str("VIDEOPHONE_STRING"),
    videoPhoneLocalMedia |-> Int("VIDEOPHONE_LOCAL_MEDIA", 3),
    videoPhoneControlIFrame |-> Int("VIDEOPHONE_CONTROL_IFRAME", 2),
    switchMultiCall |-> Int("SWITCH_MULTI_CALL", 1) ]

dataExtMethods ==
  [ setTrafficClass |-> Int("TRAFFIC_CLASS", 1),
    enableLTE |-> Int("ENABLE_LTE", 1),
    attachData |-> Int("ATTACH_DATA", 1),
    stopQueryNetwork |-> Void("STOP_QUERY_NETWORK"),
    forceDeatch |-> Void("FORCE_DETACH"),
    getHDVoiceState |-> Void("GET_HD_VOICE_STATE"),
    simmgrSimPower |-> Int("SIMMGR_SIM_POWER", 1),
    enableRauNotify |-> Void("ENABLE_RAU_NOTIFY"),
    setCOLP |-> Int("SET_COLP", 1),
    getDefaultNAN |-> Void("GET_DEFAULT_NAN"),
    simGetAtr |-> Void("SIM_GET_ATR"),
    explicitCallTransferExt |-> Void("EXT_EXPLICIT_CALL_TRANSFER"),
    getSimCapacity |-> Void("GET_SIM_CAPACITY"),
    storeSmsToSim |-> Int("STORE_SMS_TO_SIM", 1),
    querySmsStorageMode |-> Void("QUERY_SMS_STORAGE_MODE"),
    getSimlockRemaintimes |-> Int("GET_SIMLOCK_REMAIN_TIMES", 1),
    setFacilityLockForUser |-> Strs("SET_FACILITY_LOCK_FOR_USER", 2) ]

simExtMethods ==
  [ getSimlockStatus |-> Int("GET_SIMLOCK_STATUS", 1),
    getSimlockDummys |-> Void("GET_SIMLOCK_DUMMYS"),
    getSimlockWhitelist |-> Int("GET_SIMLOCK_WHITE_LIST", 1),
    updateEcclist |-> Str("UPDATE_ECCLIST"),
    getBandInfo |-> Void("GET_BAND_INFO"),
    setBandInfoMode |-> Int("SET_BAND_INFO_MODE", 1),
    setSinglePDN |-> Int("SET_SINGLE_PDN", 1),
    setSpecialRatcap |-> Int("SET_SPECIAL_RATCAP", 1),
    queryColp |-> Void("QUERY_COLP"),
    queryColr |-> Void("QUERY_COLR"),
    mmiEnterSim |-> Str("MMI_ENTER_SIM"),
    updateOperatorName |-> Str("UPDATE_OPERATOR_NAME"),
    simmgrGetSimStatus |-> Void("SIMMGR_GET_SIM_STATUS"),
    setXcapIPAddress |-> Strs("SET_XCAP_IP_ADDR", 3) ]

cardExtMethods ==
  [ sendCmdAsync |-> Str("SEND_CMD"),
    getIccCardStatusExt |-> Void("EXT_GET_SIM_STATUS"),
    reAttach |-> Void("REATTACH"),
    setPreferredNetworkTypeExt |-> Int("EXT_SET_PREFERRED_NETWORK_TYPE", 1),
    requestShutdownExt |-> Void("EXT_SHUTDOWN"),
    setSmsBearer |-> Int("SET_SMS_BEARER", 1),
    setVoiceDomain |-> Int("SET_VOICE_DOMAIN", 1),
    updateCLIP |-> Int("UPDATE_CLIP", 1),
    setTPMRState |-> Int("SET_TPMR_STATE", 1),
    getTPMRState |-> Void("GET_TPMR_STATE"),
    setVideoResolution |-> Int("SET_VIDEO_RESOLUTION", 1),
    enableLocalHold |-> Int("ENABLE_LOCAL_HOLD", 1),
    enableWiFiParamReport |-> Int("ENABLE_WIFI_PARAM_REPORT", 1),
    callMediaChangeRequestTimeOut |-> Int("CALL_MEDIA_CHANGE_REQUEST_TIMEOUT", 1),
    setDualVolteState |-> Int("SET_DUAL_VOLTE_STATE", 1),
    setLocalTone |-> Int("SET_LOCAL_TONE", 1),
    queryPlmn |-> Int("QUERY_PLMN", 1) ]

modemExtMethods ==
  [ updatePlmnPriority |-> Int("UPDATE_PLMN", 6),
    setSimPowerReal |-> Int("SIM_POWER_REAL", 1),
    getRadioPreference |-> Str("GET_RADIO_PREFERENCE"),
    setRadioPreference |-> Strs("SET_RADIO_PREFERENCE", 2),
    getPreferredNetworkTypeExt |-> Void("EXT_GET_PREFERRED_NETWORK_TYPE"),
    setRadioPowerFallback |-> Int("RADIO_POWER_FALLBACK", 1),
    getCnap |-> Void("GET_CNAP"),
    setLocationInfo |-> Strs("SET_LOCATION_INFO", 2),
    getSpecialRatcap |-> Void("GET_SPECIAL_RATCAP"),
    getVideoResolution |-> Void("GET_VIDEO_RESOLUTION"),
    setEmergencyOnly |-> Int("SET_EMERGENCY_ONLY", 1),
    getSubsidyLockdyStatus |-> Void("GET_SUBSIDYLOCK_STATUS"),
    getICCID |-> Void("GET_ICCID") ]

-----------------------------------------------------------------------------
(* IExtRadio: IMS.  The last method is the one of IAtcRadio.               *)

imsCallMethods ==
  [ getIMSCurrentCalls |-> Void("GET_IMS_CURRENT_CALLS"),
    setIMSVoiceCallAvailability |-> Int("SET_IMS_VOICE_CALL_AVAILABILITY", 1),
    getIMSVoiceCallAvailability |-> Void("GET_IMS_VOICE_CALL_AVAILABILITY"),
    initISIM |-> StrsOrNull("INIT_ISIM", 7),
    requestVolteCallMediaChange |-> Int("IMS_CALL_REQUEST_MEDIA_CHANGE", 2),
    responseVolteCallMediaChange |-> Int("IMS_CALL_RESPONSE_MEDIA_CHANGE", 3),
    setIMSSmscAddress |-> Str("SET_IMS_SMSC"),
    volteCallFallBackToVoice |-> Int("IMS_CALL_FALL_BACK_TO_VOICE", 1) ]

imsApnMethods ==
  [ setIMSInitialAttachApn |->
        Sends("SET_IMS_INITIAL_ATTACH_APN", Struct("InitialAttachApn"),
              <<"struct", "apn", "protocol", "username", "password">>),
    queryCallForwardStatus |->
        Sends("QUERY_CALL_FORWARD_STATUS_URI", Struct("CallForwardInfoUri"),
              <<"struct", "number", "ruleset">>),
    setCallForwardUri |->
        Sends("SET_CALL_FORWARD_URI", Struct("CallForwardInfoUri"),
              <<"struct", "number", "ruleset">>) ]

imsStateMethods ==
  [ IMSInitialGroupCall |-> Str("IMS_INITIAL_GROUP_CALL"),
    IMSAddGroupCall |-> Str("IMS_ADD_TO_GROUP_CALL"),
    enableIMS |-> Void("ENABLE_IMS"),
    disableIMS |-> Void("DISABLE_IMS"),
    getIMSBearerState |-> Void("GET_IMS_BEARER_STATE"),
    setInitialAttachSOSApn |->
        Sends("SET_SOS_INITIAL_ATTACH_APN", Struct("InitialAttachApn"),
              <<"struct", "apn", "protocol", "username", "password">>),
    IMSHandover |-> Int("IMS_HANDOVER", 1),
    notifyIMSHandoverStatusUpdate |-> Int("IMS_HANDOVER_STATUS_UPDATE", 1),
    notifyIMSNetworkInfoChanged |->
        Sends("IMS_NETWORK_INFO_CHANGE", Struct("IMS_NetworkInfo"),
              <<"struct", "info">>) ]

imsHandoverMethods ==
  [ notifyIMSCallEnd |-> Int("IMS_HANDOVER_CALL_END", 1),
    notifyVoWifiEnable |-> Int("IMS_WIFI_ENABLE", 1),
    notifyVoWifiCallStateChanged |-> Int("IMS_WIFI_CALL_STATE_CHANGE", 1),
    notifyDataRouterUpdate |-> Void("IMS_UPDATE_DATA_ROUTER"),
    IMSHoldSingleCall |-> Int("IMS_HOLD_SINGLE_CALL", 2),
    IMSMuteSingleCall |-> Int("IMS_MUTE_SINGLE_CALL", 2),
    IMSSilenceSingleCall |-> Int("IMS_SILENCE_SINGLE_CALL", 2),
    IMSEnableLocalConference |-> Int("IMS_ENABLE_LOCAL_CONFERENCE", 1),
    notifyHandoverCallInfo |-> Str("IMS_NOTIFY_HANDOVER_CALL_INFO"),
    getSrvccCapbility |-> Void("GET_IMS_SRVCC_CAPBILITY"),
    getIMSPcscfAddress |-> Void("GET_IMS_PCSCF_ADDR"),
    setIMSPcscfAddress |-> Str("SET_IMS_PCSCF_ADDR"),
    getFacilityLockForAppExt |-> Strs("EXT_QUERY_FACILITY_LOCK", 4),
    getImsRegAddress |-> Void("IMS_REGADDR"),
    getImsPaniInfo |-> Void("GET_IMS_PANI_INFO"),
    vsimSendCmd |-> Str("VSIM_SEND_CMD") ]

-----------------------------------------------------------------------------
methods ==
  simMethods @@ callMethods @@ stateMethods @@ dataMethods @@ serviceMethods @@
  networkMethods @@ settingMethods @@ smsStkMethods @@ modeMethods @@ cdmaMethods @@
  broadcastMethods @@ reportMethods @@ apnMethods @@ apduMethods @@ nvMethods @@
  authMethods @@ profileMethods @@ capabilityMethods @@ powerMethods @@
  keepaliveMethods @@ videoPhoneMethods @@ dataExtMethods @@ simExtMethods @@
  cardExtMethods @@ modemExtMethods @@ imsCallMethods @@ imsApnMethods @@
  imsStateMethods @@ imsHandoverMethods

\* methods whose number is a bool: BOOL_TO_INT makes it 0 or 1
sendABool == {"setSimCardPower", "setSimPowerReal"}

\* what a method refuses by itself, once the request is listed: arguments out
\* of range, and what a library of version 12 does not know
refusedByMethod ==
  [ startNetworkScan |-> Refusal("START_NETWORK_SCAN", "INVALID_ARGUMENTS"),
    sendImsSms |-> Refusal("IMS_SEND_SMS", "INVALID_ARGUMENTS"),
    sendDeviceState |-> Refusal("SEND_DEVICE_STATE", "REQUEST_NOT_SUPPORTED"),
    setIndicationFilter |-> Refusal("SET_UNSOLICITED_RESPONSE_FILTER", "REQUEST_NOT_SUPPORTED"),
    startKeepalive |-> Refusal("START_KEEPALIVE", "INVALID_ARGUMENTS") ]

===============================================================================
