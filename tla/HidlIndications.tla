---------------------------- MODULE HidlIndications -----------------------------
(***************************************************************************)
(* ril_service.cpp, the functions that carry an unsolicited response to    *)
(* the client: which payload each of them takes.  With another payload     *)
(* they log an error and the indication is lost.                           *)
(***************************************************************************)
EXTENDS HandlerPaths

AnyLength == 1..15

\* the payload is not looked at
Nothing == {None}

Exactly(payload) == {payload}

AnInt == {Ints(1)}

SomeInts == {Ints(n) : n \in AnyLength}

AString == {Text}

\* convertHexStringToBytes: pairs of hexadecimal digits
HexPdu == {Text}

Bytes == {Raw}

SomeStrings == {Texts(n) : n \in AnyLength}

ListOrNone(name) == {None, List(name)}

-----------------------------------------------------------------------------
(* IRadioIndication and IOemHookIndication.                                *)

smsIndications ==
  [ radioStateChangedInd |-> Nothing, callStateChangedInd |-> Nothing,
    networkStateChangedInd |-> Nothing, newSmsInd |-> HexPdu ]

ussdIndications ==
  [ newSmsStatusReportInd |-> HexPdu, newSmsOnSimInd |-> AnInt,
    onUssdInd |-> Exactly(Texts(2)), nitzTimeReceivedInd |-> AString ]

signalIndications ==
  [ currentSignalStrengthInd |-> Exactly(Struct("SignalStrength")),
    dataCallListChangedInd |-> ListOrNone("DataCall"),
    suppSvcNotifyInd |-> Exactly(Struct("SuppSvcNotification")), stkSessionEndInd |-> Nothing,
    stkProactiveCommandInd |-> AString ]

stkIndications ==
  [ stkEventNotifyInd |-> AString, stkCallSetupInd |-> AnInt,
    simSmsStorageFullInd |-> Nothing, simRefreshInd |-> Exactly(Struct("SimRefresh")),
    callRingInd |-> {None, Struct("CDMA_SignalInfoRecord")}, simStatusChangedInd |-> Nothing ]

cdmaSmsIndications ==
  [ cdmaNewSmsInd |-> Exactly(Struct("CDMA_SMS_Message")), newBroadcastSmsInd |-> Bytes,
    cdmaRuimSmsStorageFullInd |-> Nothing, restrictedStateChangedInd |-> AnInt,
    enterEmergencyCallbackModeInd |-> Nothing ]

cdmaIndications ==
  [ cdmaCallWaitingInd |-> Exactly(Struct("CDMA_CallWaiting")),
    cdmaOtaProvisionStatusInd |-> AnInt ]

cdmaInfoIndications ==
  [ cdmaInfoRecInd |-> Exactly(Struct("CDMA_InformationRecords")) ]

modeIndications ==
  [ indicateRingbackToneInd |-> AnInt, resendIncallMuteInd |-> Nothing,
    cdmaSubscriptionSourceChangedInd |-> AnInt, cdmaPrlChangedInd |-> AnInt,
    exitEmergencyCallbackModeInd |-> Nothing, rilConnectedInd |-> Nothing,
    voiceRadioTechChangedInd |-> AnInt ]

cellIndications ==
  [ cellInfoListInd |-> ListOrNone("CellInfo"), imsNetworkStateChangedInd |-> Nothing,
    subscriptionStatusChangedInd |-> AnInt, srvccStateNotifyInd |-> AnInt,
    hardwareConfigChangedInd |-> ListOrNone("HardwareConfig") ]

capabilityIndications ==
  [ radioCapabilityIndicationInd |-> Exactly(Struct("RadioCapability")),
    onSupplementaryServiceIndicationInd |-> Exactly(Struct("StkCcUnsolSsResponse")),
    stkCallControlAlphaNotifyInd |-> AString ]

dataIndications ==
  [ lceDataInd |-> Exactly(Struct("LceData")), pcoDataInd |-> Exactly(Struct("PcoData")),
    modemResetInd |-> AString, networkScanResultInd |-> Exactly(Struct("NetworkScanResult")),
    carrierInfoForImsiEncryption |-> Bytes ]

hookIndications ==
  [ oemHookRawInd |-> Bytes ]

-----------------------------------------------------------------------------
(* IExtRadioIndication and IAtcRadioIndication.                            *)

videoPhoneIndications ==
  [ videoPhoneCodecInd |-> SomeInts, videoPhoneDSCIInd |-> Exactly(Struct("VideoPhoneDSCI")),
    videoPhoneStringInd |-> AString, videoPhoneRemoteMediaInd |-> SomeInts,
    videoPhoneMMRingInd |-> AnInt ]

videoStateIndications ==
  [ videoPhoneReleasingInd |-> AString, videoPhoneRecordVideoInd |-> AnInt,
    videoPhoneMediaStartInd |-> AnInt, eccNetworkListChangedInd |-> AString,
    rauSuccessInd |-> Nothing, clearCodeFallbackInd |-> Nothing,
    extRILConnectedInd |-> Nothing ]

cardExtIndications ==
  [ simlockStatusChangedInd |-> Nothing, simlockSimExpiredInd |-> AnInt,
    bandInfoInd |-> AString, switchPrimaryCardInd |-> AnInt, networkErrorCodeInd |-> SomeInts,
    simMgrSimStatusChangedInd |-> Nothing, radioCapabilityChangedInd |-> Nothing ]

mediaIndications ==
  [ earlyMediaInd |-> AnInt, availableNetworksInd |-> SomeStrings,
    subsidyLockStatusChangedInd |-> AnInt, vsimRSimReqInd |-> AString ]

imsCallIndications ==
  [ IMSCallStateChangedInd |-> Nothing, videoQualityInd |-> SomeInts,
    IMSBearerEstablished |-> AnInt, IMSHandoverRequestInd |-> AnInt,
    IMSHandoverStatusChangedInd |-> AnInt,
    IMSNetworkInfoChangedInd |-> Exactly(Struct("IMS_NetworkInfo")) ]

imsStateIndications ==
  [ IMSRegisterAddressChangedInd |-> SomeStrings, IMSWifiParamInd |-> SomeInts,
    IMSNetworkStateChangedInd |-> AnInt, DsdaStatusInd |-> AnInt, updateHdStateInd |-> AnInt,
    IMSCsfbVendorCauseInd |-> AString ]

-----------------------------------------------------------------------------
indicationFunctions ==
  smsIndications @@ ussdIndications @@ signalIndications @@ stkIndications @@
  cdmaSmsIndications @@ cdmaIndications @@ cdmaInfoIndications @@ modeIndications @@
  cellIndications @@ capabilityIndications @@ dataIndications @@ hookIndications @@
  videoPhoneIndications @@ videoStateIndications @@ cardExtIndications @@
  mediaIndications @@ imsCallIndications @@ imsStateIndications

-----------------------------------------------------------------------------
(* ril_unsol_commands.h and its OEM and ATC counterparts.                  *)

unsolCommands ==
  [ RESPONSE_RADIO_STATE_CHANGED |-> "radioStateChangedInd",
    RESPONSE_CALL_STATE_CHANGED |-> "callStateChangedInd",
    RESPONSE_VOICE_NETWORK_STATE_CHANGED |-> "networkStateChangedInd",
    RESPONSE_NEW_SMS |-> "newSmsInd",
    RESPONSE_NEW_SMS_STATUS_REPORT |-> "newSmsStatusReportInd",
    RESPONSE_NEW_SMS_ON_SIM |-> "newSmsOnSimInd", ON_USSD |-> "onUssdInd",
    ON_USSD_REQUEST |-> "onUssdInd", NITZ_TIME_RECEIVED |-> "nitzTimeReceivedInd",
    SIGNAL_STRENGTH |-> "currentSignalStrengthInd",
    DATA_CALL_LIST_CHANGED |-> "dataCallListChangedInd",
    SUPP_SVC_NOTIFICATION |-> "suppSvcNotifyInd", STK_SESSION_END |-> "stkSessionEndInd",
    STK_PROACTIVE_COMMAND |-> "stkProactiveCommandInd",
    STK_EVENT_NOTIFY |-> "stkEventNotifyInd", STK_CALL_SETUP |-> "stkCallSetupInd",
    SIM_SMS_STORAGE_FULL |-> "simSmsStorageFullInd", SIM_REFRESH |-> "simRefreshInd",
    CALL_RING |-> "callRingInd", RESPONSE_SIM_STATUS_CHANGED |-> "simStatusChangedInd",
    RESPONSE_CDMA_NEW_SMS |-> "cdmaNewSmsInd",
    RESPONSE_NEW_BROADCAST_SMS |-> "newBroadcastSmsInd",
    CDMA_RUIM_SMS_STORAGE_FULL |-> "cdmaRuimSmsStorageFullInd",
    RESTRICTED_STATE_CHANGED |-> "restrictedStateChangedInd",
    ENTER_EMERGENCY_CALLBACK_MODE |-> "enterEmergencyCallbackModeInd",
    CDMA_CALL_WAITING |-> "cdmaCallWaitingInd",
    CDMA_OTA_PROVISION_STATUS |-> "cdmaOtaProvisionStatusInd",
    CDMA_INFO_REC |-> "cdmaInfoRecInd", OEM_HOOK_RAW |-> "oemHookRawInd",
    RINGBACK_TONE |-> "indicateRingbackToneInd", RESEND_INCALL_MUTE |-> "resendIncallMuteInd",
    CDMA_SUBSCRIPTION_SOURCE_CHANGED |-> "cdmaSubscriptionSourceChangedInd",
    CDMA_PRL_CHANGED |-> "cdmaPrlChangedInd",
    EXIT_EMERGENCY_CALLBACK_MODE |-> "exitEmergencyCallbackModeInd",
    RIL_CONNECTED |-> "rilConnectedInd",
    VOICE_RADIO_TECH_CHANGED |-> "voiceRadioTechChangedInd",
    CELL_INFO_LIST |-> "cellInfoListInd",
    RESPONSE_IMS_NETWORK_STATE_CHANGED |-> "imsNetworkStateChangedInd",
    UICC_SUBSCRIPTION_STATUS_CHANGED |-> "subscriptionStatusChangedInd",
    SRVCC_STATE_NOTIFY |-> "srvccStateNotifyInd",
    HARDWARE_CONFIG_CHANGED |-> "hardwareConfigChangedInd", DC_RT_INFO_CHANGED |-> "none",
    RADIO_CAPABILITY |-> "radioCapabilityIndicationInd",
    ON_SS |-> "onSupplementaryServiceIndicationInd",
    STK_CC_ALPHA_NOTIFY |-> "stkCallControlAlphaNotifyInd", LCEDATA_RECV |-> "lceDataInd",
    PCO_DATA |-> "pcoDataInd", MODEM_RESTART |-> "modemResetInd",
    CARRIER_INFO_IMSI_ENCRYPTION |-> "carrierInfoForImsiEncryption",
    NETWORK_SCAN_RESULT |-> "networkScanResultInd" ]

oemUnsolCommands ==
  [ VIDEOPHONE_CODEC |-> "videoPhoneCodecInd", VIDEOPHONE_DSCI |-> "videoPhoneDSCIInd",
    VIDEOPHONE_STRING |-> "videoPhoneStringInd",
    VIDEOPHONE_REMOTE_MEDIA |-> "videoPhoneRemoteMediaInd",
    VIDEOPHONE_MM_RING |-> "videoPhoneMMRingInd",
    VIDEOPHONE_RELEASING |-> "videoPhoneReleasingInd",
    VIDEOPHONE_RECORD_VIDEO |-> "videoPhoneRecordVideoInd",
    VIDEOPHONE_MEDIA_START |-> "videoPhoneMediaStartInd",
    ECC_NETWORKLIST_CHANGED |-> "eccNetworkListChangedInd", RAU_SUCCESS |-> "rauSuccessInd",
    CLEAR_CODE_FALLBACK |-> "clearCodeFallbackInd",
    EXT_RIL_CONNECTED |-> "extRILConnectedInd",
    SIMLOCK_STATUS_CHANGED |-> "simlockStatusChangedInd",
    SIMLOCK_SIM_EXPIRED |-> "simlockSimExpiredInd", BAND_INFO |-> "bandInfoInd",
    SWITCH_PRIMARY_CARD |-> "switchPrimaryCardInd", SIM_PS_REJECT |-> "networkErrorCodeInd",
    SIMMGR_SIM_STATUS_CHANGED |-> "simMgrSimStatusChangedInd",
    EXT_RADIO_CAPABILITY_CHANGED |-> "radioCapabilityChangedInd",
    EARLY_MEDIA |-> "earlyMediaInd", SPUCOPS_LIST |-> "availableNetworksInd",
    RESPONSE_IMS_CALL_STATE_CHANGED |-> "IMSCallStateChangedInd",
    RESPONSE_VIDEO_QUALITY |-> "videoQualityInd",
    RESPONSE_IMS_BEARER_ESTABLISTED |-> "IMSBearerEstablished",
    IMS_HANDOVER_REQUEST |-> "IMSHandoverRequestInd",
    IMS_HANDOVER_STATUS_CHANGE |-> "IMSHandoverStatusChangedInd",
    IMS_NETWORK_INFO_CHANGE |-> "IMSNetworkInfoChangedInd",
    IMS_REGISTER_ADDRESS_CHANGE |-> "IMSRegisterAddressChangedInd",
    IMS_WIFI_PARAM |-> "IMSWifiParamInd",
    IMS_NETWORK_STATE_CHANGED |-> "IMSNetworkStateChangedInd", DSDASTATUS |-> "DsdaStatusInd",
    UPDATE_HD_VOICE_STATE |-> "updateHdStateInd",
    IMS_CSFB_VENDOR_CAUSE |-> "IMSCsfbVendorCauseInd",
    SUBSIDYLOCK_STATUS_CHANGED |-> "subsidyLockStatusChangedInd" ]

atcUnsolCommands ==
  [ VSIM_RSIM_REQ |-> "vsimRSimReqInd" ]

indicationOf == unsolCommands @@ oemUnsolCommands @@ atcUnsolCommands

=============================================================================
