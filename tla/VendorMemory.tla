------------------------------ MODULE VendorMemory ------------------------------
(***************************************************************************)
(* ril_mmgr.c and its tables: when a request thread is done with a request *)
(* it frees the data that the HIDL method allocated, with the function     *)
(* that the table gives for the request.  The blocks have the names that   *)
(* HidlRequests gives them.                                                *)
(***************************************************************************)
EXTENDS Naturals, FiniteSets, TLC

\* what each function frees
basicFrees ==
  [ freeVoid |-> {},
    freeInts |-> {"array"},
    freeString |-> {"string"},
    freeStrings |-> {"array", "strings"},
    freeRaw |-> {"data"} ]

callAndSmsFrees ==
  [ freeDial |-> {"dial", "address", "uusInfo", "uusData"},
    freeSIM_IO |-> {"struct", "path", "data", "pin2", "aid"},
    freeCallForwardStatus |-> {"struct", "number"},
    freeWriteSmsToSim |-> {"struct", "pdu", "smsc"},
    freeSendCdmaSms |-> {"struct"},
    freeAcknowledgeLastIncomingCdmaSms |-> {"struct"} ]

broadcastAndAttachFrees ==
  [ freeSetGsmBroadcastConfig |-> {"array", "elements"},
    freeSetCdmaBroadcastConfig |-> {"array", "elements"},
    freeWriteSmsToRuim |-> {"struct"},
    freeSetInitialAttachApn |-> {"struct", "apn", "protocol", "username", "password"} ]

cardFrees ==
  [ freeSendImsSms |-> {"struct"},
    freeIccApdu |-> {"struct", "data"},
    freeIccOpenLogicalChannel |-> {"struct", "aid"},
    freeNvReadItem |-> {"struct"},
    freeNvWriteItem |-> {"struct", "value"},
    freeSetUiccSubscription |-> {"struct"},
    freeIccSimAuthentication |-> {"struct", "authData", "aid"},
    freeSetDataProfileData |-> {"array", "profiles", "strings"} ]

structFrees ==
  [ freeSetRadioCapability |-> {"struct"},
    freeSetAllowedCarriers |-> {"struct", "allowed", "excluded"},
    freeVideoPhoneDial |-> {"struct", "address", "sub_address"},
    freeVideoPhoneCodec |-> {"struct"},
    freeCallForwardUri |-> {"struct", "number", "ruleset"},
    freeNotifyIMSNetworkInfoChanged |-> {"struct", "info"},
    freeSetCarrierImsiEncryption |-> {"struct", "mnc", "mcc", "keyId", "carrierKey"},
    freeStartNetworkScan |-> {"struct"},
    freeStartKeepAlive |-> {"struct"} ]

freeFunctions ==
  basicFrees @@ callAndSmsFrees @@ broadcastAndAttachFrees @@ cardFrees @@ structFrees

\* the requests of every function
s_memoryManager ==
  [ freeVoid |->
      {"GET_SIM_STATUS", "GET_CURRENT_CALLS", "HANGUP_WAITING_OR_BACKGROUND",
       "HANGUP_FOREGROUND_RESUME_BACKGROUND", "SWITCH_WAITING_OR_HOLDING_AND_ACTIVE",
       "CONFERENCE", "UDUB", "LAST_CALL_FAIL_CAUSE", "SIGNAL_STRENGTH",
       "VOICE_REGISTRATION_STATE", "DATA_REGISTRATION_STATE", "OPERATOR", "CANCEL_USSD",
       "GET_CLIR", "ANSWER", "QUERY_NETWORK_SELECTION_MODE",
       "SET_NETWORK_SELECTION_AUTOMATIC", "QUERY_AVAILABLE_NETWORKS", "DTMF_STOP",
       "BASEBAND_VERSION", "GET_MUTE", "QUERY_CLIP", "DATA_CALL_LIST",
       "QUERY_AVAILABLE_BAND_MODE", "EXPLICIT_CALL_TRANSFER", "GET_PREFERRED_NETWORK_TYPE",
       "GET_NEIGHBORING_CELL_IDS", "CDMA_QUERY_ROAMING_PREFERENCE", "QUERY_TTY_MODE",
       "CDMA_QUERY_PREFERRED_VOICE_PRIVACY_MODE", "GSM_GET_BROADCAST_SMS_CONFIG",
       "CDMA_GET_BROADCAST_SMS_CONFIG", "CDMA_SUBSCRIPTION", "DEVICE_IDENTITY",
       "EXIT_EMERGENCY_CALLBACK_MODE", "GET_SMSC_ADDRESS", "REPORT_STK_SERVICE_IS_RUNNING",
       "CDMA_GET_SUBSCRIPTION_SOURCE", "VOICE_RADIO_TECH", "GET_CELL_INFO_LIST",
       "IMS_REGISTRATION_STATE", "GET_HARDWARE_CONFIG", "SHUTDOWN", "GET_RADIO_CAPABILITY",
       "STOP_LCE", "PULL_LCEDATA", "GET_ACTIVITY_INFO", "GET_CARRIER_RESTRICTIONS",
       "STOP_NETWORK_SCAN"},
    freeInts |->
      {"HANGUP", "RADIO_POWER", "SET_CLIR", "QUERY_CALL_WAITING", "SET_CALL_WAITING",
       "SMS_ACKNOWLEDGE", "SEPARATE_CONNECTION", "SET_MUTE", "SCREEN_STATE",
       "SET_SUPP_SVC_NOTIFICATION", "DELETE_SMS_ON_SIM", "SET_BAND_MODE",
       "STK_HANDLE_CALL_SETUP_REQUESTED_FROM_SIM", "SET_PREFERRED_NETWORK_TYPE",
       "SET_LOCATION_UPDATES", "CDMA_SET_SUBSCRIPTION_SOURCE", "CDMA_SET_ROAMING_PREFERENCE",
       "SET_TTY_MODE", "CDMA_SET_PREFERRED_VOICE_PRIVACY_MODE",
       "GSM_SMS_BROADCAST_ACTIVATION", "CDMA_SMS_BROADCAST_ACTIVATION",
       "CDMA_DELETE_SMS_ON_RUIM", "REPORT_SMS_MEMORY_STATUS", "SET_UNSOL_CELL_INFO_LIST_RATE",
       "SIM_CLOSE_CHANNEL", "NV_RESET_CONFIG", "ALLOW_DATA", "START_LCE", "SEND_DEVICE_STATE",
       "SET_UNSOLICITED_RESPONSE_FILTER", "SET_SIM_CARD_POWER", "STOP_KEEPALIVE"},
    freeString |->
      {"DTMF", "SEND_USSD", "SET_NETWORK_SELECTION_MANUAL", "DTMF_START",
       "STK_SEND_ENVELOPE_COMMAND", "STK_SEND_TERMINAL_RESPONSE", "CDMA_FLASH",
       "SET_SMSC_ADDRESS", "ISIM_AUTHENTICATION", "STK_SEND_ENVELOPE_WITH_STATUS"},
    freeStrings |->
      {"ENTER_SIM_PIN", "ENTER_SIM_PUK", "ENTER_SIM_PIN2", "ENTER_SIM_PUK2", "CHANGE_SIM_PIN",
       "CHANGE_SIM_PIN2", "ENTER_NETWORK_DEPERSONALIZATION", "GET_IMSI", "SEND_SMS",
       "SEND_SMS_EXPECT_MORE", "SETUP_DATA_CALL", "DEACTIVATE_DATA_CALL",
       "QUERY_FACILITY_LOCK", "SET_FACILITY_LOCK", "CHANGE_BARRING_PASSWORD",
       "OEM_HOOK_STRINGS", "CDMA_BURST_DTMF", "ACKNOWLEDGE_INCOMING_GSM_SMS_WITH_PDU"},
    freeRaw |->
      {"OEM_HOOK_RAW", "NV_WRITE_CDMA_PRL"},
    freeDial |->
      {"DIAL"},
    freeSIM_IO |->
      {"SIM_IO"},
    freeCallForwardStatus |->
      {"QUERY_CALL_FORWARD_STATUS", "SET_CALL_FORWARD"},
    freeWriteSmsToSim |->
      {"WRITE_SMS_TO_SIM"},
    freeSendCdmaSms |->
      {"CDMA_SEND_SMS"},
    freeAcknowledgeLastIncomingCdmaSms |->
      {"CDMA_SMS_ACKNOWLEDGE"},
    freeSetGsmBroadcastConfig |->
      {"GSM_SET_BROADCAST_SMS_CONFIG"},
    freeSetCdmaBroadcastConfig |->
      {"CDMA_SET_BROADCAST_SMS_CONFIG"},
    freeWriteSmsToRuim |->
      {"CDMA_WRITE_SMS_TO_RUIM"},
    freeSetInitialAttachApn |->
      {"SET_INITIAL_ATTACH_APN"},
    freeSendImsSms |->
      {"IMS_SEND_SMS"},
    freeIccApdu |->
      {"SIM_TRANSMIT_APDU_BASIC", "SIM_TRANSMIT_APDU_CHANNEL"},
    freeIccOpenLogicalChannel |->
      {"SIM_OPEN_CHANNEL"},
    freeNvReadItem |->
      {"NV_READ_ITEM"},
    freeNvWriteItem |->
      {"NV_WRITE_ITEM"},
    freeSetUiccSubscription |->
      {"SET_UICC_SUBSCRIPTION"},
    freeIccSimAuthentication |->
      {"SIM_AUTHENTICATION"},
    freeSetDataProfileData |->
      {"SET_DATA_PROFILE"},
    freeSetRadioCapability |->
      {"SET_RADIO_CAPABILITY"},
    freeSetAllowedCarriers |->
      {"SET_CARRIER_RESTRICTIONS"},
    freeSetCarrierImsiEncryption |->
      {"SET_CARRIER_INFO_IMSI_ENCRYPTION"},
    freeStartNetworkScan |->
      {"START_NETWORK_SCAN"},
    freeStartKeepAlive |->
      {"START_KEEPALIVE"} ]

\* the extensions of the vendor
s_oemMemoryManager ==
  [ freeVoid |->
      {"VIDEOPHONE_FALLBACK", "STOP_QUERY_NETWORK", "FORCE_DETACH", "GET_HD_VOICE_STATE",
       "ENABLE_RAU_NOTIFY", "GET_DEFAULT_NAN", "SIM_GET_ATR", "EXT_EXPLICIT_CALL_TRANSFER",
       "GET_SIM_CAPACITY", "QUERY_SMS_STORAGE_MODE", "GET_SIMLOCK_REMAIN_TIMES",
       "GET_SIMLOCK_DUMMYS", "GET_BAND_INFO", "QUERY_COLP", "QUERY_COLR",
       "SIMMGR_GET_SIM_STATUS", "EXT_GET_SIM_STATUS", "REATTACH", "EXT_SHUTDOWN",
       "GET_TPMR_STATE", "GET_IMS_CURRENT_CALLS", "GET_IMS_VOICE_CALL_AVAILABILITY",
       "ENABLE_IMS", "DISABLE_IMS", "GET_IMS_BEARER_STATE", "IMS_UPDATE_DATA_ROUTER",
       "GET_IMS_SRVCC_CAPBILITY", "GET_IMS_PCSCF_ADDR", "IMS_REGADDR",
       "EXT_GET_PREFERRED_NETWORK_TYPE", "GET_CNAP", "GET_SPECIAL_RATCAP",
       "GET_VIDEO_RESOLUTION", "GET_IMS_PANI_INFO", "GET_SUBSIDYLOCK_STATUS", "GET_ICCID"},
    freeInts |->
      {"VIDEOPHONE_LOCAL_MEDIA", "VIDEOPHONE_CONTROL_IFRAME", "SWITCH_MULTI_CALL",
       "TRAFFIC_CLASS", "ENABLE_LTE", "ATTACH_DATA", "SIMMGR_SIM_POWER", "SET_COLP",
       "STORE_SMS_TO_SIM", "GET_SIMLOCK_STATUS", "GET_SIMLOCK_WHITE_LIST",
       "SET_BAND_INFO_MODE", "SET_SINGLE_PDN", "SET_SPECIAL_RATCAP",
       "EXT_SET_PREFERRED_NETWORK_TYPE", "SET_SMS_BEARER", "SET_VOICE_DOMAIN", "UPDATE_CLIP",
       "SET_TPMR_STATE", "SET_VIDEO_RESOLUTION", "ENABLE_LOCAL_HOLD",
       "ENABLE_WIFI_PARAM_REPORT", "CALL_MEDIA_CHANGE_REQUEST_TIMEOUT",
       "SET_DUAL_VOLTE_STATE", "SET_LOCAL_TONE", "UPDATE_PLMN", "QUERY_PLMN",
       "SIM_POWER_REAL", "SET_IMS_VOICE_CALL_AVAILABILITY", "IMS_CALL_REQUEST_MEDIA_CHANGE",
       "IMS_CALL_RESPONSE_MEDIA_CHANGE", "IMS_CALL_FALL_BACK_TO_VOICE", "IMS_HANDOVER",
       "IMS_HANDOVER_STATUS_UPDATE", "IMS_HANDOVER_CALL_END", "IMS_WIFI_ENABLE",
       "IMS_WIFI_CALL_STATE_CHANGE", "IMS_HOLD_SINGLE_CALL", "IMS_MUTE_SINGLE_CALL",
       "IMS_SILENCE_SINGLE_CALL", "IMS_ENABLE_LOCAL_CONFERENCE", "RADIO_POWER_FALLBACK",
       "SET_EMERGENCY_ONLY"},
    freeString |->
      {"VIDEOPHONE_STRING", "UPDATE_ECCLIST", "MMI_ENTER_SIM", "UPDATE_OPERATOR_NAME",
       "SEND_CMD", "GET_RADIO_PREFERENCE", "SET_IMS_SMSC", "IMS_INITIAL_GROUP_CALL",
       "IMS_ADD_TO_GROUP_CALL", "IMS_NOTIFY_HANDOVER_CALL_INFO", "SET_IMS_PCSCF_ADDR"},
    freeStrings |->
      {"SET_FACILITY_LOCK_FOR_USER", "SET_XCAP_IP_ADDR", "SET_RADIO_PREFERENCE", "INIT_ISIM",
       "EXT_QUERY_FACILITY_LOCK", "SET_LOCATION_INFO"},
    freeSetInitialAttachApn |->
      {"SET_IMS_INITIAL_ATTACH_APN", "SET_SOS_INITIAL_ATTACH_APN"},
    freeVideoPhoneDial |->
      {"VIDEOPHONE_DIAL"},
    freeVideoPhoneCodec |->
      {"VIDEOPHONE_CODEC"},
    freeCallForwardUri |->
      {"QUERY_CALL_FORWARD_STATUS_URI", "SET_CALL_FORWARD_URI"},
    freeNotifyIMSNetworkInfoChanged |->
      {"IMS_NETWORK_INFO_CHANGE"} ]

\* the AT client of the virtual SIM
s_atcMemoryManager ==
  [ freeString |->
      {"VSIM_SEND_CMD"} ]

managers == {s_memoryManager, s_oemMemoryManager, s_atcMemoryManager}

\* what processRequest frees at its end; requests that no client can send have no function
Freed(request) ==
  UNION {freeFunctions[f] : f \in {g \in DOMAIN freeFunctions :
           \E m \in managers : g \in DOMAIN m /\ request \in m[g]}}

=============================================================================
