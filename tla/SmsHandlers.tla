------------------------------- MODULE SmsHandlers -------------------------------
(***************************************************************************)
(* ril_sms.c: sending, storing and acknowledging messages, cell broadcast. *)
(***************************************************************************)
EXTENDS HandlerPaths

SimAbsent == Fail("SIM_ABSENT")

\* at_send_command_sms and its reference number; the error number of +CMS ERROR decides
SendPdu(errs) ==
  ( Generic
  | Ok & ReadLine & (Success(Struct("SmsResponse")) | Generic)
  | Refused & ReadFinal & Fails(errs \cup {"GENERIC_FAILURE"})
  | (NoAnswer | NoLine) & Generic ) & Free

requestSendSMS ==
  Takes(Texts(2)) &
  (SimAbsent | Reads("strings") & SendPdu({"SMS_SEND_FAIL_RETRY", "FDN_CHECK_FAILURE"}))

requestSendIMSSMS ==
  Takes(Struct("ImsSms")) &
  (Reads("pdu") & SendPdu({"SMS_SEND_FAIL_RETRY", "FDN_CHECK_FAILURE"}) | Generic)

requestSMSAcknowledge == Fail("INVALID_STATE") | Takes(Ints(2)) & (Success(None) | Generic)

requestWriteSmsToSim ==
  Takes(Struct("SmsWriteArgs")) &
  ( SimAbsent
  | Reads("pdu") &
    ( Generic
    | Ok & ReadLine & (Success(Ints(1)) | ReadFinal & Generic)
    | Refused & ReadFinal & Generic
    | (NoAnswer | NoLine) & Generic ) & Free )

\* the +SPPWS settings that follow have neither response nor outcome
requestSetSmsBroadcastConfig ==
  Takes(List("GsmBroadcastSmsConfigInfo*")) &
  (Generic | (Ok & Success(None) | Failed & Generic) & FreeAndClear)

requestGetSmsBroadcastConfig ==
  ( Ok & ReadLine & ( Success(List("GsmBroadcastSmsConfigInfo*")) & Free
                    | Free & Generic )
  | LineFailed & Free & Generic )

requestSmsBroadcastActivation == SetInt

requestGetSmscAddress == SimAbsent | OneLine(Text)

requestGetSIMCapacity == OneLine(Texts(2))

\* the names of the two memories stay in the response while the command is put together
requestStoreSmsToSim ==
  Takes(Ints(1)) &
  ( LineFailed & Generic
  | Ok & ReadLine & ( Generic
                    | ReadLine & FreeAndClear & (Ok & Success(None) | LineFailed & Generic) ) ) & Free

requestQuerySmsStorageMode == OneLine(Text)

\* commands that need a card
WithCard(payload, A) == SimAbsent | Takes(payload) & A

DELETE_SMS_ON_SIM == WithCard(Ints(1), Plain(None))

SET_SMSC_ADDRESS == WithCard(Text, Generic | Plain(None)) | Generic

REPORT_SMS_MEMORY_STATUS == WithCard(Ints(1), Plain(None))

SET_IMS_SMSC == Takes(Text) & (Generic | Plain(None))

processSmsRequests ==
  [ SEND_SMS |-> requestSendSMS,
    SEND_SMS_EXPECT_MORE |-> requestSendSMS,
    IMS_SEND_SMS |-> requestSendIMSSMS,
    SMS_ACKNOWLEDGE |-> requestSMSAcknowledge,
    WRITE_SMS_TO_SIM |-> requestWriteSmsToSim,
    DELETE_SMS_ON_SIM |-> DELETE_SMS_ON_SIM,
    GSM_SMS_BROADCAST_ACTIVATION |-> requestSmsBroadcastActivation,
    GSM_SET_BROADCAST_SMS_CONFIG |-> requestSetSmsBroadcastConfig,
    GSM_GET_BROADCAST_SMS_CONFIG |-> requestGetSmsBroadcastConfig,
    GET_SMSC_ADDRESS |-> requestGetSmscAddress,
    SET_SMSC_ADDRESS |-> SET_SMSC_ADDRESS,
    REPORT_SMS_MEMORY_STATUS |-> REPORT_SMS_MEMORY_STATUS,
    SET_IMS_SMSC |-> SET_IMS_SMSC,
    GET_SIM_CAPACITY |-> requestGetSIMCapacity,
    STORE_SMS_TO_SIM |-> requestStoreSmsToSim,
    QUERY_SMS_STORAGE_MODE |-> requestQuerySmsStorageMode,
    SET_SMS_BEARER |-> SetInt ]

\* +CMT, +CDS, +CMGR and +CBM come with their PDU; +SPLWRN brings one page of a
\* warning, which is passed on with the last of them
processSmsUnsolicited ==
  [ CMT |-> Indicate("RESPONSE_NEW_SMS", Text),
    CDS |-> Indicate("RESPONSE_NEW_SMS_STATUS_REPORT", Text),
    CMGR |-> Skip | Indicate("RESPONSE_NEW_SMS", Text),
    CMTI |-> Skip | Indicate("RESPONSE_NEW_SMS_ON_SIM", Ints(1)),
    CBM |-> Skip | Indicate("RESPONSE_NEW_BROADCAST_SMS", Raw),
    SPLWRN |-> Skip | Indicate("RESPONSE_NEW_BROADCAST_SMS", Raw),
    SMOF |-> Skip | Indicate("SIM_SMS_STORAGE_FULL", None) ]

=============================================================================
