------------------------------- MODULE SsHandlers -------------------------------
(***************************************************************************)
(* ril_ss.c: supplementary services (USSD, call forwarding, call waiting,  *)
(* CLIR/CLIP/COLP, barring).                                               *)
(***************************************************************************)
EXTENDS HandlerPaths

FdnOrGeneric == Fails({"FDN_CHECK_FAILURE", "GENERIC_FAILURE"})

\* the card is absent, or asprintf fails while s_ussdRun is already set
requestSendUSSD ==
  Takes(Text) &
  ( Fail("INVALID_STATE")
  | Raise("ussdRun") & Reads("string") & Generic
  | Raise("ussdRun") & Reads("string") &
    ( Ok & ReadFinal & Success(None)
    | Refused & ReadFinal & Lower("ussdRun") & FdnOrGeneric
    | NoAnswer & Lower("ussdRun") & Generic ) & Free )

\* the CME code of a refused forwarding command
ForwardRefused(known) == Refused & ReadFinal & Fails(known \cup {"FDN_CHECK_FAILURE", "GENERIC_FAILURE"})

requestSetCallForward ==
  ( Takes(Struct("CallForwardInfo")) &
      (Ok & Success(None) | ForwardRefused({"INVALID_STATE"}) | NoAnswer & Generic)
  | Generic ) & Free

requestQueryCallForward ==
  ( Takes(Struct("CallForwardInfo")) &
      ( OkEmpty & ReadFinal & Success(None)
      | Ok & ReadLine & (Success(List("CallForwardInfo*")) | Success(None))
      | ForwardRefused({"INVALID_ARGUMENTS"})
      | NoAnswer & Generic )
  | Generic ) & Free

requestChangeFacilityLock ==
  Takes(Texts(3)) &
  ( Fail("INVALID_ARGUMENTS")
  | ( Generic
    | Ok & Success(Ints(1))
    | Refused & ReadFinal & Fails({"GENERIC_FAILURE", "FDN_CHECK_FAILURE", "PASSWORD_INCORRECT"})
    | NoAnswer & Generic ) & Free )

\* status 2: a list without valid entries is answered with no payload
QUERY_CALL_FORWARD_STATUS_URI ==
  ( Takes(Struct("CallForwardInfoUri")) &
      ( OkEmpty & Success(None)
      | Ok & ReadLine & (Success(List("CallForwardInfoUri*")) | Success(None))
      | ForwardRefused({})
      | NoAnswer & Generic )
  | Generic ) & Free

SET_CALL_FORWARD_URI ==
  ( Takes(Struct("CallForwardInfoUri")) & ((Ok | OkEmpty) & Success(None) | Failed & Generic)
  | Generic ) & Free

requestSetCallForwardU ==
  ( Takes(Struct("CallForwardInfo")) &
      (Ok & Success(None) | ForwardRefused({"INVALID_STATE"}) | NoAnswer & Generic)
  | Generic ) & Free

requestQueryCallForwardU ==
  ( Takes(Struct("CallForwardInfo")) &
      ( OkEmpty & ReadFinal & Success(None)
      | Ok & ReadLine & (Success(List("CallForwardInfo*")) | Success(None))
      | ForwardRefused({"INVALID_ARGUMENTS"})
      | NoAnswer & Generic )
  | Generic ) & Free

\* the response is freed before the answer, which is built from a local array
requestQueryCOLP ==
  Ok & ReadLine & Free & (Success(Ints(1)) | Generic) | LineFailed & Free & Generic

requestQueryCOLR ==
  Ok & ReadLine & Free & (Success(Ints(1)) | Generic) | LineFailed & Free & Generic

\* the return value of at_send_command is dropped, err stays 0
requestSetSuppServiceNotifications ==
  Takes(Ints(1)) & (Ok & ReadFinal & Success(None) | Failed & ReadFinal & Generic) & Free

CANCEL_USSD == Fail("INVALID_STATE") | Plain(None)

GET_CLIR ==
  Fail("MODEM_ERR")
  | ( Ok & ReadLine & (Success(Ints(2)) | Generic)
    | Refused & ReadFinal & FdnOrGeneric
    | (NoAnswer | NoLine) & Generic ) & Free

SET_CLIR == Takes(Ints(1)) & Plain(None)

\* with VoLTE the forwarding requests go to the +CCFCU handlers
QUERY_CALL_FORWARD_STATUS == requestQueryCallForward | requestQueryCallForwardU

SET_CALL_FORWARD == requestSetCallForward | requestSetCallForwardU

QUERY_CALL_WAITING ==
  Takes(Ints(1)) &
  ( (OkEmpty | Ok & ReadLine) & Success(Ints(2))
  | ForwardRefused({"INVALID_ARGUMENTS"})
  | NoAnswer & Generic ) & Free

SET_CALL_WAITING ==
  Takes(Ints(2)) &
  (Ok & Success(None) | ForwardRefused({"INVALID_STATE"}) | NoAnswer & Generic) & Free

QUERY_CLIP == Fail("MODEM_ERR") | OneLine(Ints(1))

\* the outcome of AT+COLP is not looked at
SET_COLP == Takes(Ints(1)) & Success(None)

MMI_ENTER_SIM ==
  Takes(Text) &
  ( Generic
  | ( Ok & Success(None)
    | Refused & ReadFinal & Fails({"PASSWORD_INCORRECT", "GENERIC_FAILURE"})
    | NoAnswer & Generic ) & Free )

UPDATE_CLIP == Takes(Ints(1)) & Plain(None)

GET_CNAP == OneLine(Ints(2))

processSSRequests ==
  [ SEND_USSD |-> requestSendUSSD,
    CANCEL_USSD |-> CANCEL_USSD,
    GET_CLIR |-> GET_CLIR,
    SET_CLIR |-> SET_CLIR,
    QUERY_CALL_FORWARD_STATUS |-> QUERY_CALL_FORWARD_STATUS,
    SET_CALL_FORWARD |-> SET_CALL_FORWARD,
    QUERY_CALL_WAITING |-> QUERY_CALL_WAITING,
    SET_CALL_WAITING |-> SET_CALL_WAITING,
    CHANGE_BARRING_PASSWORD |-> requestChangeFacilityLock,
    QUERY_CLIP |-> QUERY_CLIP,
    SET_SUPP_SVC_NOTIFICATION |-> requestSetSuppServiceNotifications,
    QUERY_CALL_FORWARD_STATUS_URI |-> QUERY_CALL_FORWARD_STATUS_URI,
    SET_CALL_FORWARD_URI |-> SET_CALL_FORWARD_URI,
    SET_COLP |-> SET_COLP,
    QUERY_COLP |-> requestQueryCOLP,
    QUERY_COLR |-> requestQueryCOLR,
    MMI_ENTER_SIM |-> MMI_ENTER_SIM,
    UPDATE_CLIP |-> UPDATE_CLIP,
    GET_CNAP |-> GET_CNAP ]

-----------------------------------------------------------------------------
(* +CUSD, +CSSI, +CSSU and +SPDSDASTATUS lines.                            *)

processSSUnsolicited ==
  [ CUSD |-> Lower("ussdRun") & (Skip | Indicate("ON_USSD", Texts(2))),
    CSSI |-> Skip | Indicate("SUPP_SVC_NOTIFICATION", Struct("SuppSvcNotification")),
    CSSU |-> Skip | Indicate("SUPP_SVC_NOTIFICATION", Struct("SuppSvcNotification")),
    SPDSDASTATUS |-> Skip | Indicate("DSDASTATUS", Ints(1)) ]

=============================================================================
