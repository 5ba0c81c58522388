------------------------------- MODULE DataHandlers -------------------------------
(***************************************************************************)
(* ril_data.c: setting up, listing and releasing data calls, attach and    *)
(* detach, the IMS bearers.  A setup may need several AT+CGDATA exchanges  *)
(* (retry, another cid, a second context for the other IP family); each of *)
(* them is a procedure here.  The table of PDP entries is in DataCalls.    *)
(***************************************************************************)
EXTENDS HandlerPaths

DataCall == Struct("DataCall")

\* cgdata_set_cmd_rsp and errorHandlingForCGDATA look at the final response of
\* AT+CGDATA when there is one
Activate == (Ok | Refused) & ReadFinal & Calls("cgdata_set_cmd_rsp") | NoAnswer

cgdata_set_cmd_rsp ==
  Skip | On("p_rdpResponse", (Ok & ReadLine | OkEmpty | Failed) & FreeAndClear)

queryAllActivePDNInfos == (Ok & ReadLine | OkEmpty | Failed) & Free

getSPACTFBcause == (Ok & ReadLine | LineFailed) & Free

getPco == queryAllActivePDNInfos

getDataProfile == Calls("queryAllActivePDNInfos") & (Skip | Calls("getPco"))

\* a secondary context on a primary one that is not dual stack is released again
activeSpeciedCidProcess ==
  Failed & Free
  | (Skip | Ok & FreeAndClear) & Activate & FreeAndClear & (Skip | AnyEnd & Free)

checkFallBack ==
  (Skip | Calls("getSPACTFBcause")) & (Skip | Calls("activeSpeciedCidProcess"))

doIPV4_IPV6_Fallback ==
  ( Failed
  | Ok & FreeAndClear & Activate & (Skip | Calls("activeSpeciedCidProcess")) ) & Free

reuseDefaultBearer ==
  Calls("queryAllActivePDNInfos") &
  (Skip | FreeAndClear & Activate & FreeAndClear & (Skip | Calls("checkFallBack")))

\* +CGACT? and +CGDCONT? joined; cgdcont_read_cmd_rsp builds a second response
requestOrSendDataCallList(Answer, Broken) ==
  LET New(A) == On("p_newResponse", A)
      Lines == Ok & ReadLine | OkEmpty
  IN  Failed & Broken & Free
      | Ok & ReadLine & Broken & Free & New(Free)
      | Lines & FreeAndClear &
          ( Failed & Broken & Free
          | Ok & ReadLine & New(Ok & ReadLine) & Broken & Free & New(Free)
          | ( Ok & ReadLine & New(Ok & ReadLine)
            | OkEmpty & New(OkEmpty) ) & FreeAndClear & New(FreeAndClear) & Answer )

sendDataCallList ==
  requestOrSendDataCallList(Indicate("DATA_CALL_LIST_CHANGED", List("DataCall")),
                            Indicate("DATA_CALL_LIST_CHANGED", None))

\* the refused setup carries the cause in a data call of its own
requestSetupDataCall ==
  (Skip | Calls("reuseDefaultBearer"))
  & (Skip | Calls("activeSpeciedCidProcess"))
  & (Skip | Calls("doIPV4_IPV6_Fallback") | Calls("checkFallBack"))
  & ( requestOrSendDataCallList(Success(DataCall) | Generic, Generic)
    | Done("GENERIC_FAILURE", DataCall) )

SETUP_DATA_CALL ==
  Takes(Texts(7)) &
  (Fail("OP_NOT_ALLOWED_BEFORE_REG_TO_NW") | Generic | Reads("strings") & requestSetupDataCall)

\* the first exchange releases the context, the second one its fallback
deactivateDataConnection ==
  Takes(Texts(2)) & Reads("strings")
  & (Skip | AnyEnd & FreeAndClear & (Skip | AnyEnd) & Free)
  & (Fail("INVALID_CALL_ID") | Generic | Success(None))

requestSetInitialAttachAPN ==
  Takes(Struct("InitialAttachApn")) & (Skip | getDataProfile) & Success(None)

-----------------------------------------------------------------------------
(* Attach and detach.                                                      *)

\* the other SIM's detach runs with a NULL token, so it never answers
doDetachGPRS == TakeChannel & Calls("detachGPRS") & GiveChannel

attachGPRS ==
  Generic
  | (Skip | doDetachGPRS) &
      ((Skip | Ok) & Success(None) & Free | (Skip | Failed) & Free & Generic)

\* every busy context is released and reported before AT+SGFD
detachGPRS ==
  Success(None)
  | (Skip | AnyEnd & (Skip | Calls("sendDataCallList")) & FreeAndClear)
    & ((Skip | Ok) & Success(None) & Free | (Skip | Failed) & Free & Generic)

requestAllowData ==
  Takes(Ints(1)) & (attachGPRS | detachGPRS | Fail("RADIO_NOT_AVAILABLE") | Success(None))

-----------------------------------------------------------------------------
(* IMS and extension requests.                                             *)

SetApn == Takes(Struct("InitialAttachApn")) & ((Skip | AnyEnd) & Success(None) & Free | Generic)

\* break leaves the loop over the lines, and the failure below it is answered too
GET_IMS_PCSCF_ADDR ==
  ( Failed & Generic
  | OkEmpty & Generic
  | Ok & ReadLine & ((Success(Text) | Generic) & FreeAndClear | Skip) & Generic ) & FreeAndClear

\* break leaves the switch when the line does not parse: no answer, no free
IMS_REGADDR ==
  (Ok & ReadLine & (Success(Texts(2)) | Generic) | LineFailed & Generic) & Free
  | Ok & ReadLine

QUERY_PLMN ==
  Takes(Ints(1)) &
  (Generic | ((Ok & ReadLine | OkEmpty) & Success(Text) | Failed & Generic) & Free)

processDataRequest ==
  [ SETUP_DATA_CALL |-> SETUP_DATA_CALL,
    DEACTIVATE_DATA_CALL |-> deactivateDataConnection,
    LAST_DATA_CALL_FAIL_CAUSE |-> Success(Ints(1)),
    DATA_CALL_LIST |-> requestOrSendDataCallList(Success(List("DataCall")), Generic),
    ALLOW_DATA |-> Generic | requestAllowData,
    SET_INITIAL_ATTACH_APN |-> requestSetInitialAttachAPN,
    SET_IMS_INITIAL_ATTACH_APN |-> SetApn,
    SET_SOS_INITIAL_ATTACH_APN |-> SetApn ]

imsAndExtRequests ==
  [ TRAFFIC_CLASS |-> Takes(Ints(1)) & Unchecked,
    ENABLE_LTE |-> SetInt,
    ATTACH_DATA |-> SetInt,
    FORCE_DETACH |-> Plain(None),
    ENABLE_RAU_NOTIFY |-> Success(None),
    SET_SINGLE_PDN |-> Takes(Ints(1)) & Success(None),
    SET_XCAP_IP_ADDR |-> Takes(Texts(3)) & Unchecked,
    GET_IMS_PCSCF_ADDR |-> GET_IMS_PCSCF_ADDR,
    SET_IMS_PCSCF_ADDR |-> Generic | Takes(Text) & Unchecked,
    REATTACH |-> Success(None),
    IMS_REGADDR |-> IMS_REGADDR,
    UPDATE_PLMN |-> Takes(Ints(6)) & (Generic | Plain(None)),
    QUERY_PLMN |-> QUERY_PLMN ]

processDataRequests == processDataRequest @@ imsAndExtRequests

-----------------------------------------------------------------------------
(* What other code asks of this file, timed callbacks, unsolicited lines.  *)

\* the setup of the card completes a NULL token
requestSetupDataConnection ==
  Skip | Calls("queryAllActivePDNInfos") & (Skip | NoToken(requestSetupDataCall))

requestDeactiveDataConnection == Skip | NoToken(deactivateDataConnection)

dataProcedures ==
  [ cgdata_set_cmd_rsp |-> cgdata_set_cmd_rsp,
    queryAllActivePDNInfos |-> queryAllActivePDNInfos,
    getSPACTFBcause |-> getSPACTFBcause,
    getPco |-> getPco,
    activeSpeciedCidProcess |-> activeSpeciedCidProcess,
    checkFallBack |-> checkFallBack,
    doIPV4_IPV6_Fallback |-> doIPV4_IPV6_Fallback,
    reuseDefaultBearer |-> reuseDefaultBearer,
    sendDataCallList |-> sendDataCallList,
    detachGPRS |-> NoToken(detachGPRS),
    requestSetupDataConnection |-> requestSetupDataConnection,
    requestDeactiveDataConnection |-> requestDeactiveDataConnection ]

onDataCallListChanged == TakeChannel & Calls("sendDataCallList") & GiveChannel

\* AT+CGDATA or AT+CGACT
startGSPS ==
  TakeChannel & (Activate | AnyEnd) & GiveChannel & Free

queryVideoCid ==
  TakeChannel
  & (Ok & ReadLine & (Indicate("RESPONSE_VIDEO_QUALITY", Ints(1)) | Skip) | LineFailed)
  & GiveChannel & Free

dataCallbacks ==
  [ onDataCallListChanged |-> onDataCallListChanged,
    startGSPS |-> startGSPS,
    queryVideoCid |-> queryVideoCid ]

CEND ==
  (Skip | (Skip | After("sendEvenLoopThread")) & After("onDataCallListChanged"))
  & Indicate("RESPONSE_VOICE_NETWORK_STATE_CHANGED", None)

SPERROR ==
  (Skip | Indicate("CLEAR_CODE_FALLBACK", None))
  & ( Skip
    | Indicate("IMS_CSFB_VENDOR_CAUSE", Text)
    | Indicate("SIM_PS_REJECT", Ints(2)) )

processDataUnsolicited ==
  [ CGEV |-> Skip | After("queryVideoCid"),
    CEND |-> Skip | CEND,
    SPGS |-> Skip | After("startGSPS"),
    SPREPORTRAU |-> Skip | Indicate("RAU_SUCCESS", None),
    SPERROR |-> Skip | SPERROR,
    SPSWAPCARD |-> Indicate("SWITCH_PRIMARY_CARD", Ints(1)),
    SPUCOPSLIST |-> Indicate("SPUCOPS_LIST", Texts(1)),
    SPPCODATA |-> Skip | Indicate("PCO_DATA", Struct("PcoData")) ]

=============================================================================
