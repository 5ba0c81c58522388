------------------------------- MODULE StkHandlers -------------------------------
(***************************************************************************)
(* ril_stk.c and ril_stk_bip.c: the SIM application toolkit and the        *)
(* bearer independent protocol (data channels opened by the card).  The    *)
(* functions of the second file run on threads of their own and take a     *)
(* channel for each command; the sockets they serve are not modelled.      *)
(***************************************************************************)
EXTENDS HandlerPaths

\* the text sent to the modem comes from the request
SendHex ==
  Takes(Text) & (Fail("INVALID_ARGUMENTS") | Generic | Ok & Success(None) & Free | LineFailed & Generic & Free)

\* while the open-channel dialog is shown the answer goes to the card, and
\* the request itself is never completed
STK_SEND_TERMINAL_RESPONSE ==
  SendHex
  | Takes(Text) & (Calls("lunchOpenChannel") | Calls("sendChannelResponse")) & Lower("lunchOpenChannelDialog")

REPORT_STK_SERVICE_IS_RUNNING ==
  Raise("stkServiceRunning") &
  ( Indicate("STK_PROACTIVE_COMMAND", Text) & Success(None)
  | (Ok & Success(None) | LineFailed & Generic) & Free )

\* cgdcont_read_cmd_rsp always builds a second response; the access point
\* name points into it, and strlen reads it even when no context has cid 1
requestDefaultNetworkName ==
  ( (Ok & On("p_newResponse", Ok | OkEmpty) | OkEmpty & On("p_newResponse", OkEmpty)) &
      On("p_newResponse", ReadLine) & Success(Text)
  | Ok & On("p_newResponse", Ok & ReadLine) & Generic
  | Failed & Generic ) &
  FreeAndClear & On("p_newResponse", FreeAndClear)

processStkRequests ==
  [ STK_GET_PROFILE |-> (Ok & ReadLine & Success(Text) | LineFailed & Generic) & Free,
    STK_SEND_ENVELOPE_COMMAND |-> SendHex,
    STK_SEND_TERMINAL_RESPONSE |-> STK_SEND_TERMINAL_RESPONSE,
    STK_HANDLE_CALL_SETUP_REQUESTED_FROM_SIM |-> SetInt,
    REPORT_STK_SERVICE_IS_RUNNING |-> REPORT_STK_SERVICE_IS_RUNNING,
    GET_DEFAULT_NAN |-> requestDefaultNetworkName ]

-----------------------------------------------------------------------------
(* What the threads of a channel send.                                     *)

OnOwnChannel(A) == TakeChannel & A & GiveChannel

sendTRData == OnOwnChannel(Ok | LineFailed | Skip) & FreeAndClear

phoneIsIdle == OnOwnChannel(Ok & ReadLine | OkEmpty | Failed) & Free

endConnectivity == Skip | OnOwnChannel(Calls("requestDeactiveDataConnection"))

SetupStkConnect == Skip | OnOwnChannel(Calls("requestSetupDataConnection"))

\* getDefaultBearerNetAccessName frees the response its result points into,
\* and the result is copied afterwards
lunchOpenChannel ==
  Skip
  | ( After("openChannelThread")
    | OnOwnChannel(Ok & On("p_newResponse", Ok & ReadLine & Free) & Free) &
        On("p_newResponse", ReadLine) & After("openChannelThread")
    | OnOwnChannel((OkEmpty & On("p_newResponse", OkEmpty & FreeAndClear) | Failed) & FreeAndClear) &
        After("openChannelThread") )

sendChannelResponse == (Calls("endConnectivity") | Skip) & (Calls("sendTRData") | Skip)

openChannelThread ==
  (Calls("phoneIsIdle") | Skip) &
  ( Calls("sendChannelResponse")
  | Calls("SetupStkConnect") & (After("createSocketThread") | Calls("sendChannelResponse")) )

\* a proactive command about a data channel: the card gets a terminal
\* response at once, or from the threads that open the channel
processBipClient ==
  Skip
  | Calls("sendTRData")
  | Calls("lunchOpenChannel")
  | Raise("lunchOpenChannelDialog") & Indicate("STK_PROACTIVE_COMMAND", Text)
  | Calls("sendTRData") & (After("receiveDataThread") | Skip)
  | Calls("endConnectivity") & Calls("sendTRData")

stkProcedures ==
  [ sendTRData |-> sendTRData,
    sendELData |-> sendTRData,
    phoneIsIdle |-> phoneIsIdle,
    endConnectivity |-> endConnectivity,
    SetupStkConnect |-> SetupStkConnect,
    sendChannelResponse |-> sendChannelResponse,
    lunchOpenChannel |-> lunchOpenChannel ]

stkCallbacks ==
  [ processBipClient |-> processBipClient,
    openChannelThread |-> openChannelThread,
    createSocketThread |-> Calls("sendChannelResponse"),
    receiveDataThread |-> Calls("sendELData") | Skip,
    sendEvenLoopThread |-> Calls("sendELData") | Skip,
    initIsimCard |-> OnOwnChannel(Calls("initISIM")) ]

-----------------------------------------------------------------------------
(* Unsolicited lines.                                                      *)

proactiveCommand ==
  (Indicate("STK_PROACTIVE_COMMAND", Text) | Skip) & After("processBipClient")
  | Lower("stkServiceRunning") & Indicate("STK_PROACTIVE_COMMAND", Text)
  | (Lower("stkServiceRunning") | Skip) & (Raise("stkUnsolResponse") | Indicate("STK_PROACTIVE_COMMAND", Text))

SPUSATREFRESH ==
  (Lower("stkServiceRunning") | Skip) & (After("initIsimCard") | Skip) & Indicate("SIM_REFRESH", Struct("SimRefresh"))

processStkUnsolicited ==
  [ SPUSATENDSESSIONIND |-> Indicate("STK_SESSION_END", None),
    SPUSATPROCMDIND |-> Skip | proactiveCommand,
    SPUSATDISPLAY |-> Skip | Indicate("STK_EVENT_NOTIFY", Text),
    SPUSATSETUPCALL |-> Skip | Indicate("STK_PROACTIVE_COMMAND", Text),
    SPUSATREFRESH |-> Skip | SPUSATREFRESH,
    SPUSATCALLCTRL |-> Skip | Indicate("STK_CC_ALPHA_NOTIFY", Text) ]

=============================================================================
