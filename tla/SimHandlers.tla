------------------------------- MODULE SimHandlers -------------------------------
(***************************************************************************)
(* ril_sim.c: SIM status, PIN and PUK, facility locks, SIM I/O and APDUs,  *)
(* authentication, ISIM, SIM power and SIM lock.                           *)
(***************************************************************************)
EXTENDS HandlerPaths

SIM_STATUS_CHANGED == Indicate("RESPONSE_SIM_STATUS_CHANGED", None)

SIMMGR_STATUS_CHANGED == Indicate("SIMMGR_SIM_STATUS_CHANGED", None)

RemainTimes == Calls("getSimlockRemainTimes")

-----------------------------------------------------------------------------
(* Queries with a response of their own, called by the handlers.           *)

getSimlockRemainTimes == (Ok & ReadLine | LineFailed) & Free

\* under s_simStatusMutex; a busy card is polled by a timer, one at a time
getSIMStatus ==
  LET CachedPin == On("p_resp", AnyEnd & Free)
      Busy == Skip | Raise("simBusy") & After("getSIMStatusAgainForSimBusy")
  IN  ( Skip
      | NoAnswer | NoLine
      | Refused & ReadFinal & Busy
      | Ok & ReadLine & (Skip | CachedPin) ) & Free
      & (Skip | RemainTimes | RemainTimes & RemainTimes)

getSimType == (Ok & ReadLine | LineFailed) & Free

initISIM == Skip | (Ok & ReadLine | LineFailed) & Free

getNetLockRemainTimes == (Ok & ReadLine | LineFailed) & Free

getRemainTimes == Skip | getNetLockRemainTimes | RemainTimes

queryFDNServiceAvailable == (Skip | Ok & ReadLine | LineFailed) & Free

getIMEIPassword == Skip | (Ok & ReadLine | Failed) & Free

\* the first response is freed before the card number is asked for, and not cleared
readSimRecord ==
  ( Skip
  | LineFailed
  | Ok & ReadLine & (Skip | Free & (Ok & ReadLine | LineFailed)) ) & Free

simProcedures ==
  [ getSimlockRemainTimes |-> getSimlockRemainTimes,
    getSIMStatus |-> getSIMStatus,
    getSimType |-> getSimType,
    initISIM |-> initISIM,
    getNetLockRemainTimes |-> getNetLockRemainTimes,
    getRemainTimes |-> getRemainTimes,
    queryFDNServiceAvailable |-> queryFDNServiceAvailable,
    getIMEIPassword |-> getIMEIPassword,
    readSimRecord |-> readSimRecord ]

-----------------------------------------------------------------------------
(* SIM status, PIN and PUK.                                                *)

\* serialised by s_sem; the card status is malloc'ed and freed after the answer
GET_SIM_STATUS ==
  (Skip | Calls("getSIMStatus")) & Calls("getSimType") & (Skip | Calls("initISIM"))
  & Success(Struct("CardStatus"))

\* what follows an unlocked card
Unlocked == Calls("getSIMStatus") & (Skip | Calls("setRadioState") | SIM_STATUS_CHANGED)

\* three strings are a PUK: the response of AT+CPIN? is freed and not cleared
requestEnterSimPin(strings) ==
  LET Wrong == RemainTimes & Done("PASSWORD_INCORRECT", Ints(1)) & Free
      Unlock == Ok & RemainTimes & (Skip | RemainTimes) & Success(Ints(1)) & Unlocked & Free
              | Failed & Wrong
              | Wrong
  IN  Takes(Texts(strings)) &
      IF strings = 2 THEN Unlock ELSE LineFailed & Wrong | Ok & ReadLine & (Wrong | Free & Unlock)

requestEnterSimPin2 ==
  Takes(Texts(2)) &
  ( Ok & RemainTimes & Success(Ints(1))
  | Failed & RemainTimes & Done("PASSWORD_INCORRECT", Ints(1)) ) & Free

requestEnterSimPuk2 ==
  Takes(Texts(3)) &
  ( Fail("PASSWORD_INCORRECT") & Free
  | Ok & RemainTimes & RemainTimes & Success(None) & Free & Unlocked
  | Failed & RemainTimes & RemainTimes & Fail("PASSWORD_INCORRECT") & Free )

\* AT_RESPONSE_FREE between the two commands
requestChangeSimPin ==
  LET Wrong == Done("PASSWORD_INCORRECT", Ints(1))
  IN  Takes(Texts(3)) &
      ( LineFailed & Wrong
      | Ok & ReadLine &
        ( Wrong
        | FreeAndClear &
          ( Wrong
          | Ok & RemainTimes & (Skip | Reads("strings")) & Success(None)
          | Failed & RemainTimes & Wrong ) ) ) & Free

requestChangeSimPin2 ==
  LET Wrong == Done("PASSWORD_INCORRECT", Ints(1))
  IN  Takes(Texts(3)) &
      ( LineFailed & Wrong
      | Ok & ReadLine &
        ( Wrong
        | FreeAndClear &
          (Wrong | Ok & RemainTimes & Success(None) | Failed & RemainTimes & Wrong) ) ) & Free

-----------------------------------------------------------------------------
(* Facility locks.                                                         *)

\* the answer of a failure carries the remaining attempts
LockRefused(errs) == Calls("getRemainTimes") & (UNION {Done(e, Ints(1)) : e \in errs}) & Free

LockFailed(errs) == Refused & ReadFinal & (Skip | Calls("setRadioState")) & LockRefused(errs)
                    | NoAnswer & LockRefused({"GENERIC_FAILURE"})

\* status = 2
AskFacilityLock(answer) ==
  LockRefused({"GENERIC_FAILURE", "INVALID_ARGUMENTS"})
  | Reads("strings") &
    ( (OkEmpty | Ok & ReadLine) & (Skip | Calls("queryFDNServiceAvailable")) & Success(answer) & Free
    | Ok & ReadLine & ReadFinal & LockRefused({"GENERIC_FAILURE"})
    | LockFailed({"GENERIC_FAILURE", "FDN_CHECK_FAILURE", "PASSWORD_INCORRECT"}) )

\* status = 0 or 1; FD is answered by the +CLCK line or by a timer
requestFacilityLock ==
  LockRefused({"GENERIC_FAILURE", "INVALID_ARGUMENTS"})
  | Reads("strings") &
    ( Ok & (Skip | RemainTimes) & Success(Ints(1)) & Free
    | Later & Ok & RemainTimes & Free
    | LockFailed({"GENERIC_FAILURE", "FDN_CHECK_FAILURE", "PASSWORD_INCORRECT", "SUCCESS"}) )

\* the caller adds the question mark to the four strings of the request
QUERY_FACILITY_LOCK == Takes(Texts(4)) & AskFacilityLock(Ints(1))

EXT_QUERY_FACILITY_LOCK == Takes(Texts(4)) & AskFacilityLock(Ints(2))

SET_FACILITY_LOCK == Takes(Texts(5)) & requestFacilityLock

\* the +CLCK line that completes a pending FD setting
dispatchCLCK == Success(Ints(1)) | Generic

requestFacilityLockByUser ==
  LET Codes == ReadFinal & ((Skip | Calls("setRadioState")) & Generic
                            | Fails({"FDN_CHECK_FAILURE", "PASSWORD_INCORRECT"}))
  IN  Takes(Texts(2)) &
      ( Generic
      | Calls("getIMEIPassword") & Reads("strings") &
        (Generic | Ok & Success(None) | Refused & Codes | NoAnswer & Generic) ) & Free

-----------------------------------------------------------------------------
(* SIM I/O, APDUs, logical channels.                                       *)

\* a long transparent file is read in parts of 255 bytes
requestSIM_IO ==
  LET Records == Calls("readSimRecord") | Calls("readSimRecord") & Calls("readSimRecord")
  IN  Takes(Struct("SIM_IO")) & Records & (Success(Struct("IccIo")) | Generic)

\* a proactive command the card has announced in the status word
Fetch ==
  Forget &
  ( LineFailed
  | Ok & ReadLine & (Skip | ReadLine & Indicate("STK_PROACTIVE_COMMAND", Text)) ) & Free

AfterApdu == (Skip | Indicate("STK_SESSION_END", None)) & (Skip | Fetch)

\* simResponse points into the response, which is freed after the answer
requestTransmitApduBasic ==
  Takes(Struct("SIM_APDU")) &
  ( Ok & ReadLine & Success(Struct("IccIo")) & Free & AfterApdu
  | (Ok & ReadLine | LineFailed) & Generic & Free )

OpenChannel ==
  Takes(Struct("OpenChannelParams")) &
  ( Ok & ReadLine & (Success(Ints(3)) | Generic)
  | Refused & ReadFinal & Fails({"MISSING_RESOURCE", "NO_SUCH_ELEMENT", "GENERIC_FAILURE"})
  | (NoAnswer | NoLine) & Generic ) & Free

requestOpenLogicalChannel == OpenChannel

requestSIMOpenChannelWithP2 == OpenChannel

SIM_OPEN_CHANNEL == requestOpenLogicalChannel | requestSIMOpenChannelWithP2

requestCloseLogicalChannel == Takes(Ints(1)) & (Fail("INVALID_ARGUMENTS") | Plain(None))

\* status words 6C and 61 free the response and send the command again
requestTransmitApdu ==
  LET Retries == Skip | Ok & ReadLine & Free
  IN  Takes(Struct("SIM_APDU")) & Retries &
      ( Ok & ReadLine & Success(Struct("IccIo")) & Free & AfterApdu
      | Ok & ReadLine & Generic & Free
      | Refused & ReadFinal & Fails({"INVALID_PARAMETER", "GENERIC_FAILURE"}) & Free
      | (NoAnswer | NoLine) & Generic & Free )

\* both forms of AT^MBAU; the answer is built in memory of its own
Authentication ==
  ( Generic
  | Ok & ReadLine & (Success(Struct("IccIo")) | Generic)
  | LineFailed & Generic ) & Free

requestUSimAuthentication == Authentication

requestSimAuthentication == Authentication

SIM_AUTHENTICATION ==
  Takes(Struct("SimAuthentication")) &
  (requestUSimAuthentication | requestSimAuthentication | Fail("INVALID_ARGUMENTS"))

-----------------------------------------------------------------------------
(* ISIM, SIM power, SIM lock.                                              *)

requestInitISIM == Calls("initISIM") & Takes(Texts(7)) & (Success(Ints(1)) | Generic)

notifySIMStatus == Takes(Ints(1)) & Success(None) & SIM_STATUS_CHANGED

\* 0 turns the card off, a positive number turns it on; a negative one sends no
\* command, and whether it succeeded is read all the same
requestSIMPower ==
  Takes(Ints(1)) &
  ( Ok & Free & notifySIMStatus
  | Failed & Free & Generic
  | Negative & ReadFinal & Free & (notifySIMStatus | Generic) )

\* dispatched without the token of the request
SIM_POWER_REAL == NoToken(requestSIMPower)

\* the answer points into the response that has just been freed
requestGetICCID ==
  Ok & ReadLine & Free & (ReadLine & Success(Text) | Generic) | LineFailed & Free & Generic

requestSIMGetAtr ==
  ( Ok & ReadLine & (ReadLine & Success(Text) | Generic)
  | Refused & ReadFinal & Fails({"MISSING_RESOURCE", "GENERIC_FAILURE"})
  | (NoAnswer | NoLine) & Generic ) & Free

requestGetSimLockStatus == Takes(Ints(1)) & (Generic & Free | OneLine(Ints(1)))

requestGetSimLockDummys == OneLine(Ints(8))

requestGetSimLockWhiteList == Takes(Ints(1)) & (Generic & Free | OneLine(Text))

GET_IMSI == Takes(Texts(1)) & (Ok & ReadLine & Success(Text) | LineFailed & Generic) & Free

GET_SUBSIDYLOCK_STATUS == (Ok & ReadLine & Success(Ints(1)) | LineFailed & Generic) & Free

-----------------------------------------------------------------------------
(* processSimRequests.                                                     *)

pinRequests ==
  [ GET_SIM_STATUS |-> GET_SIM_STATUS,
    EXT_GET_SIM_STATUS |-> GET_SIM_STATUS,
    SIMMGR_GET_SIM_STATUS |-> GET_SIM_STATUS,
    ENTER_SIM_PIN |-> requestEnterSimPin(2),
    ENTER_SIM_PUK |-> requestEnterSimPin(3),
    ENTER_SIM_PIN2 |-> requestEnterSimPin2,
    ENTER_SIM_PUK2 |-> requestEnterSimPuk2,
    CHANGE_SIM_PIN |-> requestChangeSimPin,
    CHANGE_SIM_PIN2 |-> requestChangeSimPin2,
    ENTER_NETWORK_DEPERSONALIZATION |-> Fails({"INVALID_SIM_STATE", "REQUEST_NOT_SUPPORTED"}),
    GET_IMSI |-> GET_IMSI ]

cardRequests ==
  [ SIM_IO |-> requestSIM_IO,
    QUERY_FACILITY_LOCK |-> QUERY_FACILITY_LOCK,
    EXT_QUERY_FACILITY_LOCK |-> EXT_QUERY_FACILITY_LOCK,
    SET_FACILITY_LOCK |-> SET_FACILITY_LOCK,
    SIM_TRANSMIT_APDU_BASIC |-> requestTransmitApduBasic,
    SIM_OPEN_CHANNEL |-> SIM_OPEN_CHANNEL,
    SIM_CLOSE_CHANNEL |-> requestCloseLogicalChannel,
    SIM_TRANSMIT_APDU_CHANNEL |-> requestTransmitApdu,
    SIM_AUTHENTICATION |-> SIM_AUTHENTICATION ]

simExtRequests ==
  [ GET_SIMLOCK_REMAIN_TIMES |-> Takes(Ints(1)) & Calls("getNetLockRemainTimes") & Success(Ints(1)),
    SET_FACILITY_LOCK_FOR_USER |-> requestFacilityLockByUser,
    GET_SIMLOCK_STATUS |-> requestGetSimLockStatus,
    GET_SIMLOCK_DUMMYS |-> requestGetSimLockDummys,
    GET_SIMLOCK_WHITE_LIST |-> requestGetSimLockWhiteList,
    INIT_ISIM |-> requestInitISIM,
    ENABLE_IMS |-> Unchecked,
    DISABLE_IMS |-> Unchecked,
    SIMMGR_SIM_POWER |-> notifySIMStatus,
    SIM_GET_ATR |-> requestSIMGetAtr,
    SIM_POWER_REAL |-> SIM_POWER_REAL,
    SET_SIM_CARD_POWER |-> requestSIMPower,
    GET_SUBSIDYLOCK_STATUS |-> GET_SUBSIDYLOCK_STATUS,
    GET_ICCID |-> requestGetICCID ]

processSimRequests == pinRequests @@ cardRequests @@ simExtRequests

-----------------------------------------------------------------------------
(* Timed callbacks and unsolicited lines.                                  *)

\* polls AT+CPIN? until the card is no longer busy
getSIMStatusAgainForSimBusy ==
  TakeChannel &
  ( Skip
  | NoAnswer | NoLine
  | Refused & ReadFinal & After("getSIMStatusAgainForSimBusy")
  | (Ok | Refused & ReadFinal) & Lower("simBusy") & SIM_STATUS_CHANGED & SIMMGR_STATUS_CHANGED )
  & GiveChannel & Free

onSimAbsent == TakeChannel & (Skip | Calls("setRadioState")) & GiveChannel & SIM_STATUS_CHANGED

onSimPresent ==
  TakeChannel & Calls("isRadioOn") & (Skip | Calls("setRadioState")) & GiveChannel & SIM_STATUS_CHANGED

onSimlockLocked == Indicate("SIMLOCK_STATUS_CHANGED", None)

simCallbacks ==
  [ getSIMStatusAgainForSimBusy |-> getSIMStatusAgainForSimBusy,
    onSimAbsent |-> onSimAbsent,
    onSimPresent |-> onSimPresent,
    onSimlockLocked |-> onSimlockLocked ]

onSimStatusChanged ==
  Skip
  | SIMMGR_STATUS_CHANGED & After("onSimAbsent") & Lower("stkServiceRunning")
  | SIMMGR_STATUS_CHANGED & SIM_STATUS_CHANGED
  | SIMMGR_STATUS_CHANGED
  | SIM_STATUS_CHANGED & SIMMGR_STATUS_CHANGED & (Skip | Lower("stkServiceRunning"))
  | SIM_STATUS_CHANGED & After("onSimlockLocked")
  | After("onSimPresent")

processSimUnsolicited ==
  [ ECIND |-> onSimStatusChanged,
    SPEXPIRESIM |-> Skip | Indicate("SIMLOCK_SIM_EXPIRED", Ints(1)),
    CLCK |-> Skip | dispatchCLCK,
    SPSLENABLED |-> Skip | Indicate("SUBSIDYLOCK_STATUS_CHANGED", Ints(1)) ]

=============================================================================
