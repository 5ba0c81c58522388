----------------------------- MODULE RadioLocks -----------------------------
(***************************************************************************)
(* The requests that hold an AT channel of one SIM while they want a       *)
(* channel of another SIM, or the s_radioPowerMutex of a SIM:              *)
(*                                                                         *)
(*   powerOn, powerOff  RIL_REQUEST_RADIO_POWER        (ril_network.c)     *)
(*   capability         RIL_REQUEST_SET_RADIO_CAPABILITY, phase APPLY of   *)
(*                      the last SIM, no LTE           (ril_network.c)     *)
(*   emergency          RIL_EXT_REQUEST_SET_EMERGENCY_ONLY                 *)
(*   deactivate         RIL_REQUEST_DEACTIVATE_DATA_CALL (ril_data.c)      *)
(*   allow              RIL_REQUEST_ALLOW_DATA           (ril_data.c)      *)
(*                                                                         *)
(* Every request is run by processRequest (sprd_ril.c): it gets a channel  *)
(* of its SIM, its handler locks mutexes and sends commands, and the       *)
(* channel is put.  The threads that run them are those of RequestThreads, *)
(* the LTE requests that hold both mutexes are in AsyncCmd.                *)
(***************************************************************************)
EXTENDS Integers, Sequences, FiniteSets

CONSTANTS
  Requests,           \* the requests submitted
  SimOf,              \* the SIM of each, 1 or 2
  KindOf,             \* the kind of each
  ChannelsPerSim,     \* D_AT_CHANNEL_1 .. D_AT_CHANNEL_2: two
  BusySims,           \* the SIMs that may answer AT+CPIN? with CME_SIM_BUSY
  CommandsFail,       \* may AT+SFUN fail in applySetRadioCapability?
  NoOne

Sims  == {1, 2}
Kinds == {"powerOn", "powerOff", "capability", "emergency", "deactivate", "allow"}

ASSUME RequestsAssumption ==
  /\ NoOne \notin Requests
  /\ SimOf \in [Requests -> Sims]
  /\ KindOf \in [Requests -> Kinds]
  /\ ChannelsPerSim \in Nat \ {0}
  /\ BusySims \subseteq Sims
  /\ CommandsFail \in BOOLEAN

VARIABLES
  pc,            \* where each request is
  cursor,        \* simId of the loop a handler is in
  held,          \* the number of channels of each SIM that a request holds
  idle,          \* the number of CHANNEL_IDLE channels of each SIM
  powerMutex,    \* the request that holds s_radioPowerMutex of each SIM
  radioOn,       \* the SIMs whose s_radioState is not RADIO_STATE_OFF
  unknown,       \* the SIMs whose s_isSimPresent is SIM_UNKNOWN
  answered       \* the requests given to RIL_onRequestComplete

vars == <<pc, cursor, held, idle, powerMutex, radioOn, unknown, answered>>

Other(s) == 3 - s

\* RADIO_POWER, SET_RADIO_CAPABILITY and SET_EMERGENCY_ONLY are run by the
\* normal thread of the SIM, ALLOW_DATA by the data thread of all SIMs, and
\* DEACTIVATE_DATA_CALL by a worker of its own.
SameThread(q, r) ==
  LET OfNormal == {"powerOn", "powerOff", "capability", "emergency"}
  IN  \/ KindOf[q] \in OfNormal /\ KindOf[r] \in OfNormal /\ SimOf[q] = SimOf[r]
      \/ KindOf[q] = "allow" /\ KindOf[r] = "allow"

UnderWay(r) == pc[r] \notin {"queued", "returned"}

-----------------------------------------------------------------------------
LocksOwnSim(r) ==
  CASE KindOf[r] \in {"powerOn", "powerOff", "emergency", "capability"} -> <<SimOf[r]>>
    [] KindOf[r] = "deactivate" -> <<Other(SimOf[r])>>
    [] OTHER -> <<>>

\* The mutexes that a handler locks around its work, in that order.
Mutexes(r) ==
  CASE KindOf[r] \in {"powerOn", "powerOff", "emergency"} -> <<SimOf[r]>>
    [] KindOf[r] = "capability" -> <<1, 2>>
    [] KindOf[r] = "deactivate" -> <<Other(SimOf[r])>>
    [] OTHER -> <<>>

MutexesOf(r) == {Mutexes(r)[i] : i \in 1..Len(Mutexes(r))}

getChannel(r, s) ==
  /\ idle[s] > 0
  /\ idle' = [idle EXCEPT ![s] = @ - 1]
  /\ held' = [held EXCEPT ![r][s] = @ + 1]

\* putChannel of a channel of SIM s; of channel -1, when none was got, nothing.
putChannel(r, s) ==
  IF held[r][s] = 0 THEN UNCHANGED <<idle, held>>
  ELSE /\ idle' = [idle EXCEPT ![s] = @ + 1]
       /\ held' = [held EXCEPT ![r][s] = @ - 1]

GoTo(r, place) == pc' = [pc EXCEPT ![r] = place]
Answer(r) == answered' = answered \cup {r}

\* getSIMStatus(false, channel): the SIM is known afterwards, absent or
\* present, unless it is busy.
getSIMStatus(s) ==
  \/ unknown' = unknown \ {s}
  \/ s \in BusySims /\ unknown' = unknown \cup {s}

-----------------------------------------------------------------------------
Init ==
  /\ pc = [r \in Requests |-> "queued"]
  /\ cursor = [r \in Requests |-> 1]
  /\ held = [r \in Requests |-> [s \in Sims |-> 0]]
  /\ idle = [s \in Sims |-> ChannelsPerSim]
  /\ powerMutex = [s \in Sims |-> NoOne]
  /\ radioOn = {}
  /\ unknown = Sims
  /\ answered = {}

\* processRequest up to getChannel: with the radio off only the requests of
\* its list go on, and DEACTIVATE_DATA_CALL is not in it.
processRequest(r) ==
  /\ pc[r] = "queued"
  /\ \A q \in Requests \ {r} : SameThread(q, r) => ~UnderWay(q)
  /\ IF KindOf[r] = "deactivate" /\ SimOf[r] \notin radioOn
     THEN GoTo(r, "returned") /\ Answer(r)
     ELSE GoTo(r, "channel") /\ UNCHANGED answered
  /\ UNCHANGED <<cursor, held, idle, powerMutex, radioOn, unknown>>

getOwnChannel(r) ==
  /\ pc[r] = "channel"
  /\ getChannel(r, SimOf[r])
  /\ GoTo(r, "lock")
  /\ UNCHANGED <<cursor, powerMutex, radioOn, unknown, answered>>

lockRadioPower(r) ==
  /\ pc[r] = "lock"
  /\ IF cursor[r] > Len(Mutexes(r))
     THEN /\ GoTo(r, KindOf[r])
          /\ cursor' = [cursor EXCEPT ![r] = 1]
          /\ UNCHANGED powerMutex
     ELSE LET m == Mutexes(r)[cursor[r]]
          IN  /\ powerMutex[m] = NoOne
              /\ powerMutex' = [powerMutex EXCEPT ![m] = r]
              /\ cursor' = [cursor EXCEPT ![r] = @ + 1]
              /\ UNCHANGED pc
  /\ UNCHANGED <<held, idle, radioOn, unknown, answered>>

-----------------------------------------------------------------------------
(* RIL_REQUEST_RADIO_POWER.                                                *)

powerOff(r) ==
  /\ pc[r] = "powerOff"
  /\ getSIMStatus(SimOf[r])
  /\ radioOn' \in {radioOn, radioOn \ {SimOf[r]}}         \* AT+SFUN=5 may fail
  /\ Answer(r)
  /\ GoTo(r, "unlock")
  /\ UNCHANGED <<cursor, held, idle, powerMutex>>

\* With the radio off, getSIMStatus, at most eight seconds for a busy SIM, and
\* then initSIMPresentState; with the radio on there is nothing to do.
powerOn(r) ==
  /\ pc[r] = "powerOn"
  /\ IF SimOf[r] \in radioOn
     THEN Answer(r) /\ GoTo(r, "unlock") /\ UNCHANGED unknown
     ELSE getSIMStatus(SimOf[r]) /\ GoTo(r, "probe") /\ UNCHANGED answered
  /\ UNCHANGED <<cursor, held, idle, powerMutex, radioOn>>

\* initSIMPresentState looks at the SIMs in turn.  What it saw of a SIM is not
\* looked at again once it has a channel of that SIM.
probeNext(r) ==
  /\ pc[r] = "probe"
  /\ IF cursor[r] \in unknown
     THEN GoTo(r, "probing") /\ UNCHANGED cursor
     ELSE /\ cursor' = [cursor EXCEPT ![r] = @ + 1]
          /\ IF cursor[r] = 2 THEN GoTo(r, "turnOn") ELSE UNCHANGED pc
  /\ UNCHANGED <<held, idle, powerMutex, radioOn, unknown, answered>>

probeGetsChannel(r) ==
  /\ pc[r] = "probing"
  /\ getChannel(r, cursor[r])
  /\ GoTo(r, "probed")
  /\ UNCHANGED <<cursor, powerMutex, radioOn, unknown, answered>>

ProbeKeepsChannel(r) ==
  /\ pc[r] = "probed"
  /\ getSIMStatus(cursor[r])
  /\ cursor' = [cursor EXCEPT ![r] = @ + 1]
  /\ GoTo(r, IF cursor[r] = 2 THEN "turnOn" ELSE "probe")
  /\ UNCHANGED <<held, idle, powerMutex, radioOn, answered>>

probeSIM(r) ==
  /\ pc[r] = "probed"
  /\ getSIMStatus(cursor[r])
  /\ putChannel(r, cursor[r])
  /\ cursor' = [cursor EXCEPT ![r] = @ + 1]
  /\ GoTo(r, IF cursor[r] = 2 THEN "turnOn" ELSE "probe")
  /\ UNCHANGED <<powerMutex, radioOn, answered>>

\* The early returns, by what the SIMs are, and AT+SFUN=4, which may fail,
\* leave the radio off.
turnOn(r) ==
  /\ pc[r] = "turnOn"
  /\ radioOn' \in {radioOn, radioOn \cup {SimOf[r]}}
  /\ Answer(r)
  /\ GoTo(r, "unlock")
  /\ UNCHANGED <<cursor, held, idle, powerMutex, unknown>>

-----------------------------------------------------------------------------
(* RIL_REQUEST_SET_RADIO_CAPABILITY: applySetRadioCapability.              *)

\* Either s_multiModeSim is already what is asked for, or the radios are restarted.
capability(r) ==
  /\ pc[r] = "capability"
  /\ GoTo(r, "unlock") \/ GoTo(r, "shutDown")
  /\ UNCHANGED <<cursor, held, idle, powerMutex, radioOn, unknown, answered>>

\* The first loop gets a channel of the other SIM ...
shutDownGetsChannel(r) ==
  /\ pc[r] = "shutDown"
  /\ cursor[r] \in radioOn
  /\ cursor[r] # SimOf[r]
  /\ held[r][cursor[r]] = 0
  /\ getChannel(r, cursor[r])
  /\ UNCHANGED <<pc, cursor, powerMutex, radioOn, unknown, answered>>

\* ... sends AT+SFUN=5 to each SIM whose radio is not off ...
shutDown(r) ==
  /\ pc[r] = "shutDown"
  /\ cursor[r] \in radioOn => held[r][cursor[r]] > 0
  /\ cursor' = [cursor EXCEPT ![r] = IF cursor[r] = 2 THEN 1 ELSE 2]
  /\ IF cursor[r] = 2 THEN GoTo(r, "restart") ELSE UNCHANGED pc
  /\ UNCHANGED <<held, idle, powerMutex, radioOn, unknown, answered>>

\* ... and when one fails puts the channels of the SIMs before that one.
shutDownFails(r) ==
  /\ CommandsFail
  /\ pc[r] = "shutDown"
  /\ cursor[r] \in radioOn
  /\ held[r][cursor[r]] > 0
  /\ IF Other(SimOf[r]) < cursor[r]
     THEN putChannel(r, Other(SimOf[r]))
     ELSE UNCHANGED <<idle, held>>
  /\ GoTo(r, "unlock")
  /\ UNCHANGED <<cursor, powerMutex, radioOn, unknown, answered>>

\* The second loop puts the channel of the other SIM after AT+SFUN=4; a command
\* that fails ends it, before the turn of the next SIM.
restart(r, fails) ==
  /\ pc[r] = "restart"
  /\ IF cursor[r] # SimOf[r] THEN putChannel(r, cursor[r]) ELSE UNCHANGED <<idle, held>>
  /\ cursor' = [cursor EXCEPT ![r] = @ + 1]
  /\ IF cursor[r] = 2 \/ fails THEN GoTo(r, "unlock") ELSE UNCHANGED pc
  /\ UNCHANGED <<powerMutex, radioOn, unknown, answered>>

restartFails(r) == CommandsFail /\ cursor[r] \in radioOn /\ restart(r, TRUE)

-----------------------------------------------------------------------------
(* The data calls, and SET_EMERGENCY_ONLY.                                 *)

workUnderMutex(r) ==
  /\ pc[r] \in {"deactivate", "emergency"}
  /\ Answer(r)
  /\ GoTo(r, "unlock")
  /\ UNCHANGED <<cursor, held, idle, powerMutex, radioOn, unknown>>

\* attachGPRS, with s_autoDetach, detaches the other SIM on a channel of its own.
detachGetsChannel(r) ==
  /\ pc[r] = "allow"
  /\ getChannel(r, Other(SimOf[r]))
  /\ GoTo(r, "detach")
  /\ UNCHANGED <<cursor, powerMutex, radioOn, unknown, answered>>

doDetachGPRS(r) ==
  /\ pc[r] = "detach"
  /\ putChannel(r, Other(SimOf[r]))
  /\ Answer(r)
  /\ GoTo(r, "put")
  /\ UNCHANGED <<cursor, powerMutex, radioOn, unknown>>

-----------------------------------------------------------------------------
\* SET_RADIO_CAPABILITY is answered when its mutexes are unlocked, the others
\* before.
UnlocksFirst(r) ==
  /\ pc[r] = "unlock"
  /\ powerMutex' = [powerMutex EXCEPT ![Mutexes(r)[1]] = NoOne]
  /\ Answer(r)
  /\ GoTo(r, "put")
  /\ UNCHANGED <<cursor, held, idle, radioOn, unknown>>

unlockRadioPower(r) ==
  /\ pc[r] = "unlock"
  /\ powerMutex' = [m \in Sims |-> IF m \in MutexesOf(r) THEN NoOne ELSE powerMutex[m]]
  /\ Answer(r)
  /\ GoTo(r, "put")
  /\ UNCHANGED <<cursor, held, idle, radioOn, unknown>>

putOwnChannel(r) ==
  /\ pc[r] = "put"
  /\ putChannel(r, SimOf[r])
  /\ GoTo(r, "returned")
  /\ UNCHANGED <<cursor, powerMutex, radioOn, unknown, answered>>

handler(r) ==
  \/ powerOff(r) \/ powerOn(r) \/ probeNext(r) \/ probeGetsChannel(r) \/ probeSIM(r) \/ turnOn(r)
  \/ capability(r) \/ shutDownGetsChannel(r) \/ shutDown(r) \/ shutDownFails(r)
  \/ restart(r, FALSE) \/ restartFails(r)
  \/ workUnderMutex(r) \/ detachGetsChannel(r) \/ doDetachGPRS(r)

Step(r) ==
  \/ processRequest(r) \/ getOwnChannel(r) \/ lockRadioPower(r)
  \/ handler(r)
  \/ unlockRadioPower(r) \/ putOwnChannel(r)

Next == \E r \in Requests : Step(r)

Spec == Init /\ [][Next]_vars

\* Every thread keeps running.  getChannel polls: of the threads that do, one
\* that finds an idle channel again and again gets one.
FairSpec == Spec /\ \A r \in Requests : SF_vars(Step(r))

-----------------------------------------------------------------------------
TypeOK ==
  /\ pc \in [Requests -> {"queued", "channel", "lock", "probe", "probing", "probed", "turnOn",
                          "shutDown", "restart", "detach", "unlock", "put", "returned"} \cup Kinds]
  /\ cursor \in [Requests -> 1..3]
  /\ held \in [Requests -> [Sims -> 0..2]]
  /\ idle \in [Sims -> 0..ChannelsPerSim]
  /\ powerMutex \in [Sims -> Requests \cup {NoOne}]
  /\ radioOn \subseteq Sims
  /\ unknown \subseteq Sims
  /\ answered \subseteq Requests

\* While the radio of both SIMs is being restarted by applySetRadioCapability,
\* no other request is between a look at the radio state of a SIM and its
\* change: requestRadioPower and requestSetEmergencyOnly wait for the mutex of
\* their SIM, a data call of either SIM is not torn down.
RestartIsAlone ==
  \A q \in Requests : pc[q] \in {"capability", "shutDown", "restart"} =>
    \A r \in Requests \ {q} :
      pc[r] \notin {"powerOn", "powerOff", "probe", "probing", "probed", "turnOn",
                    "emergency", "deactivate", "capability", "shutDown", "restart"}

\* A request that has returned has unlocked every mutex and put every channel it
\* got (putChannel at sprd_ril.c 438 and in the handlers), but for a channel of
\* the other SIM that applySetRadioCapability does not put after a command that
\* failed (ril_network.c 3084-3095, 3129-3140).
NothingKept ==
  \A r \in Requests : pc[r] = "returned" =>
    /\ \A m \in Sims : powerMutex[m] # r
    /\ held[r][SimOf[r]] = 0
    /\ held[r][Other(SimOf[r])] <= IF CommandsFail /\ KindOf[r] = "capability" THEN 1 ELSE 0

\* Every request is completed and its thread is free for the next one ("Must be
\* completed with a call to RIL_onRequestComplete()", sprd_ril.c 191).
EveryRequestCompleted == \A r \in Requests : <>(r \in answered /\ pc[r] = "returned")
=============================================================================
