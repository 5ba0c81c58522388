-------------------------- MODULE ModemLifecycle --------------------------
(***************************************************************************)
(* The AT channels of the SIMs over restarts of the modem: mainLoop, the   *)
(* reader threads and setRadioState (sprd-ril/sprd_ril.c, atchannel.c),    *)
(* detectModemState (channel_controller.c), initializeCallback on the      *)
(* thread of the timed callbacks, and request threads that hold a channel  *)
(* and change the radio state.  Commands are not modelled: a thread that   *)
(* holds a channel gives it back, since every send returns (AtChannel).    *)
(***************************************************************************)
EXTENDS Naturals, Sequences

CONSTANTS Sims,
          Threads,           \* request threads
          SimOf,             \* Threads -> Sims
          Channels,          \* the channels of a SIM that getChannel hands out
          MaxOpens,          \* bound: openings of the channels
          MaxMessages,       \* bound: messages from modemd
          MaxRequests        \* bound: requests of all threads

ASSUME LifecycleAssumption ==
  /\ SimOf \in [Threads -> Sims]
  /\ MaxOpens \in Nat \ {0}
  /\ {MaxMessages, MaxRequests} \subseteq Nat

Openings == 1..MaxOpens
None == "none"

VARIABLES s_modemState,      \* what detectModemState has heard
          modemUp,           \* the modem itself
          s_closed, readerClosed, s_radioState,
          s_channelOpen, channelState,
          wakeup,            \* the wakeup pipe of the current opening
          opens,             \* openings of the channels so far
          mainLoop,          \* where mainLoop is
          reader,            \* the reader thread of each opening and the channel it holds
          callbacks,         \* SIMs whose initializeCallback is due
          eventLoop,         \* the thread that runs the callbacks
          thread,            \* the request threads
          initialised,       \* history: the opening whose initializeCallback set the state
          calm,              \* history: modemd has spoken to a RIL at rest only
          messages, requests \* counters

vars == <<s_modemState, modemUp, s_closed, readerClosed, s_radioState, s_channelOpen,
          channelState, wakeup, opens, mainLoop, reader, callbacks, eventLoop,
          thread, initialised, calm, messages, requests>>

At(pc, ch) == [pc |-> pc, ch |-> ch]

Init ==
  /\ s_modemState = "ALIVE" /\ modemUp = TRUE
  /\ s_closed = [s \in Sims |-> FALSE]
  /\ readerClosed = [s \in Sims |-> FALSE]
  /\ s_radioState = [s \in Sims |-> "UNAVAILABLE"]
  /\ s_channelOpen = [s \in Sims |-> FALSE]
  /\ channelState = [s \in Sims |-> [c \in Channels |-> "BUSY"]]
  /\ wakeup = [s \in Sims |-> "none"]
  /\ opens = [s \in Sims |-> 0]
  /\ mainLoop = [s \in Sims |-> "init"]
  /\ reader = [s \in Sims |-> [g \in Openings |-> At("none", None)]]
  /\ callbacks = <<>>
  /\ eventLoop = At("idle", None)
  /\ thread = [t \in Threads |-> At("idle", None)]
  /\ initialised = [s \in Sims |-> 0]
  /\ calm = TRUE /\ messages = 0 /\ requests = 0

-----------------------------------------------------------------------------
(* Channels and the radio state. *)

getChannel(s, c) ==
  /\ s_channelOpen[s] /\ channelState[s][c] = "IDLE"
  /\ channelState' = [channelState EXCEPT ![s][c] = "BUSY"]

putChannel(s, c) == channelState' = [channelState EXCEPT ![s][c] = "IDLE"]

(* Mutant: late requests may set the state of closed channels. *)
SetsAnyState(s, state) ==
  /\ s_radioState' = [s_radioState EXCEPT ![s] = state]
  /\ mainLoop' = IF mainLoop[s] = "asleep" THEN [mainLoop EXCEPT ![s] = "check"] ELSE mainLoop

(* Mutant: no broadcast when the state stays what it is. *)
SilentWhenSame(s, state) ==
  LET newState == IF s_closed[s] THEN "UNAVAILABLE" ELSE state IN
  /\ s_radioState' = [s_radioState EXCEPT ![s] = newState]
  /\ mainLoop' = IF s_radioState[s] # newState /\ mainLoop[s] = "asleep"
                 THEN [mainLoop EXCEPT ![s] = "check"] ELSE mainLoop

(* The broadcast wakes waitForClose. *)
setRadioState(s, state) ==
  LET newState == IF s_closed[s] THEN "UNAVAILABLE" ELSE state IN
  /\ s_radioState' = [s_radioState EXCEPT ![s] = newState]
  /\ mainLoop' = IF /\ s_radioState[s] # newState \/ s_closed[s]
                    /\ mainLoop[s] = "asleep"
                 THEN [mainLoop EXCEPT ![s] = "check"] ELSE mainLoop

-----------------------------------------------------------------------------
(* mainLoop *)

init_channels(s) ==
  /\ mainLoop[s] = "init" /\ opens[s] < MaxOpens
  /\ mainLoop' = [mainLoop EXCEPT ![s] = "open"]
  /\ s_closed' = [s_closed EXCEPT ![s] = FALSE]
  /\ opens' = [opens EXCEPT ![s] = @ + 1]
  /\ wakeup' = [wakeup EXCEPT ![s] = "open"]
  /\ UNCHANGED <<s_modemState, modemUp, readerClosed, s_radioState, s_channelOpen,
                 channelState, reader, callbacks, eventLoop, thread, initialised,
                 calm, messages, requests>>

(* setChannelInfo and at_open of every channel, after as many tries as it  *)
(* takes, then setChannelOpened.                                           *)
at_open(s) ==
  /\ mainLoop[s] = "open"
  /\ mainLoop' = [mainLoop EXCEPT ![s] = "start"]
  /\ channelState' = [channelState EXCEPT ![s] = [c \in Channels |-> "IDLE"]]
  /\ s_channelOpen' = [s_channelOpen EXCEPT ![s] = TRUE]
  /\ UNCHANGED <<s_modemState, modemUp, s_closed, readerClosed, s_radioState, wakeup,
                 opens, reader, callbacks, eventLoop, thread, initialised,
                 calm, messages, requests>>

start_reader(s) ==
  /\ mainLoop[s] = "start"
  /\ mainLoop' = [mainLoop EXCEPT ![s] = "check"]
  /\ readerClosed' = [readerClosed EXCEPT ![s] = FALSE]
  /\ reader' = [reader EXCEPT ![s][opens[s]] = At("loop", None)]
  /\ callbacks' = Append(callbacks, s)
  /\ UNCHANGED <<s_modemState, modemUp, s_closed, s_radioState, s_channelOpen,
                 channelState, wakeup, opens, eventLoop, thread, initialised,
                 calm, messages, requests>>

(* Mutant: one of the two conditions is enough. *)
EitherReopens(s) == s_closed[s] \/ s_modemState = "ALIVE"

mayReopen(s) == s_closed[s] /\ s_modemState = "ALIVE"

waitForClose(s) ==
  /\ mainLoop[s] = "check"
  /\ mainLoop' = [mainLoop EXCEPT ![s] = IF mayReopen(s) THEN "init" ELSE "asleep"]
  /\ UNCHANGED <<s_modemState, modemUp, s_closed, readerClosed, s_radioState,
                 s_channelOpen, channelState, wakeup, opens, reader, callbacks,
                 eventLoop, thread, initialised, calm, messages, requests>>

MainLoop(s) == init_channels(s) \/ at_open(s) \/ start_reader(s) \/ waitForClose(s)

-----------------------------------------------------------------------------
(* The reader thread of opening g: readerLoop and onReaderClosed. *)

ReaderGoes(s, g, pc, c) == reader' = [reader EXCEPT ![s][g] = At(pc, c)]

(* Mutant: the reader empties the pipe and goes on reading. *)
DrainsPipe(s, g) ==
  /\ reader[s][g].pc = "loop" /\ g = opens[s] /\ wakeup[s] = "written"
  /\ wakeup' = [wakeup EXCEPT ![s] = "open"]
  /\ UNCHANGED <<s_modemState, modemUp, s_closed, readerClosed, s_radioState, s_channelOpen,
                 channelState, opens, mainLoop, reader, callbacks, eventLoop, thread,
                 initialised, calm, messages, requests>>

readerLoop(s, g) ==
  /\ reader[s][g].pc = "loop" /\ g = opens[s] /\ wakeup[s] = "written"
  /\ wakeup' = [wakeup EXCEPT ![s] = "open"]
  /\ ReaderGoes(s, g, IF readerClosed[s] THEN "close" ELSE "closing", None)
  /\ readerClosed' = [readerClosed EXCEPT ![s] = TRUE]
  /\ UNCHANGED <<s_modemState, modemUp, s_closed, s_radioState, s_channelOpen,
                 channelState, opens, mainLoop, callbacks, eventLoop, thread,
                 initialised, calm, messages, requests>>

(* onATReaderClosed closes the channels and says so without a lock, ...    *)
onATReaderClosed(s, g) ==
  /\ reader[s][g].pc = "closing"
  /\ s_closed' = [s_closed EXCEPT ![s] = TRUE]
  /\ ReaderGoes(s, g, "getChannel", None)
  /\ UNCHANGED <<s_modemState, modemUp, readerClosed, s_radioState, s_channelOpen,
                 channelState, wakeup, opens, mainLoop, callbacks, eventLoop,
                 thread, initialised, calm, messages, requests>>

(* ... then waits for a channel, only to name the SIM to setRadioState.    *)
readerGetsChannel(s, g) ==
  /\ reader[s][g].pc = "getChannel"
  /\ \E c \in Channels : getChannel(s, c) /\ ReaderGoes(s, g, "setRadioState", c)
  /\ UNCHANGED <<s_modemState, modemUp, s_closed, readerClosed, s_radioState,
                 s_channelOpen, wakeup, opens, mainLoop, callbacks, eventLoop,
                 thread, initialised, calm, messages, requests>>

readerSetsState(s, g) ==
  /\ reader[s][g].pc = "setRadioState"
  /\ setRadioState(s, "UNAVAILABLE")
  /\ ReaderGoes(s, g, "putChannel", reader[s][g].ch)
  /\ UNCHANGED <<s_modemState, modemUp, s_closed, readerClosed, s_channelOpen,
                 channelState, wakeup, opens, callbacks, eventLoop, thread,
                 initialised, calm, messages, requests>>

readerPutsChannel(s, g) ==
  /\ reader[s][g].pc = "putChannel"
  /\ putChannel(s, reader[s][g].ch)
  /\ ReaderGoes(s, g, "close", None)
  /\ UNCHANGED <<s_modemState, modemUp, s_closed, readerClosed, s_radioState,
                 s_channelOpen, wakeup, opens, mainLoop, callbacks, eventLoop,
                 thread, initialised, calm, messages, requests>>

(* The pipe is found in globals: close(2), then -1 in both of them.  If    *)
(* init_channels was there in between, it is the pipe of the next opening. *)
closeWakeupPipe(s, g) ==
  /\ reader[s][g].pc \in {"close", "forget"}
  /\ wakeup' = [wakeup EXCEPT ![s] = IF g = opens[s] THEN "none" ELSE "lost"]
  /\ ReaderGoes(s, g, IF reader[s][g].pc = "close" THEN "forget" ELSE "dead", None)
  /\ UNCHANGED <<s_modemState, modemUp, s_closed, readerClosed, s_radioState,
                 s_channelOpen, channelState, opens, mainLoop, callbacks,
                 eventLoop, thread, initialised, calm, messages, requests>>

Reader(s, g) ==
  \/ readerLoop(s, g) \/ onATReaderClosed(s, g) \/ readerGetsChannel(s, g)
  \/ readerSetsState(s, g) \/ readerPutsChannel(s, g) \/ closeWakeupPipe(s, g)

-----------------------------------------------------------------------------
(* initializeCallback, one SIM after the other. *)

dueSim == Head(callbacks)

callbackGetsChannel ==
  /\ eventLoop.pc = "idle" /\ callbacks # <<>>
  /\ \E c \in Channels : getChannel(dueSim, c) /\ eventLoop' = At("setRadioState", c)
  /\ UNCHANGED <<s_modemState, modemUp, s_closed, readerClosed, s_radioState,
                 s_channelOpen, wakeup, opens, mainLoop, reader, callbacks,
                 thread, initialised, calm, messages, requests>>

(* Mutant: the state is left to the end of the callback. *)
StateComesLast ==
  /\ eventLoop.pc = "setRadioState"
  /\ initialised' = [initialised EXCEPT ![dueSim] = opens[dueSim]]
  /\ eventLoop' = At("commands", eventLoop.ch)
  /\ UNCHANGED <<s_modemState, modemUp, s_closed, readerClosed, s_radioState,
                 s_channelOpen, channelState, wakeup, opens, mainLoop, reader,
                 callbacks, thread, calm, messages, requests>>

callbackSetsState ==
  /\ eventLoop.pc = "setRadioState"
  /\ setRadioState(dueSim, "OFF")
  /\ initialised' = [initialised EXCEPT ![dueSim] = opens[dueSim]]
  /\ eventLoop' = At("commands", eventLoop.ch)
  /\ UNCHANGED <<s_modemState, modemUp, s_closed, readerClosed, s_channelOpen,
                 channelState, wakeup, opens, reader, callbacks, thread, calm, messages,
                 requests>>

(* The commands that follow may find that the radio is on. *)
callbackReturns ==
  /\ eventLoop.pc = "commands"
  /\ setRadioState(dueSim, "ON") \/ UNCHANGED <<s_radioState, mainLoop>>
  /\ putChannel(dueSim, eventLoop.ch)
  /\ callbacks' = Tail(callbacks)
  /\ eventLoop' = At("idle", None)
  /\ UNCHANGED <<s_modemState, modemUp, s_closed, readerClosed, s_channelOpen,
                 wakeup, opens, reader, thread, initialised, calm, messages, requests>>

EventLoop == callbackGetsChannel \/ callbackSetsState \/ callbackReturns

-----------------------------------------------------------------------------
(* Request threads: RADIO_POWER and the like. *)

threadGetsChannel(t) ==
  /\ thread[t].pc = "idle" /\ requests < MaxRequests
  /\ requests' = requests + 1
  /\ \E c \in Channels : /\ getChannel(SimOf[t], c)
                         /\ thread' = [thread EXCEPT ![t] = At("commands", c)]
  /\ UNCHANGED <<s_modemState, modemUp, s_closed, readerClosed, s_radioState,
                 s_channelOpen, wakeup, opens, mainLoop, reader, callbacks,
                 eventLoop, initialised, calm, messages>>

threadSetsState(t) ==
  /\ thread[t].pc = "commands"
  /\ \E state \in {"OFF", "ON"} : setRadioState(SimOf[t], state)
  /\ thread' = [thread EXCEPT ![t].pc = "putChannel"]
  /\ UNCHANGED <<s_modemState, modemUp, s_closed, readerClosed, s_channelOpen,
                 channelState, wakeup, opens, reader, callbacks, eventLoop,
                 initialised, calm, messages, requests>>

threadPutsChannel(t) ==
  /\ thread[t].pc \in {"commands", "putChannel"}
  /\ putChannel(SimOf[t], thread[t].ch)
  /\ thread' = [thread EXCEPT ![t] = At("idle", None)]
  /\ UNCHANGED <<s_modemState, modemUp, s_closed, readerClosed, s_radioState,
                 s_channelOpen, wakeup, opens, mainLoop, reader, callbacks,
                 eventLoop, initialised, calm, messages, requests>>

RequestThread(t) == threadGetsChannel(t) \/ threadSetsState(t) \/ threadPutsChannel(t)

-----------------------------------------------------------------------------
(* detectModemState, one message of modemd at a time. *)

Settled(s) ==
  /\ mainLoop[s] = "asleep"
  /\ \A g \in Openings : reader[s][g].pc \in {"none", "loop", "dead"}
  /\ wakeup[s] \in {"none", "open"}
  /\ \A t \in Threads : SimOf[t] = s => thread[t].pc = "idle"

receive ==
  /\ messages < MaxMessages
  /\ messages' = messages + 1
  /\ calm' = (calm /\ \A s \in Sims : Settled(s))
  /\ UNCHANGED <<s_closed, readerClosed, s_radioState, s_channelOpen, channelState,
                 opens, reader, callbacks, eventLoop, thread, initialised, requests>>

FirstSim == CHOOSE s \in Sims : TRUE \* RIL_SOCKET_1: the SIMs are interchangeable

(* A write to a pipe that was closed or forgotten wakes nobody. *)
wakeReaders(woken) ==
  wakeup' = [s \in Sims |-> IF s \in woken /\ wakeup[s] = "open" THEN "written" ELSE wakeup[s]]

modemAsserts ==                      \* "Modem Assert", "Modem Blocked"
  /\ modemUp /\ receive
  /\ modemUp' = FALSE /\ s_modemState' = "OFFLINE"
  /\ wakeReaders(Sims)
  /\ UNCHANGED mainLoop

modemResets ==                       \* "Modem Reset"
  /\ receive
  /\ modemUp' = FALSE
  /\ s_modemState' = IF readerClosed[FirstSim] THEN s_modemState ELSE "OFFLINE"
  /\ wakeReaders({s \in Sims : ~readerClosed[s]})
  /\ UNCHANGED mainLoop

modemAlive ==                        \* "Modem HandShake Success"
  /\ ~modemUp /\ receive
  /\ modemUp' = TRUE /\ s_modemState' = "ALIVE"
  /\ mainLoop' = [s \in Sims |-> IF mainLoop[s] = "asleep" THEN "check" ELSE mainLoop[s]]
  /\ UNCHANGED wakeup

Modem == modemAsserts \/ modemResets \/ modemAlive

Next ==
  \/ \E s \in Sims : MainLoop(s) \/ \E g \in Openings : Reader(s, g)
  \/ EventLoop
  \/ \E t \in Threads : RequestThread(t)
  \/ Modem

Spec == Init /\ [][Next]_vars

(* Every thread of the RIL runs on; the modem and the framework need not.  *)
(* A thread that holds a channel gives it back since every send returns.   *)
FairSpec ==
  /\ Spec
  /\ \A s \in Sims : /\ WF_vars(MainLoop(s))
                     /\ \A g \in Openings : WF_vars(Reader(s, g))
  /\ WF_vars(EventLoop)
  /\ \A t \in Threads : WF_vars(threadPutsChannel(t))

-----------------------------------------------------------------------------
(* "If we're closed, the only reasonable state is RADIO_STATE_UNAVAILABLE":*)
(* once the reader has said so, requests that are still under way do not   *)
(* change it before the channels are opened again.                         *)
UnavailableWhileClosed ==
  \A s \in Sims : s_closed[s] /\ reader[s][opens[s]].pc \in {"putChannel", "close", "forget", "dead"}
                    => s_radioState[s] = "UNAVAILABLE"

(* "for notify readerLoop to get out of select, process modem assert"      *)
(* (atchannel.c:634): the channels of a SIM have one reader, it is the one *)
(* of the last opening, and the pipe it selects on is the one that         *)
(* detectModemState writes.                                                *)
ReaderCanBeWoken ==
  \A s \in Sims, g \in Openings :
    reader[s][g].pc = "loop" => g = opens[s] /\ wakeup[s] \in {"open", "written"}

(* It is so for as long as the modem has not come back before the reader   *)
(* that leaves has left: onReaderClosed (atchannel.c:403-432) would close  *)
(* the pipe of the next one.                                               *)
CalmReaderCanBeWoken == calm => ReaderCanBeWoken

(* Channels that were closed are opened again when the modem is alive,     *)
(* whichever of the two came first and whoever was told.                   *)
Reopens == \A s \in Sims : (s_closed[s] /\ s_modemState = "ALIVE")
                             ~> (~s_closed[s] \/ s_modemState = "OFFLINE" \/ opens[s] = MaxOpens)

(* "the reader thread should eventually die" (atchannel.c:756): not when    *)
(* the modem that it reads from has gone.                                  *)
ReaderDies == \A s \in Sims, g \in Openings :
                (reader[s][g].pc = "loop" /\ ~modemUp) ~> (reader[s][g].pc # "loop" \/ ~calm)

(* "Ignore unsolicited responses until we're initialized": afterwards they *)
(* are handled for as long as the channels are open, if the reader of the  *)
(* opening before had left when the modem came back.                       *)
InitialisedIsHeard ==
  \A s \in Sims : (calm /\ initialised[s] = opens[s] /\ initialised[s] > 0 /\ ~s_closed[s]
                   /\ reader[s][opens[s]].pc = "loop")
                     => s_radioState[s] # "UNAVAILABLE"

=============================================================================
