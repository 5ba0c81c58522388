------------------------------ MODULE AsyncCmd ------------------------------
(***************************************************************************)
(* Requests that are answered by an unsolicited line of the modem, module  *)
(* sprd-ril/ril_async_cmd_handler.c, and the s_radioPowerMutex of the SIMs *)
(* that some of them hold until then.                                      *)
(*                                                                         *)
(* The thread of such a request puts an entry on s_timerList, sends the AT *)
(* command and returns when the modem accepts it.  The entry is used up by *)
(* the reader thread, when the line ("+SPTESTMODE:" or "+CLCK:") arrives,  *)
(* or by the timer thread, and whoever uses it up answers the request and, *)
(* for AT+SPTESTMODE, unlocks both mutexes that the request's thread had   *)
(* locked.  When the command fails, the request's own thread removes the   *)
(* entry, if it is still there, and does both itself in any case: a        *)
(* command that fails after its line came, or after its timer, is answered *)
(* once more, and the mutexes are unlocked once more.                      *)
(*                                                                         *)
(* Time is abstracted to an order: entries of one command time out in the  *)
(* order they were added, an AT+SPTESTMODE (120 s) never before the answer *)
(* to its command (at most 50 s), an AT+CLCK (10 s) perhaps before it.     *)
(* removeFromList reads the entry checkAndCompleteRequest has just freed;  *)
(* it is taken to find the old links there.                                *)
(***************************************************************************)
EXTENDS Naturals, Sequences, FiniteSets

CONSTANTS RIL_SOCKET_1, RIL_SOCKET_2,
          Requests,     \* the requests of one run
          SimOf,        \* [Requests -> Sims]
          KindOf,       \* [Requests -> Kinds]
          ThreadOf,     \* [Requests -> anything]: which thread runs it
          MaxRetries,   \* how often "+CME ERROR: 3" is retried; 3 in the code
          Free          \* a mutex nobody holds

Sims  == {RIL_SOCKET_1, RIL_SOCKET_2}
Kinds == {"radioCapability", "preferredNetwork", "facilityLock", "radioPower",
          "deactivateData"}

ASSUME AsyncCmdAssumption ==
    /\ SimOf \in [Requests -> Sims]
    /\ KindOf \in [Requests -> Kinds]
    /\ MaxRetries \in Nat
    /\ Free \notin Requests

Other(s) == IF s = RIL_SOCKET_1 THEN RIL_SOCKET_2 ELSE RIL_SOCKET_1

TestMode(r) == KindOf[r] \in {"radioCapability", "preferredNetwork"}
Async(r)    == TestMode(r) \/ KindOf[r] = "facilityLock"

\* The mutexes the thread of a request locks, in the order it locks them.
Locks(r) ==
    CASE TestMode(r)                   -> <<RIL_SOCKET_1, RIL_SOCKET_2>>
      [] KindOf[r] = "radioPower"      -> <<SimOf[r]>>
      [] KindOf[r] = "deactivateData"  -> <<Other(SimOf[r])>>
      [] KindOf[r] = "facilityLock"    -> <<>>

LockSet(r) == {Locks(r)[i] : i \in DOMAIN Locks(r)}

SameCommand(q, r) == Async(q) /\ Async(r) /\ (TestMode(q) <=> TestMode(r))

VARIABLES pc,           \* [Requests -> control state of its thread]
          locked,       \* [Requests -> Nat]: how many of Locks(r) it has locked
          held,         \* [Sims -> Requests \cup {Free}]: s_radioPowerMutex
          timerList,    \* Seq(Requests): entries waiting for their line
          pendingList,  \* Seq(Requests): timed-out entries not yet fired
          urcDue,       \* commands whose line the modem may still send
          retries,      \* [Requests -> 0 .. MaxRetries]
          completed,    \* [Requests -> Nat]: calls of RIL_onRequestComplete
          missed        \* history, [Requests -> Nat]: how often its own thread
                        \* came to remove the entry and found it used up

vars == <<pc, locked, held, timerList, pendingList, urcDue, retries, completed,
          missed>>

lockVars  == <<locked, held>>
listVars  == <<timerList, pendingList>>
doneVars  == <<completed, missed>>

Elements(s) == {s[i] : i \in DOMAIN s}

Init ==
    /\ pc = [r \in Requests |-> "new"]
    /\ locked = [r \in Requests |-> 0]
    /\ held = [s \in Sims |-> Free]
    /\ timerList = <<>>
    /\ pendingList = <<>>
    /\ urcDue = {}
    /\ retries = [r \in Requests |-> 0]
    /\ completed = [r \in Requests |-> 0]
    /\ missed = [r \in Requests |-> 0]

Move(r, from, to) == pc[r] = from /\ pc' = [pc EXCEPT ![r] = to]

Complete(r) ==
    /\ completed' = [completed EXCEPT ![r] = @ + 1]
    /\ UNCHANGED missed

\* pthread_mutex_unlock of a bionic mutex does not ask who locked it.
Unlock(S) == held' = [s \in Sims |-> IF s \in S THEN Free ELSE held[s]]

WithoutAt(s, i) == SubSeq(s, 1, i - 1) \o SubSeq(s, i + 1, Len(s))

(* Mutants of the actions below, used only to test the properties.         *)

\* The timer answers the request but leaves the two mutexes locked.
FireKeepsMutexes ==
    /\ pendingList # <<>>
    /\ pendingList' = Tail(pendingList)
    /\ Complete(Head(pendingList))
    /\ UNCHANGED <<pc, lockVars, timerList, urcDue, retries>>

\* The line unlocks both mutexes whether or not an entry waits for it.
LineIgnoresEntries(u) ==
    /\ u \in urcDue
    /\ urcDue' = urcDue \ {u}
    /\ IF TestMode(u) THEN Unlock(Sims) ELSE UNCHANGED held
    /\ \/ \E i \in DOMAIN timerList :
             /\ SimOf[timerList[i]] = SimOf[u]
             /\ SameCommand(timerList[i], u)
             /\ timerList' = WithoutAt(timerList, i)
             /\ Complete(timerList[i])
       \/ UNCHANGED <<timerList, doneVars>>
    /\ UNCHANGED <<pc, locked, pendingList, retries>>

\* The line completes the request but its entry stays, for the timer to fire.
LineKeepsEntry(u) ==
    /\ u \in urcDue
    /\ urcDue' = urcDue \ {u}
    /\ \E i \in DOMAIN timerList :
          /\ SameCommand(timerList[i], u)
          /\ Complete(timerList[i])
          /\ IF TestMode(u) THEN Unlock(Sims) ELSE UNCHANGED held
    /\ UNCHANGED <<pc, locked, listVars, retries>>

-----------------------------------------------------------------------------
(* The thread of a request, from onRequest to its return.                  *)

Returned(r) == pc[r] \in {"new", "sent", "done"}

\* A thread takes a request up when it has returned from the one before.
onRequest(r) ==
    /\ \A q \in Requests : ThreadOf[q] = ThreadOf[r] => Returned(q)
    /\ Move(r, "new", "start")
    /\ UNCHANGED <<lockVars, listVars, urcDue, retries, doneVars>>

\* The mutexes are locked one after the other.
lockNext(r) ==
    /\ pc[r] = "start"
    /\ locked[r] < Len(Locks(r))
    /\ held[Locks(r)[locked[r] + 1]] = Free
    /\ held' = [held EXCEPT ![Locks(r)[locked[r] + 1]] = r]
    /\ locked' = [locked EXCEPT ![r] = @ + 1]
    /\ UNCHANGED <<pc, listVars, urcDue, retries, doneVars>>

\* With its mutexes locked, a request that changes nothing, or whose data are
\* wrong, is answered without any AT command.
begin(r) ==
    /\ locked[r] = Len(Locks(r))
    /\ \/ Async(r) /\ Move(r, "start", "add")
       \/ TestMode(r) /\ Move(r, "start", "finish")
       \/ ~Async(r) /\ Move(r, "start", "run")
    /\ UNCHANGED <<lockVars, listVars, urcDue, retries, doneVars>>

\* RADIO_POWER, SET_EMERGENCY_ONLY and DEACTIVATE_DATA_CALL: the handler
\* answers the request, then the mutex is unlocked.
runLocked(r) ==
    /\ Move(r, "run", "unlock")
    /\ Complete(r)
    /\ UNCHANGED <<lockVars, listVars, urcDue, retries>>

addAsyncCmdList(r) ==
    /\ Move(r, "add", "send")
    /\ timerList' = Append(timerList, r)
    /\ UNCHANGED <<lockVars, pendingList, urcDue, retries, doneVars>>

at_send_command(r) ==
    /\ Move(r, "send", "waitAT")
    /\ urcDue' = urcDue \cup {r}
    /\ UNCHANGED <<lockVars, listVars, retries, doneVars>>

commandAccepted(r) ==
    /\ Move(r, "waitAT", "sent")
    /\ UNCHANGED <<lockVars, listVars, urcDue, retries, doneVars>>

\* The modem refuses: no line follows.  "+CME ERROR: 3" is tried again.
commandRefused(r) ==
    /\ \/ /\ TestMode(r)
          /\ retries[r] < MaxRetries
          /\ Move(r, "waitAT", "retry")
          /\ retries' = [retries EXCEPT ![r] = @ + 1]
       \/ /\ Move(r, "waitAT", "fail")
          /\ UNCHANGED retries
    /\ urcDue' = urcDue \ {r}
    /\ UNCHANGED <<lockVars, listVars, doneVars>>

\* No final response within the time-out of the AT channel: the modem may have
\* accepted the command and may still send its line.
commandTimesOut(r) ==
    /\ Move(r, "waitAT", "fail")
    /\ UNCHANGED <<lockVars, listVars, urcDue, retries, doneVars>>

\* Only s_timerList is searched; an entry that is not there is not missed.
removeAsyncCmdList(r) ==
    /\ \/ Move(r, "retry", "add")
       \/ Move(r, "fail", "finish")
    /\ \/ \E i \in DOMAIN timerList :
             /\ timerList[i] = r
             /\ \A j \in 1 .. i - 1 : timerList[j] # r
             /\ timerList' = WithoutAt(timerList, i)
             /\ UNCHANGED missed
       \/ /\ r \notin Elements(timerList)
          /\ missed' = [missed EXCEPT ![r] = @ + 1]
          /\ UNCHANGED timerList
    /\ UNCHANGED <<lockVars, pendingList, urcDue, retries, completed>>

\* SET_RADIO_CAPABILITY unlocks and then answers; the others answer first.
answerRequest(r) ==
    /\ \/ KindOf[r] = "radioCapability" /\ Move(r, "answer", "done")
       \/ KindOf[r] = "preferredNetwork" /\ Move(r, "finish", "unlock")
       \/ KindOf[r] = "facilityLock" /\ Move(r, "finish", "done")
    /\ Complete(r)
    /\ UNCHANGED <<lockVars, listVars, urcDue, retries>>

unlockMutexes(r) ==
    /\ \/ KindOf[r] = "radioCapability" /\ Move(r, "finish", "answer")
       \/ Move(r, "unlock", "done")
    /\ Unlock(LockSet(r))
    /\ UNCHANGED <<locked, listVars, urcDue, retries, doneVars>>

-----------------------------------------------------------------------------
(* The reader thread of the SIM of u gets the line for the command of u:   *)
(* the first entry of that SIM and command is used up, whoever's it is.    *)
checkAndCompleteRequest(u) ==
    /\ u \in urcDue
    /\ urcDue' = urcDue \ {u}
    /\ LET match == {i \in DOMAIN timerList :
                        /\ SimOf[timerList[i]] = SimOf[u]
                        /\ SameCommand(timerList[i], u)}
       IN  \/ \E i \in match :
                 /\ \A j \in match : i <= j
                 /\ timerList' = WithoutAt(timerList, i)
                 /\ Complete(timerList[i])
                 /\ IF TestMode(u) THEN Unlock(Sims) ELSE UNCHANGED held
           \/ match = {} /\ UNCHANGED <<timerList, held, doneVars>>
    /\ UNCHANGED <<pc, locked, pendingList, retries>>

(* The timer thread: expired entries are moved to s_pendingList under      *)
(* s_listMutex and fired without it.                                       *)
processTimeouts ==
    /\ \E i \in DOMAIN timerList :
          /\ \A j \in 1 .. i - 1 : ~SameCommand(timerList[j], timerList[i])
          /\ TestMode(timerList[i]) => pc[timerList[i]] = "sent"
          /\ timerList' = WithoutAt(timerList, i)
          /\ pendingList' = Append(pendingList, timerList[i])
    /\ UNCHANGED <<pc, lockVars, urcDue, retries, doneVars>>

userTimerCallback ==
    /\ pendingList # <<>>
    /\ pendingList' = Tail(pendingList)
    /\ IF TestMode(Head(pendingList)) THEN Unlock(Sims) ELSE UNCHANGED held
    /\ Complete(Head(pendingList))
    /\ UNCHANGED <<pc, locked, timerList, urcDue, retries>>

-----------------------------------------------------------------------------
requestThread(r) ==
    \/ lockNext(r) \/ begin(r) \/ runLocked(r)
    \/ addAsyncCmdList(r) \/ at_send_command(r)
    \/ commandAccepted(r) \/ commandRefused(r) \/ commandTimesOut(r)
    \/ removeAsyncCmdList(r) \/ answerRequest(r) \/ unlockMutexes(r)

Next ==
    \/ \E r \in Requests :
          onRequest(r) \/ requestThread(r) \/ checkAndCompleteRequest(r)
    \/ processTimeouts
    \/ userTimerCallback

Spec == Init /\ [][Next]_vars

(* The threads are scheduled and timers expire; the modem owes no line and *)
(* the framework no request.                                               *)
(* An AT command always ends, by its answer or by its time-out.            *)
FairSpec ==
    /\ Spec
    /\ \A r \in Requests : WF_vars(requestThread(r))
    /\ WF_vars(processTimeouts)
    /\ WF_vars(userTimerCallback)

-----------------------------------------------------------------------------
(* With its mutexes locked, until it, or whoever uses up its entry, unlocks *)
(* them, a request is inside the section its mutexes protect.              *)
Inside(r) ==
    \/ pc[r] \in {"run", "add", "finish", "unlock"}
    \/ r \in Elements(timerList) \cup Elements(pendingList)

\* No AT+SPTESTMODE has failed after its line.
NoneMissed == \A r \in Requests : TestMode(r) => missed[r] = 0

(* A change of the radio power never runs beside one of the working mode   *)
(* or of the same SIM's power: whoever is inside holds all its mutexes,    *)
(* although another thread unlocks them (ril_network.c:3461-3465 and       *)
(* 3197-3216, ril_async_cmd_handler.c:252-257) ... until an AT+SPTESTMODE  *)
(* fails after its line: its thread then goes on without the mutexes and   *)
(* unlocks them a second time, whoever holds them.  A late line that uses  *)
(* up the entry of the next command ends the section of that one early.    *)
RadioPowerExclusive ==
    NoneMissed => \A r \in Requests : Inside(r) => \A s \in LockSet(r) : held[s] = r

(* A request is answered once by line, timer or its own thread, and once   *)
(* more only for each time its own thread finds the entry used up (a       *)
(* command that fails after its line or timer, ril_network.c:1938-1951,    *)
(* ril_sim.c:1316-1322).                                                   *)
CompletedOnce == \A r \in Requests : completed[r] <= 1 + missed[r]

(* In the end every request taken up is answered, also when the modem      *)
(* never sends the line it waits for, and the mutexes are free: the thread *)
(* that locked them returned long ago, and the line or the timer has to    *)
(* unlock them.                                                            *)
EveryRequestCompleted ==
  <>[](/\ \A r \in Requests : pc[r] # "new" => completed[r] >= 1
       /\ \A s \in Sims : held[s] = Free)
=============================================================================
