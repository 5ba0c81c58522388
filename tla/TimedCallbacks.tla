---------------------------- MODULE TimedCallbacks ----------------------------
(***************************************************************************)
(* ril_event.cpp and the part of ril.cpp that lives on it: the event loop  *)
(* of rild, the timed callbacks that any thread may request and the wake   *)
(* lock that an indication holds until such a callback releases it.        *)
(*                                                                         *)
(* listMutex protects the list of timers; the loop looks at it once more   *)
(* without, to know how long it may sleep.  Nothing protects               *)
(* s_last_wake_timeout_info, which the threads of all SIMs and the loop    *)
(* read and write (RIL_VERSION is 12: the paths with a mutex are for 13    *)
(* and later).  A step is a critical section of listMutex, an access to    *)
(* that variable or to what it points at, or a system call.                *)
(*                                                                         *)
(* Time: a timer knows how long it still has to wait; -1 is any time after *)
(* its timeout.  Left out: the watch table, which holds the wakeup pipe    *)
(* and nothing else, a failing select, and the payload of an indication    *)
(* with its lock (HidlIndications).                                        *)
(*                                                                         *)
(* Init, Next and Spec have names of their own: LibrilProofs extends this  *)
(* module and PendingRequests, the two state machines of libril.           *)
(***************************************************************************)
EXTENDS Integers, SequencesExt

CONSTANTS
  Threads,      \* that call RIL_requestTimedCallback and RIL_onUnsolicitedResponse
  Readers,      \* those of them that hear the network time from the modem
  EventLoop,    \* s_tid_dispatch, whose user callbacks call them too
  Infos,        \* the addresses that calloc may give a UserCallbackInfo
  Wakeup,       \* s_wakeupfd_event, which is pending like a timer
  NULL,
  Delays,       \* of user callbacks; 0 is a NULL relativeTime
  WakeTimeout,  \* TIMEVAL_WAKE_TIMEOUT
  MaxCalls      \* bound on the calls of these two functions

ASSUME TimersAssumption ==
  /\ WakeTimeout \in Nat /\ Delays \subseteq Nat /\ Infos \subseteq Nat
  /\ Wakeup \notin Infos /\ NULL \notin Infos

Callers == Threads \cup {EventLoop}
Forever == -1

VARIABLES
  info,         \* the UserCallbackInfos: free, or of which kind, and userParam # NULL
  remaining,    \* timeout of info[].event, less the time that is now
  timer_list,
  pending_list,
  pipe,         \* the wakeup pipe holds a byte
  loop,         \* ril_event_loop: where it is, select's timeout and result, the info it runs
  thread,       \* where a caller is, with p_info and the value of s_last_wake_timeout_info it read
  s_last_wake_timeout_info,
  held,         \* the wake lock ANDROID_WAKE_LOCK_NAME
  calls,        \* how many there have been
  before,       \* the pairs of callbacks of which the first is due before the second
  happened      \* what has gone on, for the properties (see below)

timers == <<info, remaining, timer_list, before>>
wakeLock == <<s_last_wake_timeout_info, held>>
callbackVars == <<timers, pending_list, pipe, loop, thread, wakeLock, calls, happened>>

Free == [kind |-> "free", cancelled |-> FALSE]
Rest == [pc |-> "rest", kind |-> "none", p_info |-> NULL, last |-> NULL]

\* The client is not connected: an indication of the network time is to be kept.
Copying == [pc |-> "copy", kind |-> "wake", p_info |-> NULL, last |-> NULL]

CallbacksInit ==
  /\ info = [p \in Infos |-> Free]
  /\ remaining = [p \in Infos |-> -1]
  /\ timer_list = <<>>
  /\ pending_list = <<>>
  /\ pipe \in BOOLEAN        \* rilEventAddWakeup has written to it if pthread_create had not
                             \* stored s_tid_dispatch yet
  /\ loop = [pc |-> "top", timeout |-> Forever, ready |-> FALSE, p_info |-> NULL]
  /\ thread = [t \in Callers |-> Rest]
  /\ s_last_wake_timeout_info = NULL
  /\ held = FALSE
  /\ calls = 0
  /\ before = {}
  /\ happened = {}

Queued == ToSet(timer_list) \cup (ToSet(pending_list) \ {Wakeup})

-----------------------------------------------------------------------------
(* What has happened, where s_last_wake_timeout_info does not serve its    *)
(* purpose:                                                                *)
(*   overlap   two indications have been under way at once                 *)
(*   early     the callback of a wake timer has run during an indication   *)
(*   noMemory  an indication got no memory for its timer or its copy       *)

indicating == {t \in Callers : thread[t].kind = "wake"}

inWakeCallback == loop.pc \in {"forget", "clear", "free"} /\ info[loop.p_info].kind = "wake"

startsIndication ==
  happened' = happened \cup {h \in {"overlap"} : indicating # {}}
                       \cup {h \in {"early"} : inWakeCallback}

-----------------------------------------------------------------------------
(* Requests for a callback.                                                *)

\* how many timers there are in front of the first that is not due before delay
earlier(delay) ==
  LET later == {i \in DOMAIN timer_list : remaining[timer_list[i]] >= delay}
  IN  IF later = {} THEN Len(timer_list) ELSE (CHOOSE i \in later : \A j \in later : i <= j) - 1

\* Mutant: behind the last timer.
insertLast(p, delay) == Append(timer_list, p)

\* in front of the first timer that is not earlier
insertSorted(p, delay) == InsertAt(timer_list, earlier(delay) + 1, p)

\* calloc and ril_timer_add.  The addresses are alike: calloc gives the lowest
\* that is free, which was in use a moment ago, and fails when there is none.
addTimer(p, kind, delay) ==
  /\ info[p].kind = "free" /\ \A q \in Infos : info[q].kind = "free" => p <= q
  /\ info' = [info EXCEPT ![p] = [Free EXCEPT !.kind = kind]]
  /\ remaining' = [remaining EXCEPT ![p] = delay]
  /\ timer_list' = insertSorted(p, delay)
  /\ before' = before \cup {<<q, p>> : q \in {r \in Queued : remaining[r] < delay}}
                      \cup {<<p, q>> : q \in {r \in Queued : remaining[r] > delay}}

\* a thread of the RIL between two calls, or a user callback in the event loop
mayCall(t) == thread[t].pc = "rest" /\ calls < MaxCalls /\ (t = EventLoop => loop.pc = "callback")

RIL_requestTimedCallback(t) ==
  /\ mayCall(t)
  /\ \E p \in Infos, delay \in Delays :
       /\ addTimer(p, "user", delay)
       /\ thread' = [thread EXCEPT ![t] = [Rest EXCEPT !.pc = "trigger", !.kind = "user", !.p_info = p]]
  /\ calls' = calls + 1
  /\ UNCHANGED <<pending_list, pipe, loop, wakeLock, happened>>

\* Mutant: no thread writes to the pipe.
triggersNothing(t) ==
  /\ thread[t].pc = "trigger"
  /\ thread' = [thread EXCEPT ![t] = IF @.kind = "user" THEN Rest ELSE [@ EXCEPT !.pc = "scheduled"]]
  /\ UNCHANGED <<timers, pending_list, pipe, loop, wakeLock, calls, happened>>

\* in the event loop the thread itself calculates the next timeout anew
triggerEvLoop(t) ==
  /\ thread[t].pc = "trigger"
  /\ pipe' = (pipe \/ t # EventLoop)
  /\ thread' = [thread EXCEPT ![t] = IF @.kind = "user" THEN Rest ELSE [@ EXCEPT !.pc = "scheduled"]]
  /\ UNCHANGED <<timers, pending_list, loop, wakeLock, calls, happened>>

-----------------------------------------------------------------------------
(* An indication that wakes the client.                                    *)

\* grabPartialWakeLock; the indication is sent
RIL_onUnsolicitedResponse(t) ==
  /\ mayCall(t)
  /\ held' = TRUE
  /\ thread' = [thread EXCEPT ![t] = [Rest EXCEPT !.pc = "grabbed", !.kind = "wake"]]
  /\ calls' = calls + 1
  /\ startsIndication
  /\ UNCHANGED <<timers, pending_list, pipe, loop, s_last_wake_timeout_info>>

scheduleTimeout(t) ==
  /\ thread[t].pc = "grabbed"
  /\ \E p \in Infos :
       /\ addTimer(p, "wake", WakeTimeout)
       /\ thread' = [thread EXCEPT ![t].pc = "trigger", ![t].p_info = p]
  /\ UNCHANGED <<pending_list, pipe, loop, wakeLock, calls, happened>>

\* error_exit: releaseWakeLock, for want of a timer or of a copy of the indication
outOfMemory(t) ==
  /\ thread[t].pc \in {"grabbed", "copy"}
  /\ held' = FALSE
  /\ thread' = [thread EXCEPT ![t] = Rest]
  /\ happened' = happened \cup {"noMemory"}
  /\ UNCHANGED <<timers, pending_list, pipe, loop, s_last_wake_timeout_info, calls>>

readLast(t) ==
  /\ thread[t].pc = "scheduled"
  /\ thread' = [thread EXCEPT
       ![t].last = s_last_wake_timeout_info,
       ![t].pc = IF s_last_wake_timeout_info = NULL THEN "store" ELSE "cancel"]
  /\ UNCHANGED <<timers, pending_list, pipe, loop, wakeLock, calls, happened>>

\* Mutant: the timer of the previous indication goes on.
cancelNothing(t) ==
  /\ thread[t].pc = "cancel"
  /\ thread' = [thread EXCEPT ![t].pc = "store"]
  /\ UNCHANGED <<timers, pending_list, pipe, loop, wakeLock, calls, happened>>

\* userParam = 1, whatever is at that address by now
cancelLast(t) ==
  /\ thread[t].pc = "cancel"
  /\ info' = [info EXCEPT ![thread[t].last].cancelled = (info[thread[t].last].kind # "free")]
  /\ thread' = [thread EXCEPT ![t].pc = "store"]
  /\ UNCHANGED <<remaining, timer_list, before, pending_list, pipe, loop, wakeLock, calls, happened>>

\* What follows is invisible, unless a copy of the network time is wanted and
\* fails for want of memory.
storeLast(t) ==
  /\ thread[t].pc = "store"
  /\ s_last_wake_timeout_info' = thread[t].p_info
  /\ \E next \in {Rest, Copying} :
       /\ next = Copying => t \in Readers
       /\ thread' = [thread EXCEPT ![t] = next]
  /\ UNCHANGED <<timers, pending_list, pipe, loop, held, calls, happened>>

-----------------------------------------------------------------------------
(* The event loop.                                                         *)

\* without listMutex
calcNextTimeout ==
  /\ loop.pc = "top"
  /\ loop' = [loop EXCEPT
       !.pc = "select",
       !.timeout = IF timer_list = <<>> THEN Forever
                   ELSE IF remaining[Head(timer_list)] > 0 THEN remaining[Head(timer_list)] ELSE 0]
  /\ UNCHANGED <<timers, pending_list, pipe, thread, wakeLock, calls, happened>>

select ==
  /\ loop.pc = "select"
  /\ pipe \/ loop.timeout = 0
  /\ loop' = [loop EXCEPT !.pc = "selected", !.timeout = Forever, !.ready = pipe]
  /\ UNCHANGED <<timers, pending_list, pipe, thread, wakeLock, calls, happened>>

\* expired timers, up to the first that is not (now has to be past the timeout)
expired == earlier(0)

\* processTimeouts and processReadReadies, which adds the wakeup event behind the timers
processTimeouts ==
  /\ loop.pc = "selected"
  /\ timer_list' = SubSeq(timer_list, expired + 1, Len(timer_list))
  /\ pending_list' = SubSeq(timer_list, 1, expired) \o (IF loop.ready THEN <<Wakeup>> ELSE <<>>)
  /\ loop' = [loop EXCEPT !.pc = "fire", !.ready = FALSE]
  /\ UNCHANGED <<info, remaining, before, pipe, thread, wakeLock, calls, happened>>

\* the function of the first pending event is called
firePending ==
  /\ loop.pc = "fire"
  /\ pending_list # <<>>
  /\ pending_list' = Tail(pending_list)
  /\ LET p == Head(pending_list) IN
       \/ /\ p = Wakeup                    \* processWakeupCallback
          /\ pipe' = FALSE
          /\ UNCHANGED <<before, loop, held, happened>>
       \/ /\ p # Wakeup /\ info[p].kind = "wake"
          /\ held' = (held /\ info[p].cancelled)   \* wakeTimeoutCallback
          /\ happened' = happened \cup {h \in {"early"} : indicating # {}}
          /\ loop' = [loop EXCEPT !.pc = "forget", !.p_info = p]
          /\ before' = {b \in before : p \notin {b[1], b[2]}}
          /\ UNCHANGED pipe
       \/ /\ p # Wakeup /\ info[p].kind = "user"
          /\ loop' = [loop EXCEPT !.pc = "callback", !.p_info = p]
          /\ before' = {b \in before : p \notin {b[1], b[2]}}
          /\ UNCHANGED <<pipe, held, happened>>
  /\ UNCHANGED <<info, remaining, timer_list, thread, s_last_wake_timeout_info, calls>>

nothingPending ==
  /\ loop.pc = "fire"
  /\ pending_list = <<>>
  /\ loop' = [loop EXCEPT !.pc = "top"]
  /\ UNCHANGED <<timers, pending_list, pipe, thread, wakeLock, calls, happened>>

callbackReturns ==
  /\ loop.pc = "callback"
  /\ thread[EventLoop] = Rest
  /\ loop' = [loop EXCEPT !.pc = "forget"]
  /\ UNCHANGED <<timers, pending_list, pipe, thread, wakeLock, calls, happened>>

isLast ==
  /\ loop.pc = "forget"
  /\ loop' = [loop EXCEPT !.pc = IF s_last_wake_timeout_info = loop.p_info THEN "clear" ELSE "free"]
  /\ UNCHANGED <<timers, pending_list, pipe, thread, wakeLock, calls, happened>>

clearLast ==
  /\ loop.pc = "clear"
  /\ s_last_wake_timeout_info' = NULL
  /\ loop' = [loop EXCEPT !.pc = "free"]
  /\ UNCHANGED <<timers, pending_list, pipe, thread, held, calls, happened>>

freeInfo ==
  /\ loop.pc = "free"
  /\ info' = [info EXCEPT ![loop.p_info] = Free]
  /\ remaining' = [remaining EXCEPT ![loop.p_info] = -1]
  /\ loop' = [loop EXCEPT !.pc = "fire", !.p_info = NULL]
  /\ UNCHANGED <<timer_list, before, pending_list, pipe, thread, wakeLock, calls, happened>>

\* time passes, for the timers and for select
Tick ==
  LET less(n) == IF n > 0 THEN n - 1 ELSE n IN
  /\ \/ \E p \in Queued : remaining[p] >= 0
     \/ loop.pc = "select" /\ loop.timeout > 0
  /\ remaining' = [p \in Infos |-> IF remaining[p] >= 0 THEN remaining[p] - 1 ELSE -1]
  /\ loop' = [loop EXCEPT !.timeout = less(@)]
  /\ UNCHANGED <<info, timer_list, before, pending_list, pipe, thread, wakeLock, calls, happened>>

-----------------------------------------------------------------------------
ril_event_loop ==
  \/ calcNextTimeout \/ select \/ processTimeouts \/ firePending \/ nothingPending
  \/ callbackReturns \/ isLast \/ clearLast \/ freeInfo

continues(t) ==
  triggerEvLoop(t) \/ scheduleTimeout(t) \/ outOfMemory(t) \/ readLast(t) \/ cancelLast(t) \/ storeLast(t)

CallbacksNext ==
  \/ ril_event_loop
  \/ \E t \in Callers : RIL_requestTimedCallback(t) \/ RIL_onUnsolicitedResponse(t) \/ continues(t)
  \/ Tick

CallbacksSpec == CallbacksInit /\ [][CallbacksNext]_callbackVars

(* The loop and the callers run, and time passes; nobody has to call.      *)
FairCallbacksSpec ==
  /\ CallbacksSpec
  /\ WF_callbackVars(ril_event_loop)
  /\ WF_callbackVars(Tick)
  /\ \A t \in Callers : WF_callbackVars(continues(t))

-----------------------------------------------------------------------------
(* Properties.                                                             *)

(* Every callback is run and its memory freed, whoever requested it and    *)
(* whatever the loop was about: a byte written while the pipe is drained,  *)
(* or between the look at the list and select, is not lost, and a callback *)
(* that requests another one writes none (line 278).                       *)
EveryCallbackRuns == <>[](\A p \in Infos : info[p].kind = "free")

(* No callback runs while one that is due before it still waits: the list  *)
(* is sorted, expired timers leave it from its front, and what is pending  *)
(* is run before the list is looked at again.                              *)
RunsInOrder == [][\A pair \in before : pair[1] \in Queued' => pair[2] \in Queued']_callbackVars

(* Between indications the wake lock is held as long as the timer of the   *)
(* last one runs and not longer.  It is not released before unless two     *)
(* indications overlapped, a timer fired during an indication or one got   *)
(* no memory for its timer or its copy; it is not kept for good unless a   *)
(* timer fired during an indication, which may then have cancelled its own *)
(* (line 879).                                                             *)
WakeLockIsTimed ==
  LET releases(p) == p \in Queued /\ info[p] = [kind |-> "wake", cancelled |-> FALSE] IN
  indicating = {} =>
    /\ held => "early" \in happened \/ \E p \in Infos : releases(p)
    /\ (\E p \in Infos : releases(p)) => held \/ happened # {}
=============================================================================
