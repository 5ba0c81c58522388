------------------------------- MODULE DataCalls -------------------------------
(***************************************************************************)
(* ril_data.c: the PDP table of one SIM and the threads that use it.  A    *)
(* request thread sets up the data calls of the client, one at a time;     *)
(* another one deactivates them; the thread of a channel of the SIM        *)
(* toolkit (the card, or BIP) opens and closes a connection of its own, or *)
(* shares one.  s_openchannelInfo counts the users of a context: the last  *)
(* one to leave deactivates it.  The reader hears that a context is gone.  *)
(*                                                                         *)
(* A step is a critical section of the table, an access to a variable that *)
(* no mutex protects, or an AT command.  The SIM is the LTE one, whose     *)
(* modem can tell which contexts are active.  At most one context fits the *)
(* apn and the protocol of a call.                                         *)
(*                                                                         *)
(* Left out: the other SIM (s_openchannelInfo has one table for all), the  *)
(* detach of GPRS with s_LTEDetached and s_curCid, +CGEV, the radio that   *)
(* is turned off and the modem that restarts (both empty the table), a     *)
(* query of the active contexts that fails, two releases at once, and the  *)
(* commands for the quality of service.                                    *)
(***************************************************************************)
EXTENDS Integers, FiniteSets, Sequences

CONSTANTS
  Cids,         \* the contexts, 1 .. MAX_PDP in the code
  MaxEvents,    \* bound on the calls the client sets up, the channels the card opens
                \* and the contexts the network drops
  MaxRetries    \* of one set-up; 5 in the code

ASSUME CallsAssumption ==
  /\ 1 \in Cids /\ Cids \subseteq Nat \ {0}
  /\ MaxEvents \in Nat /\ MaxRetries \in Nat

NoCid == 0

VARIABLES
  state,             \* s_PDP[].state
  cid,               \* s_PDP[].cid: "none" (-1), "own", or "unusable" (UNUSABLE_CID)
  secondary,         \* s_PDP[].secondary_cid
  count,             \* s_openchannelInfo[].count
  pdpState,          \* s_openchannelInfo[].pdpState
  channel,           \* s_openchannelInfo[].state
  s_openchannelCid,
  pdns,              \* s_PDN: the contexts that the last query found active
  active,            \* the contexts that are active in the modem
  lines,             \* unsolicited lines that the reader has not seen
  thread,            \* where each thread is, and its local variables
  client,            \* how many calls the client has through each context
  events,            \* how many of these events there have been
  happened           \* what has gone on, for the properties (see below)

pdp == <<state, cid, secondary>>
openchannel == <<count, pdpState, channel>>
globals == <<s_openchannelCid, pdns>>
outside == <<lines, client, events>>
vars == <<pdp, openchannel, globals, active, thread, outside, happened>>

Setup == "setup"
Release == "release"
Bip == "bip"
Threads == {Setup, Release, Bip}

\* index: of requestSetupDataCall, or the context a thread leaves;
\* bearer: the one that reuseDefaultBearer takes; second: that of a fallback
Rest == [pc |-> "rest", index |-> NoCid, bearer |-> NoCid, second |-> NoCid, linked |-> FALSE,
         tries |-> 0, seen |-> 0]

Init ==
  /\ state = [c \in Cids |-> "IDLE"]
  \* an LTE modem may have a default bearer, context 1 (initialAttachId),
  \* reported with +CGEV before the first call
  /\ \E bearers \in {{}, {1}} :
       /\ active = bearers
       /\ cid = [c \in Cids |-> IF c \in bearers THEN "own" ELSE "none"]
  /\ secondary = [c \in Cids |-> NoCid]
  /\ count = [c \in Cids |-> 0]
  /\ pdpState = [c \in Cids |-> FALSE]
  /\ channel = [c \in Cids |-> "CLOSE"]
  /\ s_openchannelCid = NoCid
  /\ pdns = {}
  /\ lines = <<>>
  /\ thread = [t \in Threads |-> Rest]
  /\ client = [c \in Cids |-> 0]
  /\ events = 0
  /\ happened = {}

-----------------------------------------------------------------------------
(* What has happened, where the code does not keep the count or the entry  *)
(* of a context right:                                                     *)
(*   overlap   two threads have been at the table at once                  *)
(*   missed    a set-up has signalled between the card's look at pdpState  *)
(*             and its wait                                                *)
(*   dropped   the network has ended a context                             *)
(*   stale     ^CEND was read after the context had been activated again   *)
(*   ended     the entry of a context that the network has ended was       *)
(*             cleared while somebody had still to leave it                *)
(*   unread    the modem did not answer AT+CGACT? or AT+CGDCONT?           *)
(*   dead      the card was given the context of a set-up that failed      *)
(*   second    the card shares a context nobody else uses: the second one  *)
(*             of a fallback, or one that a failed set-up has left busy    *)
(*   fallback  doIPV4_IPV6_Fallback has used the entry it had put back     *)
(*   unlinked  a second context was activated that setPDPMapping does not  *)
(*             tie to the first                                            *)

\* something happens outside the table
Event == events < MaxEvents /\ events' = events + 1

At(t, pc) == thread[t].pc = pc

Goto(t, pc) == thread' = [thread EXCEPT ![t].pc = pc]

busy(t) == thread[t].pc \notin {"rest", "open"}

\* who uses a context: the client's calls, and the card's channel
usersOf(c) == client[c] + Cardinality({t \in {Bip} : At(t, "open") /\ thread[t].index = c})

\* a thread starts to work on the table while another one is at it
overlap == IF \E t \in Threads : busy(t) THEN {"overlap"} \cup (happened \cap {"missed"}) ELSE happened

\* what else happens after an overlap is of no interest to the properties
after(what) == IF "overlap" \in happened THEN happened ELSE happened \cup {what}

(* The table.                                                              *)

\* putPDP of each context in cs; putPDP(-1) does nothing
putPDP(cs) ==
  LET unlinked == cs \cup {secondary[c] : c \in cs} IN
  /\ state' = [c \in Cids |-> IF c \in cs THEN "IDLE" ELSE state[c]]
  /\ cid' = [c \in Cids |-> IF c \in cs THEN "none" ELSE cid[c]]
  /\ secondary' = [c \in Cids |-> IF c \in unlinked THEN NoCid ELSE secondary[c]]
  /\ count' = [c \in Cids |-> IF c \in cs THEN 0 ELSE count[c]]
  /\ pdpState' = [c \in Cids |-> IF c \in cs THEN FALSE ELSE pdpState[c]]

\* getPDP: the first entry that is idle, has no cid and is not an active PDN
free == {c \in Cids \ pdns : state[c] = "IDLE" /\ cid[c] = "none"}
first == CHOOSE c \in free : \A d \in free : c <= d

\* putUnusablePDPCid
usable(cids) == [c \in Cids |-> IF cids[c] = "unusable" THEN "none" ELSE cids[c]]

(* Mutant: the waiter is not signalled.                                    *)
GoSilently(t, next) ==
  /\ thread' = [thread EXCEPT ![t] = next]
  /\ UNCHANGED happened

\* pthread_cond_signal on s_signalBipPdpCond; the caller t goes on
SignalAndGo(t, next) ==
  /\ thread' = [u \in Threads |->
                  IF u = t THEN next
                  ELSE IF At(u, "waiting") THEN [thread[u] EXCEPT !.pc = "share"] ELSE thread[u]]
  /\ happened' = happened \cup {k \in {"missed"} : At(Bip, "lock")}

-----------------------------------------------------------------------------
(* requestSetupDataCall, for the client or for the card.                   *)

ClientSetsUp ==
  /\ At(Setup, "rest")
  /\ Event
  /\ Goto(Setup, "retry")
  /\ happened' = overlap
  /\ UNCHANGED <<pdp, openchannel, globals, active, lines, client>>

\* label RETRY, and reuseDefaultBearer up to a context whose apn and protocol fit, if any
Retry(t) ==
  /\ At(t, "retry")
  /\ pdns' = active
  /\ \/ Goto(t, "get")
     \/ \E c \in active :
          \/ state[c] = "IDLE" /\ thread' = [thread EXCEPT ![t].pc = "take", ![t].bearer = c]
          \/ state[c] = "BUSY" /\ channel[c] # "CLOSE" /\ thread' = [thread EXCEPT ![t].pc = "done", ![t].index = c]
  /\ UNCHANGED <<pdp, openchannel, s_openchannelCid, active, outside, happened>>

Again(t) == IF thread[t].tries < MaxRetries THEN [thread[t] EXCEPT !.pc = "retry", !.bearer = NoCid, !.tries = @ + 1]
            ELSE [thread[t] EXCEPT !.pc = "get", !.bearer = NoCid]

\* getPDPByIndex, whose result is not looked at
Take(t) ==
  /\ At(t, "take")
  /\ state' = [state EXCEPT ![thread[t].bearer] = "BUSY"]
  /\ Goto(t, "reuse")
  /\ UNCHANGED <<cid, secondary, openchannel, globals, active, outside, happened>>

\* AT+CGDATA on the bearer; putPDPByIndex leaves everything but the state.
\* A failure other than 253 and 288 keeps the index of an earlier try.
Reuse(t) ==
  LET c == thread[t].bearer
      put == [state EXCEPT ![c] = "IDLE"]
      goes(next) == thread' = [thread EXCEPT ![t] = next]
  IN
  /\ At(t, "reuse")
  /\ \/ /\ cid' = [cid EXCEPT ![c] = "own"]
        /\ s_openchannelCid' = c
        /\ active' = active \cup {c}
        /\ \/ goes([thread[t] EXCEPT !.pc = "done", !.index = c, !.bearer = NoCid])
           \/ \E linked \in BOOLEAN : goes([thread[t] EXCEPT !.pc = "getSecond", !.index = c, !.bearer = NoCid, !.linked = linked])
        /\ UNCHANGED state
     \/ /\ cid' = [cid EXCEPT ![c] = IF @ = "none" THEN "unusable" ELSE @]     \* 253
        /\ state' = put
        /\ goes([thread[t] EXCEPT !.pc = "get", !.bearer = NoCid])
        /\ UNCHANGED <<s_openchannelCid, active>>
     \/ /\ state' = put                                                        \* 288
        /\ goes(Again(t))
        /\ UNCHANGED <<cid, s_openchannelCid, active>>
     \/ /\ state' = put
        /\ active' \in {active, active \ {c}}
        /\ goes([thread[t] EXCEPT !.pc = "error", !.bearer = NoCid])
        /\ UNCHANGED <<cid, s_openchannelCid>>
  /\ UNCHANGED <<secondary, openchannel, pdns, outside, happened>>

Get(t) ==
  /\ At(t, "get")
  /\ IF free = {}
     THEN thread' = [thread EXCEPT ![t].pc = "error", ![t].index = NoCid] /\ UNCHANGED state
     ELSE /\ state' = [state EXCEPT ![first] = "BUSY"]
          /\ thread' = [thread EXCEPT ![t].pc = "activate", ![t].index = first]
  /\ UNCHANGED <<cid, secondary, openchannel, globals, active, outside, happened>>

\* activeSpeciedCidProcess: AT+CGACT=0, AT+CGDCONT, AT+CGDATA
Activate(t) ==
  LET c == thread[t].index IN
  /\ At(t, "activate")
  /\ \/ /\ active' = active \cup {c}
        /\ cid' = [cid EXCEPT ![c] = "own"]
        /\ \/ Goto(t, "done")
           \/ \E linked \in BOOLEAN : thread' = [thread EXCEPT ![t].pc = "getSecond", ![t].linked = linked]
        /\ UNCHANGED <<state, secondary, count, pdpState>>
     \/ /\ active' = active \ {c}
        /\ Goto(t, "put")
        /\ UNCHANGED <<pdp, count, pdpState>>
  /\ UNCHANGED <<channel, s_openchannelCid, pdns, outside, happened>>

\* activeSpeciedCidProcess puts the entry back after a failure; the error decides what comes next.
\* With 288, after the last retry, the call goes on as if it were up.
PutBack(t) ==
  LET c == thread[t].index IN
  /\ At(t, "put")
  /\ putPDP({c})
  /\ \/ \E next \in {"error", "unusable" (* 253 *), "fallback" (* 128 *)} : Goto(t, next)
     \/ \* 288
        thread' = [thread EXCEPT ![t] = IF @.tries < MaxRetries THEN Again(t) ELSE [@ EXCEPT !.pc = "done"]]
  /\ UNCHANGED <<channel, globals, active, outside, happened>>

Unusable(t) ==
  /\ At(t, "unusable")
  /\ cid' = [cid EXCEPT ![thread[t].index] = IF @ = "none" THEN "unusable" ELSE @]
  /\ Goto(t, "retry")
  /\ UNCHANGED <<state, secondary, openchannel, globals, active, outside, happened>>

\* doIPV4_IPV6_Fallback: the entry has been put back; after a timeout it is
\* the context before it that is deactivated
Fallback(t) ==
  LET c == thread[t].index IN
  /\ At(t, "fallback")
  /\ \/ /\ active' = active \cup {c}
        /\ cid' = [cid EXCEPT ![c] = "own"]
        /\ thread' = [thread EXCEPT ![t].pc = "getSecond", ![t].linked = FALSE]
        /\ happened' = after("fallback")
     \/ /\ active' \in {active, active \ {c - 1}}
        /\ Goto(t, "error")
        /\ UNCHANGED <<cid, happened>>
  /\ UNCHANGED <<state, secondary, openchannel, globals, outside>>

\* the second context, of checkFallBack or doIPV4_IPV6_Fallback
GetSecond(t) ==
  /\ At(t, "getSecond")
  /\ IF free = {}
     THEN thread' = [thread EXCEPT ![t].pc = "done", ![t].linked = FALSE] /\ UNCHANGED state
     ELSE /\ state' = [state EXCEPT ![first] = "BUSY"]
          /\ thread' = [thread EXCEPT ![t].pc = "second", ![t].second = first]
  /\ UNCHANGED <<cid, secondary, openchannel, globals, active, outside, happened>>

\* activeSpeciedCidProcess of the second context; setPDPMapping ties it to the first
Second(t) ==
  LET c == thread[t].index
      d == thread[t].second
  IN
  /\ At(t, "second")
  /\ \/ /\ active' = active \cup {d}
        /\ cid' = IF thread[t].linked THEN [cid EXCEPT ![c] = "own", ![d] = "own"] ELSE [cid EXCEPT ![d] = "own"]
        /\ secondary' = IF thread[t].linked THEN [secondary EXCEPT ![c] = d, ![d] = c] ELSE secondary
        /\ happened' = IF thread[t].linked THEN happened ELSE after("unlinked")
        /\ UNCHANGED <<state, count, pdpState>>
     \/ /\ active' = active \ {d}
        /\ putPDP({d})
        /\ UNCHANGED happened
  /\ thread' = [thread EXCEPT ![t].pc = "done", ![t].second = NoCid, ![t].linked = FALSE]
  /\ UNCHANGED <<channel, s_openchannelCid, pdns, outside>>

\* label done
Done(t) ==
  LET c == thread[t].index IN
  /\ At(t, "done")
  /\ cid' = usable(cid)
  /\ s_openchannelCid' = c
  /\ count' = [count EXCEPT ![c] = @ + 1]
  /\ pdpState' = [pdpState EXCEPT ![c] = TRUE]
  /\ SignalAndGo(t, [thread[t] EXCEPT !.pc = "list", !.tries = 0])
  /\ UNCHANGED <<state, secondary, channel, pdns, active, outside>>

\* the client has its answer; the card looks at s_openchannelCid
Returned(t) == [Rest EXCEPT !.pc = IF t = Bip THEN "result" ELSE "rest"]

\* requestOrSendDataCallList asks the modem which contexts are active
List(t) ==
  LET c == thread[t].index IN
  /\ At(t, "list")
  /\ \/ \* the list cannot be read: GENERIC_FAILURE, and nothing is put back
        /\ happened' = after("unread")
        /\ UNCHANGED <<pdp, count, pdpState, active, client>>
     \/ /\ c \in active
        /\ client' = IF t = Setup THEN [client EXCEPT ![c] = @ + 1] ELSE client
        /\ UNCHANGED <<pdp, count, pdpState, active, happened>>
     \/ /\ c \notin active
        /\ putPDP({c, secondary[c]} \ {NoCid})
        /\ happened' = IF usersOf(c) > 0 THEN after("ended") ELSE happened
        /\ UNCHANGED <<active, client>>
  /\ thread' = [thread EXCEPT ![t] = Returned(t)]
  /\ UNCHANGED <<channel, s_openchannelCid, pdns, lines, events>>

\* label error
Error(t) ==
  LET c == thread[t].index IN
  /\ At(t, "error")
  /\ IF c = NoCid
     THEN UNCHANGED <<pdp, count, pdpState>>
     ELSE putPDP({c, secondary[c]} \ {NoCid})
  /\ Goto(t, "tell")
  /\ UNCHANGED <<channel, globals, active, outside, happened>>

Tell(t) ==
  LET c == thread[t].index IN
  /\ At(t, "tell")
  /\ pdpState' = IF c = NoCid THEN pdpState ELSE [pdpState EXCEPT ![c] = TRUE]
  /\ cid' = usable(cid)
  /\ SignalAndGo(t, Returned(t))
  /\ UNCHANGED <<state, secondary, count, channel, globals, active, outside>>

-----------------------------------------------------------------------------
(* deactivateDataConnection.                                               *)

\* the client leaves a call that it has
ClientReleases(c) ==
  /\ At(Release, "rest")
  /\ client[c] > 0
  /\ client' = [client EXCEPT ![c] = @ - 1]
  /\ thread' = [thread EXCEPT ![Release] = [Rest EXCEPT !.pc = "leave", !.index = c]]
  /\ happened' = overlap
  /\ UNCHANGED <<pdp, openchannel, globals, active, lines, events>>

\* count-- without the mutex
Leave(t) ==
  /\ At(t, "leave")
  /\ thread' = [thread EXCEPT ![t].pc = "store", ![t].seen = count[thread[t].index]]
  /\ UNCHANGED <<pdp, openchannel, globals, active, outside, happened>>

LeaveStore(t) ==
  LET c == thread[t].index IN
  /\ At(t, "store")
  /\ count' = IF thread[t].seen > 0 THEN [count EXCEPT ![c] = thread[t].seen - 1] ELSE count
  /\ thread' = [thread EXCEPT ![t].pc = "last", ![t].seen = 0]
  /\ UNCHANGED <<pdp, pdpState, channel, globals, active, outside, happened>>

(* Mutant: whoever leaves is the last one.                                 *)
AnyoneIsLast(t) ==
  LET c == thread[t].index IN
  /\ At(t, "last")
  /\ thread' = [thread EXCEPT ![t] = IF state[c] = "IDLE" THEN Rest
                                     ELSE [@ EXCEPT !.pc = "deactivate", !.second = secondary[c]]]
  /\ UNCHANGED <<pdp, openchannel, globals, active, outside, happened>>

Last(t) ==
  LET c == thread[t].index IN
  /\ At(t, "last")
  /\ thread' = [thread EXCEPT ![t] = IF state[c] = "IDLE" \/ count[c] # 0 THEN Rest
                                     ELSE [@ EXCEPT !.pc = "deactivate", !.second = secondary[c]]]
  /\ UNCHANGED <<pdp, openchannel, globals, active, outside, happened>>

\* AT+CGACT=0, for the second context too
Deactivate(t) ==
  /\ At(t, "deactivate")
  /\ active' = active \ {thread[t].index, thread[t].second}
  /\ Goto(t, "free")
  /\ UNCHANGED <<pdp, openchannel, globals, outside, happened>>

(* Mutant: the entry of the second context is forgotten.                   *)
FreeFirst(t) ==
  /\ At(t, "free")
  /\ putPDP({thread[t].index})
  /\ thread' = [thread EXCEPT ![t] = Rest]
  /\ UNCHANGED <<channel, globals, active, outside, happened>>

Free(t) ==
  /\ At(t, "free")
  /\ putPDP({thread[t].index, thread[t].second} \ {NoCid})
  /\ thread' = [thread EXCEPT ![t] = Rest]
  /\ UNCHANGED <<channel, globals, active, outside, happened>>

-----------------------------------------------------------------------------
(* The card: requestSetupDataConnection and requestDeactiveDataConnection. *)

BipOpens ==
  /\ At(Bip, "rest")
  /\ Event
  /\ s_openchannelCid' = NoCid
  /\ pdns' = active
  /\ Goto(Bip, "look")
  /\ happened' = overlap
  /\ UNCHANGED <<pdp, openchannel, active, lines, client>>

\* a context that is busy, with the apn and the protocol of the card
BipLooks ==
  /\ At(Bip, "look")
  /\ \/ \E c \in pdns :
          /\ state[c] = "BUSY"
          /\ thread' = [thread EXCEPT ![Bip].pc = IF pdpState[c] THEN "share" ELSE "lock", ![Bip].index = c]
     \/ Goto(Bip, "retry")
  /\ UNCHANGED <<pdp, openchannel, globals, active, outside, happened>>

\* pthread_cond_wait: pdpState was read before the mutex was locked
BipWaits ==
  /\ At(Bip, "lock")
  /\ Goto(Bip, "waiting")
  /\ UNCHANGED <<pdp, openchannel, globals, active, outside, happened>>

\* count++ without the mutex
BipShares ==
  /\ At(Bip, "share")
  /\ channel' = [channel EXCEPT ![thread[Bip].index] = "REUSE"]
  /\ thread' = [thread EXCEPT ![Bip].pc = "shared", ![Bip].seen = count[thread[Bip].index]]
  /\ happened' = IF usersOf(thread[Bip].index) = 0 THEN after("second") ELSE happened
  /\ UNCHANGED <<pdp, count, pdpState, globals, active, outside>>

(* Mutant: the card is not counted.                                        *)
BipSharedUncounted ==
  /\ At(Bip, "shared")
  /\ thread' = [thread EXCEPT ![Bip].pc = "open", ![Bip].seen = 0]
  /\ UNCHANGED <<pdp, openchannel, globals, active, outside, happened>>

BipShared ==
  /\ At(Bip, "shared")
  /\ count' = [count EXCEPT ![thread[Bip].index] = thread[Bip].seen + 1]
  /\ thread' = [thread EXCEPT ![Bip].pc = "open", ![Bip].seen = 0]
  /\ UNCHANGED <<pdp, pdpState, channel, globals, active, outside, happened>>

BipSetUp ==
  LET c == s_openchannelCid IN
  /\ At(Bip, "result")
  /\ IF c = NoCid
     THEN thread' = [thread EXCEPT ![Bip] = Rest] /\ UNCHANGED <<channel, happened>>
     ELSE /\ channel' = [channel EXCEPT ![c] = "OPEN"]
          /\ thread' = [thread EXCEPT ![Bip] = [Rest EXCEPT !.pc = "open", !.index = c]]
          /\ happened' = IF state[c] = "IDLE" THEN after("dead") ELSE happened
  /\ UNCHANGED <<pdp, count, pdpState, globals, active, outside>>

BipCloses ==
  /\ At(Bip, "open")
  /\ channel' = [channel EXCEPT ![thread[Bip].index] = "CLOSE"]
  /\ Goto(Bip, "leave")
  /\ happened' = overlap
  /\ UNCHANGED <<pdp, count, pdpState, globals, active, outside>>

-----------------------------------------------------------------------------
(* The modem and the reader.                                               *)

\* the network ends a context; the modem reports it with ^CEND
NetworkDrops(c) ==
  /\ c \in active
  /\ Event
  /\ active' = active \ {c}
  /\ lines' = Append(lines, c)
  /\ UNCHANGED <<pdp, openchannel, globals, thread, client>>
  /\ happened' = after("dropped")

\* ^CEND with status 104.  The card is told by sendEvenLoopThread, the client
\* gets DATA_CALL_LIST_CHANGED and leaves the call when it likes.
ReadCEND ==
  LET c == Head(lines)
      told == [thread EXCEPT ![Bip] = IF @.pc = "open" /\ @.index = c THEN Rest ELSE @]
  IN
  /\ lines # <<>>
  /\ lines' = Tail(lines)
  /\ IF state[c] # "BUSY"
     THEN UNCHANGED <<pdp, openchannel, thread>>
     ELSE /\ IF channel[c] = "CLOSE"
             THEN count' = [count EXCEPT ![c] = 0] /\ UNCHANGED <<pdp, pdpState, channel, thread>>
             ELSE /\ channel' = [channel EXCEPT ![c] = "CLOSE"]
                  /\ putPDP({c, secondary[c]} \ {NoCid})
                  /\ thread' = told
  /\ happened' = IF c \in active THEN after("stale")
                 ELSE IF state[c] = "BUSY" /\ client[c] > 0 THEN after("ended") ELSE happened
  /\ UNCHANGED <<s_openchannelCid, pdns, active, client, events>>

-----------------------------------------------------------------------------
Step(t) ==
  \/ Retry(t) \/ Take(t) \/ Reuse(t)
  \/ Get(t) \/ Activate(t) \/ PutBack(t) \/ Unusable(t)
  \/ Fallback(t) \/ GetSecond(t) \/ Second(t)
  \/ Done(t) \/ List(t) \/ Error(t) \/ Tell(t)
  \/ Leave(t) \/ LeaveStore(t) \/ Last(t) \/ Deactivate(t) \/ Free(t)

Next ==
  \/ ClientSetsUp
  \/ \E c \in Cids : ClientReleases(c)
  \/ \E t \in Threads : Step(t)
  \/ BipOpens \/ BipLooks \/ BipWaits \/ BipShares \/ BipShared \/ BipSetUp \/ BipCloses
  \/ \E c \in Cids : NetworkDrops(c)
  \/ ReadCEND

Spec == Init /\ [][Next]_vars

-----------------------------------------------------------------------------
quiet == \A t \in Threads : ~ busy(t)

Unless(excuses) == happened \cap excuses = {}

(* The count that decides who is the last to leave a context is the number *)
(* of its users whenever no thread is at the table (ril_data.c:1603, 1706, *)
(* 2988, 4274).  It is not once two threads have been at it at once, the   *)
(* network has ended a context, a list could not be read after count++, or *)
(* the card has a context that no set-up has given to anybody.             *)
UsersCounted ==
  quiet /\ Unless({"overlap", "dropped", "unread", "dead", "second"}) =>
    \A c \in Cids : count[c] = usersOf(c)

(* No entry is kept and none is given away too early: when no thread is at *)
(* the table an entry is busy exactly if someone uses its context or the   *)
(* one it is linked to (getPDP and putPDP, ril_data.c:167-223), unless one *)
(* of the above has happened, the fallback of error 128 has activated an   *)
(* entry it had put back (890 and 1583), or a second context was activated *)
(* with primaryCid 0, which setPDPMapping never sees (894, 991, 1040).     *)
BusyIsUsed ==
  quiet /\ Unless({"overlap", "dropped", "unread", "dead", "second", "fallback", "unlinked"}) =>
    \A c \in Cids : state[c] = "BUSY" <=> (\E d \in {c, secondary[c]} \ {NoCid} : usersOf(d) > 0)

(* Only the network takes a context away from those who use it: no set-up, *)
(* retry, fallback or release of another user deactivates it.  The code    *)
(* does so after threads have overlapped, after a late ^CEND has cleared   *)
(* the count (ril_data.c:2988), after a ^CEND or a data call list (1359)   *)
(* has cleared an ended context that somebody has still to leave (who then *)
(* leaves the next call of that context, as if it were its own), when the  *)
(* card uses a context that no set-up has given to anybody, when a         *)
(* fallback has left a used entry idle (so that reuseDefaultBearer takes   *)
(* it), and in a fallback whose CGDATA times out: it deactivates the       *)
(* context before its own (1028).                                          *)
KeptWhileUsed ==
  [][\A c \in active \ active' :
       (usersOf(c) > 0 /\ usersOf(c)' > 0 /\ Unless({"overlap", "stale", "ended", "dead", "second", "fallback"})) =>
          \/ Len(lines') > Len(lines)
          \/ \E t \in Threads : At(t, "fallback")]_vars

(* The card's thread does not wait for a set-up that is over               *)
(* (ril_data.c:4267-4271), unless the signal came between its look at      *)
(* pdpState and its wait.  What it may wait for is a context that no       *)
(* set-up announces and nobody uses, like the second one of a fallback (or *)
(* whose count is wrong).                                                  *)
WaiterIsWoken ==
  LET c == thread[Bip].index IN
  At(Bip, "waiting") /\ At(Setup, "rest") =>
    \/ "missed" \in happened
    \/ ~ pdpState[c] /\ (Unless({"overlap", "dropped"}) => count[c] = 0)
=============================================================================
