---------------------------- MODULE AtChannel ----------------------------
(***************************************************************************)
(* One AT channel (sprd-ril/atchannel.c): the thread that holds the        *)
(* channel sends one command after the other and waits for the final line, *)
(* the reader thread of the SIM sorts the lines that the modem writes, and *)
(* the modem answers commands in the order in which it got them, late or   *)
(* never.  That one thread at a time holds a channel is what RequestThreads*)
(* shows, so the AT_ERROR_COMMAND_PENDING branch (lines 817-820) is not    *)
(* reached here.  s_ATChannelMutex is held from the check of a condition   *)
(* to the effect in every action below.                                    *)
(***************************************************************************)
EXTENDS Naturals, Sequences, FiniteSets

CONSTANTS Commands,          \* AT commands; each stands for its response prefix too
          Type,              \* Commands -> NO_RESULT, SINGLELINE or MULTILINE
          WithPdu,           \* commands that hand an SMS PDU over at a prompt
          Critical,          \* AT+SFUN=4: one time-out is reported at once
          BLOCKED_MAX_COUNT, \* time-outs in a row that are still tolerated
          MaxSends,          \* bound: commands written or refused in a behaviour
          MaxInfos,          \* bound: intermediate lines of one answer
          MaxUrcs,           \* bound: unsolicited lines
          MaxCloses          \* bound: times the reader closes

Types == {"NO_RESULT", "SINGLELINE", "MULTILINE"}   \* NUMERIC acts as SINGLELINE

ASSUME ChannelAssumption ==
  /\ Type \in [Commands -> Types]
  /\ WithPdu \subseteq Commands
  /\ Critical \subseteq Commands
  /\ BLOCKED_MAX_COUNT \in Nat \ {0}
  /\ {MaxSends, MaxInfos, MaxUrcs, MaxCloses} \subseteq Nat

Plain == "plain"             \* prefix of a line that has no colon
Other == "other"             \* prefix of a line that no command asks for

VARIABLES sp_response,       \* the response under construction, or NoResponse
          s_smsPDU,          \* the send whose PDU waits for the prompt, or 0
          readerClosed,
          s_atTimeoutCount,
          wire,              \* lines the reader has not read yet
          modem,             \* commands the modem has not answered yet
          sent,              \* history: the n-th command given to the channel
          results,           \* history: what the n-th send returned
          prompts,           \* history: <<whose prompt, whose PDU>>
          reports,           \* history: after which sends modemd got "Modem Blocked"
          lines, urcs, closes \* counters of lines, unsolicited lines and closings

vars == <<sp_response, s_smsPDU, readerClosed, s_atTimeoutCount, wire, modem,
          sent, results, prompts, reports, lines, urcs, closes>>

NoLine == [kind |-> "none", send |-> 0, prefix |-> Plain, id |-> 0]

at_response_new(n) == [send |-> n, p_intermediates |-> <<>>, finalResponse |-> NoLine]

NoResponse == at_response_new(0)

pending == sp_response # NoResponse
current == sent[sp_response.send]     \* stands for s_type and s_responsePrefix

Init ==
  /\ sp_response = NoResponse
  /\ s_smsPDU = 0
  /\ readerClosed = FALSE
  /\ s_atTimeoutCount = 0
  /\ wire = <<>> /\ modem = <<>>
  /\ sent = <<>> /\ results = <<>> /\ prompts = {} /\ reports = {}
  /\ lines = 0 /\ urcs = 0 /\ closes = 0

-----------------------------------------------------------------------------
(* The thread that holds the channel. *)

(* Mutant: the list is handed over as it was built. *)
NotReversed(s) == s

reverseIntermediates(s) == [i \in 1..Len(s) |-> s[Len(s) + 1 - i]]

Failure(status) == [status |-> status, final |-> NoLine, infos |-> <<>>]

(* What the caller gets for a final line.  The wrapper of a command that   *)
(* must have an intermediate line refuses an OK alone.                     *)
Answer ==
  IF /\ Type[current] = "SINGLELINE"
     /\ sp_response.finalResponse.kind = "ok"
     /\ sp_response.p_intermediates = <<>>
  THEN Failure("invalid")
  ELSE [status |-> "answered", final |-> sp_response.finalResponse,
        infos |-> reverseIntermediates(sp_response.p_intermediates)]

clearPendingCommand == sp_response' = NoResponse /\ s_smsPDU' = 0

(* Mutant: one time-out too early. *)
CountsOneShort(n, c, timedOut) ==
  LET count  == s_atTimeoutCount + 1
      report == timedOut /\ (count >= BLOCKED_MAX_COUNT \/ c \in Critical)
  IN  /\ s_atTimeoutCount' = IF timedOut /\ ~report THEN count ELSE 0
      /\ reports' = IF report THEN reports \cup {n} ELSE reports

(* After the n-th send, of c: time-outs in a row are counted over all      *)
(* threads that use the channel, and anything else starts the count again. *)
countTimeouts(n, c, timedOut) ==
  LET count  == s_atTimeoutCount + 1
      report == timedOut /\ (count > BLOCKED_MAX_COUNT \/ c \in Critical)
  IN  /\ s_atTimeoutCount' = IF timedOut /\ ~report THEN count ELSE 0
      /\ reports' = IF report THEN reports \cup {n} ELSE reports

(* at_send_command_full_nolock up to its first wait. *)
at_send_command(c) ==
  LET n == Len(sent) + 1 IN
  /\ ~pending /\ ~readerClosed /\ n <= MaxSends
  /\ sent' = Append(sent, c)
  /\ sp_response' = at_response_new(n)
  /\ s_smsPDU' = IF c \in WithPdu THEN n ELSE 0
  /\ modem' = Append(modem, [send |-> n, stage |-> "command", infos |-> 0])
  /\ UNCHANGED <<readerClosed, s_atTimeoutCount, wire, results, prompts,
                 reports, lines, urcs, closes>>

(* writeline finds the channel closed, or the write fails. *)
writeFails(c) ==
  /\ ~pending /\ Len(sent) < MaxSends
  /\ sent' = Append(sent, c)
  /\ results' = Append(results, Failure(IF readerClosed THEN "closed" ELSE "generic"))
  /\ countTimeouts(Len(sent) + 1, c, FALSE)
  /\ UNCHANGED <<sp_response, s_smsPDU, readerClosed, wire, modem, prompts,
                 lines, urcs, closes>>

return(result) ==
  /\ results' = Append(results, result)
  /\ clearPendingCommand
  /\ countTimeouts(Len(sent), current, result.status = "timeout")
  /\ UNCHANGED <<readerClosed, wire, modem, sent, prompts, lines, urcs, closes>>

(* Mutant: the wait is not in a loop. *)
WakesSpuriously == pending /\ ~readerClosed /\ return(Answer)

wakeAnswered ==
  /\ pending /\ ~readerClosed
  /\ sp_response.finalResponse # NoLine
  /\ return(Answer)

(* Mutant: the wait loop looks at the final line only. *)
WakesOnFinalOnly ==
  /\ pending /\ readerClosed /\ sp_response.finalResponse # NoLine
  /\ return(Failure("closed"))

wakeClosed == pending /\ readerClosed /\ return(Failure("closed"))

(* pthread_cond_timedwait may report the time-out although the final line  *)
(* or the end of the reader came in the meantime.                          *)
timeOut == pending /\ return(Failure("timeout"))

-----------------------------------------------------------------------------
(* The reader thread. *)

handleFinalResponse(line) == sp_response' = [sp_response EXCEPT !.finalResponse = line]

(* The newest line is at the head. *)
addIntermediate(line) ==
  sp_response' = [sp_response EXCEPT !.p_intermediates = <<line>> \o @]

isIntermediate(line) ==
  /\ line.kind = "info"
  /\ CASE Type[current] = "NO_RESULT"  -> FALSE
       [] Type[current] = "SINGLELINE" -> /\ sp_response.p_intermediates = <<>>
                                          /\ line.prefix = current
       [] Type[current] = "MULTILINE"  -> line.prefix \in {current, Plain}

(* NO CARRIER is one of the lines that end a command, asked for or not. *)
isFinalResponse(line) == line.kind \in {"ok", "error"}

isPrompt(line) == line.kind = "prompt" /\ s_smsPDU # 0

(* The modem takes the PDU for the command whose prompt it wrote last. *)
writeCtrlZ(line) ==
  /\ prompts' = prompts \cup {<<line.send, s_smsPDU>>}
  /\ modem' = IF modem # <<>> /\ Head(modem).stage = "prompted"
              THEN [modem EXCEPT ![1].stage = "pdu"] ELSE modem

(* Mutant: the PDU is kept after it was written. *)
KeepsPdu(line) ==
  \/ /\ pending /\ isFinalResponse(line)
     /\ handleFinalResponse(line)
     /\ UNCHANGED <<s_smsPDU, prompts, modem>>
  \/ /\ pending /\ isPrompt(line)
     /\ writeCtrlZ(line)
     /\ UNCHANGED <<sp_response, s_smsPDU>>
  \/ /\ pending => ~(isFinalResponse(line) \/ isPrompt(line))
     /\ UNCHANGED <<sp_response, s_smsPDU, prompts, modem>>

processLine(line) ==
  \/ /\ pending /\ isFinalResponse(line)
     /\ handleFinalResponse(line)
     /\ UNCHANGED <<s_smsPDU, prompts, modem>>
  \/ /\ pending /\ isPrompt(line)
     /\ writeCtrlZ(line)
     /\ s_smsPDU' = 0
     /\ UNCHANGED sp_response
  \/ /\ pending /\ isIntermediate(line)
     /\ addIntermediate(line)
     /\ UNCHANGED <<s_smsPDU, prompts, modem>>
  \/ /\ pending => ~(isFinalResponse(line) \/ isPrompt(line) \/ isIntermediate(line))
     /\ UNCHANGED <<sp_response, s_smsPDU, prompts, modem>>   \* handleUnsolicited

readLine ==
  /\ ~readerClosed /\ wire # <<>>
  /\ processLine(Head(wire))
  /\ wire' = Tail(wire)
  /\ UNCHANGED <<readerClosed, s_atTimeoutCount, sent, results, reports,
                 lines, urcs, closes>>

(* The reader leaves its loop and closes the channel; what the modem has   *)
(* written and not yet written is lost.                                    *)
onReaderClosed ==
  /\ ~readerClosed /\ closes < MaxCloses
  /\ readerClosed' = TRUE
  /\ closes' = closes + 1
  /\ wire' = <<>> /\ modem' = <<>>
  /\ UNCHANGED <<sp_response, s_smsPDU, s_atTimeoutCount, sent, results,
                 prompts, reports, lines, urcs>>

(* at_open and start_reader.  The sender that was waiting has returned:    *)
(* the modem needs seconds to come back, and the sender has been woken.    *)
reopen ==
  /\ readerClosed /\ ~pending
  /\ readerClosed' = FALSE
  /\ clearPendingCommand
  /\ wire' = <<>>
  /\ UNCHANGED <<s_atTimeoutCount, modem, sent, results, prompts, reports,
                 lines, urcs, closes>>

-----------------------------------------------------------------------------
(* The modem: serial, as slow as it likes, and silent when it likes. *)

emit(kind, n, prefix) ==
  /\ wire' = Append(wire, [kind |-> kind, send |-> n, prefix |-> prefix, id |-> lines + 1])
  /\ lines' = lines + 1
  /\ UNCHANGED <<sp_response, s_smsPDU, readerClosed, s_atTimeoutCount, sent,
                 results, prompts, reports, closes>>

head == Head(modem)

readyToAnswer ==
  /\ ~readerClosed /\ modem # <<>>
  /\ head.stage = IF sent[head.send] \in WithPdu THEN "pdu" ELSE "command"

modemPrompts ==
  /\ ~readerClosed /\ modem # <<>>
  /\ sent[head.send] \in WithPdu /\ head.stage = "command"
  /\ modem' = [modem EXCEPT ![1].stage = "prompted"]
  /\ emit("prompt", head.send, Plain)
  /\ UNCHANGED urcs

modemInforms ==
  /\ readyToAnswer
  /\ Type[sent[head.send]] # "NO_RESULT" /\ head.infos < MaxInfos
  /\ modem' = [modem EXCEPT ![1].infos = @ + 1]
  /\ emit("info", head.send, sent[head.send])
  /\ UNCHANGED urcs

modemAnswers ==
  /\ readyToAnswer
  /\ modem' = Tail(modem)
  /\ \E kind \in {"ok", "error"} : emit(kind, head.send, Plain)
  /\ UNCHANGED urcs

modemDrops ==
  /\ ~readerClosed /\ modem # <<>>
  /\ modem' = Tail(modem)
  /\ UNCHANGED <<sp_response, s_smsPDU, readerClosed, s_atTimeoutCount, wire,
                 sent, results, prompts, reports, lines, urcs, closes>>

(* An unsolicited line may carry the prefix of a command, or be NO CARRIER. *)
modemNotifies ==
  /\ ~readerClosed /\ urcs < MaxUrcs
  /\ urcs' = urcs + 1
  /\ \/ \E prefix \in Commands \cup {Plain, Other} : emit("info", 0, prefix)
     \/ emit("error", 0, Plain)
  /\ UNCHANGED modem

-----------------------------------------------------------------------------
Sender == \/ \E c \in Commands : at_send_command(c) \/ writeFails(c)
          \/ wakeAnswered \/ wakeClosed \/ timeOut
Reader == readLine \/ onReaderClosed
Modem  == modemPrompts \/ modemInforms \/ modemAnswers \/ modemDrops \/ modemNotifies

Next == Sender \/ Reader \/ reopen \/ Modem

Spec == Init /\ [][Next]_vars

(* A waiting thread that was signalled runs again; the clock owes nothing. *)
FairSpec == Spec /\ WF_vars(wakeAnswered \/ wakeClosed)

-----------------------------------------------------------------------------
Sends    == 1..MaxSends
GaveUp == {n \in DOMAIN results : results[n].status = "timeout"}

Unsolicited(line) == line.kind = "error" /\ line.send = 0

Answered == {n \in DOMAIN results : results[n].status = "answered"}

(* The sends that left the final line of their command behind. *)
OutOfStep == GaveUp \cup {n \in Answered : Unsolicited(results[n].final)}

(* What belongs to the k-th send may reach the n-th: a send up to k left   *)
(* its line behind, and the channel has run behind since.                  *)
Late(k, n) == k < n /\ \E m \in OutOfStep : m <= k

(* A thread gets the final line of its own command unless an earlier one   *)
(* timed out or was cut short by an unsolicited NO CARRIER (lines 114-118  *)
(* warn of it): the channel is not drained then, and nothing tells the     *)
(* late OK of one command from the OK of the next.  No line answers twice. *)
AnswersOwnUnlessLate ==
  LET final(n) == results[n].final
  IN  /\ \A n \in Answered : \/ final(n).send = n
                             \/ Unsolicited(final(n))
                             \/ Late(final(n).send, n)
      /\ \A m, n \in Answered : final(m).id = final(n).id => m = n

(* The lines of a multi-line answer reach the caller in the order in which *)
(* the modem wrote them, although addIntermediate builds the list from its *)
(* end; at most one line answers a single-line command; the lines are the  *)
(* command's own, unsolicited ones that look like them, or late ones.      *)
InfosInOrder ==
  \A n \in DOMAIN results :
    LET infos == results[n].infos IN
    /\ \A i, j \in 1..Len(infos) : i < j => infos[i].id < infos[j].id
    /\ Type[sent[n]] = "SINGLELINE" => Len(infos) <= 1
    /\ \A i \in 1..Len(infos) : infos[i].send \in {0, n} \/ Late(infos[i].send, n)

(* An SMS PDU is written once, by the thread that reads the prompt, and    *)
(* goes to the prompt of its own command unless the channel runs behind.   *)
PduGoesToItsPrompt ==
  /\ \A p, q \in prompts : p[2] = q[2] => p = q
  /\ \A p \in prompts : p[1] = p[2] \/ Late(p[1], p[2])

(* modemd hears of a blocked modem exactly when BLOCKED_MAX_COUNT + 1      *)
(* sends in a row, counted from the last report, have timed out, or when a *)
(* critical one has.                                                       *)
BlockedReported ==
  LET since(n) == {m \in 1..n : /\ \A k \in m..n : k \in GaveUp
                                /\ \A k \in m..(n - 1) : k \notin reports}
  IN  reports = {n \in GaveUp : \/ sent[n] \in Critical
                                \/ Cardinality(since(n)) = BLOCKED_MAX_COUNT + 1}

(* A thread whose final line has come, or whose reader has closed, comes   *)
(* back by the signal alone, without the clock.                            *)
SignalEndsWait == (pending /\ (readerClosed \/ sp_response.finalResponse # NoLine)) ~> ~pending
=============================================================================
