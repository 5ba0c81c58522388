------------------------------ MODULE HandlerPaths ------------------------------
(***************************************************************************)
(* The vocabulary in which the request handlers of sprd-ril are written    *)
(* down.  A handler is the set of its paths; a path is the sequence of     *)
(* steps that matter to whoever waits for the answer: how each AT exchange *)
(* ends, where the answer of the modem is read and freed, which part of    *)
(* the request's data is used, and the call of RIL_onRequestComplete.      *)
(* A & B runs A, then B; A | B is a branch that the model does not decide  *)
(* (a comparison with modem data, a property of the phone, an error code). *)
(***************************************************************************)
EXTENDS Naturals, Sequences, TLC

-----------------------------------------------------------------------------
(* Payloads: the data of a request and the data of an answer.              *)

None == <<"none", 0>>

Ints(n) == <<"int", n>>

Text == <<"text", 1>>

Texts(n) == <<"texts", n>>

Raw == <<"raw", 1>>

Struct(name) == <<name, 1>>

List(name) == <<name, 0>>

-----------------------------------------------------------------------------
(* Steps and paths.                                                        *)

Step(op, err, payload) == [var |-> "p_response", op |-> op, err |-> err, pay |-> payload]

Do(op) == {<<Step(op, "", None)>>}

A & B == {a \o b : a \in A, b \in B}

A | B == A \cup B

Skip == {<<>>}

\* The same steps on another ATResponse pointer of the handler.
On(v, A) == {[i \in DOMAIN a |-> [a[i] EXCEPT !.var = v]] : a \in A}

-----------------------------------------------------------------------------
(* How at_send_command and its variants can end, seen by the caller: the   *)
(* modem agrees (with the lines asked for, or with none), it refuses, no   *)
(* final response comes and the caller's pointer stays as it was, or a     *)
(* variant that requires a line frees the response and clears the pointer. *)

Ok == Do("ok")

OkEmpty == Do("empty")

Refused == Do("refused")

NoAnswer == Do("noAnswer")

NoLine == Do("noLine")

\* err < 0 || p_response->success == 0
Failed == Refused | NoAnswer

LineFailed == Refused | NoAnswer | NoLine

AnyEnd == Ok | Refused | NoAnswer

\* the number that selects the command is negative, and no command is sent
Negative == Do("negative")

-----------------------------------------------------------------------------
(* What a handler does with the response and with the request.             *)

\* p_response->p_intermediates->line, or a text inside it
ReadLine == Do("line")

\* p_response->finalResponse or p_response->success
ReadFinal == Do("final")

\* at_response_free; AT_RESPONSE_FREE also clears the pointer
Free == Do("free")

FreeAndClear == Do("clear")

\* p_response = NULL
Forget == Do("null")

\* the handler uses data as this payload
Takes(payload) == {<<Step("takes", "", payload)>>}

\* strlen, strcmp, atoi or an index: the handler follows a pointer of the data to the
\* string in this block without asking whether it is NULL (printing one does no harm)
Reads(block) == {<<Step("reads", block, None)>>}

\* a flag of the vendor library that outlives the request
Raise(flag) == {<<Step("raise", flag, None)>>}

Lower(flag) == {<<Step("lower", flag, None)>>}

-----------------------------------------------------------------------------
(* RIL_onRequestComplete.                                                  *)

Done(err, payload) == {<<Step("done", err, payload)>>}

Success(payload) == Done("SUCCESS", payload)

Fail(err) == Done(err, None)

Fails(errs) == UNION {Fail(err) : err \in errs}

Generic == Fail("GENERIC_FAILURE")

\* the token is kept for a later answer: an unsolicited line, a timer, another request
Later == Do("later")

\* RIL_onUnsolicitedResponse
Indicate(unsol, payload) == {<<Step("indicate", unsol, payload)>>}

\* RIL_requestTimedCallback, or a thread of its own
After(callback) == {<<Step("after", callback, None)>>}

\* a function with response pointers and an answer of its own: its paths are
\* looked at once, in the table of procedures, and not again in every caller
Calls(procedure) == {<<Step("call", procedure, None)>>}

\* getChannel and putChannel, in code that runs outside the request threads
TakeChannel == Do("takeChannel")

GiveChannel == Do("giveChannel")

\* a handler called by the library itself, with data of its own and a NULL
\* token: RIL_onRequestComplete drops the answer
NoToken(A) == {SelectSeq(a, LAMBDA s : s.op \notin {"done", "takes", "reads"}) : a \in A}

-----------------------------------------------------------------------------
(* Shapes that recur.                                                      *)

(* Mutant: the response is not freed when the command fails. *)
PlainLeaving(payload) == Ok & Success(payload) & Free | Failed & Generic

\* send one command, answer SUCCESS with this payload or GENERIC_FAILURE, free
Plain(payload) == (Ok & Success(payload) | Failed & Generic) & Free

(* Mutant: the line is read before anybody asks whether the modem agreed. *)
OneLineUnasked(payload) ==
  ((Ok | Refused) & ReadLine & (Success(payload) | Generic) | (NoAnswer | NoLine) & Generic) & Free

\* send one command that returns a line, parse the line into the payload
OneLine(payload) == (Ok & ReadLine & (Success(payload) | Generic) | LineFailed & Generic) & Free

(* Mutant: a refusal with another CME code is not answered. *)
PlainOrNothing(err) ==
  (Ok & Success(None) | Refused & ReadFinal & (Fail(err) | Skip) | NoAnswer & Generic) & Free

\* the same, with another error for one CME code
PlainOr(err) ==
  (Ok & Success(None) | Refused & ReadFinal & (Fail(err) | Generic) | NoAnswer & Generic) & Free

\* the response is not asked for: only a missing answer is noticed
Unchecked == Success(None) | Generic

(* Mutant: the handler wants a second number that no method sends. *)
SetTwoInts == Takes(Ints(2)) & Plain(None)

SetInt == Takes(Ints(1)) & Plain(None)

=============================================================================
