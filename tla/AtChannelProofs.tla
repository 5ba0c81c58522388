-------------------------- MODULE AtChannelProofs --------------------------
(***************************************************************************)
(* What AtChannel promises for every set of commands, any number of sends, *)
(* of lines and of closings: whose final line, intermediate lines and      *)
(* prompt a send gets, and when modemd hears of a blocked modem.           *)
(*                                                                         *)
(* The argument: the modem is serial, so the final line of a command is    *)
(* the last thing of it in flight.  A send that returns with its own final *)
(* line therefore leaves nothing behind, a send that fails with the reader *)
(* closed neither, and any other is one of OutOfStep.                      *)
(***************************************************************************)
EXTENDS AtChannel, SequenceTheorems, FiniteSetTheorems, TLAPS

LineKinds == {"ok", "error", "info", "prompt"}
Lines     == [kind : LineKinds, send : Nat, prefix : Commands \cup {Plain, Other}, id : Nat]
Stages    == {"command", "prompted", "pdu"}
Entries   == [send : Nat, stage : Stages, infos : Nat]
Statuses  == {"answered", "invalid", "closed", "generic", "timeout"}
Results   == [status : Statuses, final : Lines \cup {NoLine}, infos : Seq(Lines)]
Responses == [send : Nat, p_intermediates : Seq(Lines), finalResponse : Lines \cup {NoLine}]

TypeOK ==
  /\ sp_response \in Responses
  /\ s_smsPDU \in Nat
  /\ readerClosed \in BOOLEAN
  /\ s_atTimeoutCount \in Nat
  /\ wire \in Seq(Lines)
  /\ modem \in Seq(Entries)
  /\ sent \in Seq(Commands)
  /\ results \in Seq(Results)
  /\ prompts \subseteq Nat \X Nat
  /\ reports \subseteq Nat
  /\ lines \in Nat

OnWire   == {wire[i] : i \in DOMAIN wire}
InModem  == {modem[i].send : i \in DOMAIN modem}
InFlight == InModem \cup {x.send : x \in OnWire}

(* The lines that the pending response has. *)
Infos  == {sp_response.p_intermediates[i] : i \in DOMAIN sp_response.p_intermediates}
Finals == {sp_response.finalResponse} \ {NoLine}
Read   == Infos \cup Finals

(* One send at a time is under way, and the PDU is that of the send.       *)
OneAtATime ==
  /\ IF pending THEN Len(sent) = Len(results) + 1 /\ sp_response.send = Len(sent)
                ELSE Len(sent) = Len(results)
  /\ s_smsPDU # 0 => pending /\ s_smsPDU = Len(sent)
  /\ readerClosed => wire = <<>> /\ modem = <<>>

(* Lines are numbered as they are written and read in that order.          *)
WireInOrder ==
  /\ \A i, j \in 1..Len(wire) : i < j => wire[i].id < wire[j].id
  /\ \A x \in OnWire : /\ 0 < x.id /\ x.id <= lines /\ x.send <= Len(sent)
                       /\ x.kind \in {"ok", "prompt"} => x.send # 0
  /\ \A i, j \in 1..Len(modem) : i < j => modem[i].send < modem[j].send
  /\ \A k \in InModem : 0 < k /\ k <= Len(sent)

(* The final line of a command is the last thing of it in flight.          *)
FinalIsLast ==
  \A l \in OnWire : isFinalResponse(l) /\ l.send # 0 =>
     /\ l.send \notin InModem
     /\ \A x \in OnWire : x.send = l.send => x.id <= l.id

(* A send that has returned and left something in flight is out of step,   *)
(* or one before it is.                                                    *)
LeftBehind ==
  \A k \in InFlight \ {0} : k <= Len(results) => \E m \in OutOfStep : m <= k

(* What the pending response is made of. *)
ReadForSend ==
  /\ ~pending => Read = {}
  /\ \A x \in Read : /\ 0 < x.id /\ x.id <= lines
                     /\ \A y \in OnWire : x.id < y.id
                     /\ x.send \in {0, Len(sent)} \/ Late(x.send, Len(sent))
  /\ \A x \in Finals : /\ isFinalResponse(x)
                       /\ x.send = 0 => x.kind = "error"
                       /\ x.send = Len(sent) => x.send \notin InFlight

InfosNewestFirst ==
  LET infos == sp_response.p_intermediates IN
  /\ \A i, j \in 1..Len(infos) : i < j => infos[i].id > infos[j].id
  /\ pending /\ Type[current] = "SINGLELINE" => Len(infos) <= 1

(* Lines are used up: a line that answered comes before all that may.      *)
UsedUp ==
  \A n \in Answered :
    LET id == results[n].final.id IN
    id <= lines /\ \A x \in OnWire \cup Finals : id < x.id

PduOnce ==
  \A p \in prompts : p[2] # 0 /\ p[2] <= Len(sent) /\ p[2] # s_smsPDU

(* s_atTimeoutCount is the number of time-outs in a row since the last     *)
(* report.                                                                 *)
TimeoutsInARow ==
  LET n == Len(results) - s_atTimeoutCount IN
  /\ s_atTimeoutCount <= BLOCKED_MAX_COUNT
  /\ n >= 0
  /\ \A k \in (n + 1)..Len(results) : k \in GaveUp \ reports
  /\ n > 0 => n \notin GaveUp \ reports

ChannelInv ==
  /\ TypeOK /\ OneAtATime /\ WireInOrder /\ FinalIsLast /\ LeftBehind
  /\ ReadForSend /\ InfosNewestFirst /\ UsedUp /\ PduOnce
  /\ AnswersOwnUnlessLate /\ InfosInOrder /\ PduGoesToItsPrompt

BlockedInv == ChannelInv /\ TimeoutsInARow /\ BlockedReported

-----------------------------------------------------------------------------
(* Sequences. *)

LEMMA AppendFacts ==
  ASSUME NEW S, NEW s \in Seq(S), NEW e \in S
  PROVE  /\ Append(s, e) \in Seq(S)
         /\ Len(s) \in Nat /\ Len(Append(s, e)) = Len(s) + 1
         /\ DOMAIN s = 1..Len(s) /\ DOMAIN Append(s, e) = 1..(Len(s) + 1)
         /\ \A i \in 1..Len(s) : Append(s, e)[i] = s[i]
         /\ Append(s, e)[Len(s) + 1] = e
  OBVIOUS

LEMMA TailFacts ==
  ASSUME NEW S, NEW s \in Seq(S), s # <<>>
  PROVE  /\ Tail(s) \in Seq(S) /\ Head(s) \in S /\ Head(s) = s[1]
         /\ Len(s) \in Nat \ {0} /\ Len(Tail(s)) = Len(s) - 1
         /\ DOMAIN s = 1..Len(s) /\ DOMAIN Tail(s) = 1..(Len(s) - 1)
         /\ \A i \in 1..(Len(s) - 1) : Tail(s)[i] = s[i + 1]
  OBVIOUS

LEMMA ReverseFacts ==
  ASSUME NEW S, NEW s \in Seq(S)
  PROVE  /\ reverseIntermediates(s) \in Seq(S)
         /\ Len(reverseIntermediates(s)) = Len(s)
         /\ \A i \in 1..Len(s) : /\ Len(s) + 1 - i \in 1..Len(s)
                                 /\ reverseIntermediates(s)[i] = s[Len(s) + 1 - i]
<1>1. Len(s) \in Nat /\ \A i \in 1..Len(s) : Len(s) + 1 - i \in 1..Len(s) /\ s[i] \in S
  OBVIOUS
<1>2. reverseIntermediates(s) = [i \in 1..Len(s) |-> s[Len(s) + 1 - i]]
  BY DEF reverseIntermediates
<1> QED BY <1>1, <1>2

LEMMA PushFacts ==
  ASSUME NEW S, NEW s \in Seq(S), NEW e \in S
  PROVE  /\ <<e>> \o s \in Seq(S)
         /\ Len(s) \in Nat /\ Len(<<e>> \o s) = Len(s) + 1
         /\ (<<e>> \o s)[1] = e
         /\ \A i \in 2..(Len(s) + 1) : i - 1 \in 1..Len(s) /\ (<<e>> \o s)[i] = s[i - 1]
  OBVIOUS

LEMMA NoLineIsNone == NoLine \notin Lines
  BY DEF NoLine, Lines, LineKinds

-----------------------------------------------------------------------------
(* What the modem, the wire and the results are after each kind of step.   *)

LEMMA LineWritten ==
  ASSUME TypeOK, WireInOrder, NEW kind \in LineKinds, NEW n \in Nat, n <= Len(sent),
         NEW prefix \in Commands \cup {Plain, Other}, kind \in {"ok", "prompt"} => n # 0,
         emit(kind, n, prefix)
  PROVE  \E l \in Lines :
           /\ l = [kind |-> kind, send |-> n, prefix |-> prefix, id |-> lines + 1]
           /\ wire' \in Seq(Lines) /\ OnWire' = OnWire \cup {l}
           /\ \A i, j \in 1..Len(wire') : i < j => wire'[i].id < wire'[j].id
           /\ lines' = lines + 1
           /\ \A x \in OnWire : x.id < l.id
<1> DEFINE l == [kind |-> kind, send |-> n, prefix |-> prefix, id |-> lines + 1]
<1>1. l \in Lines /\ wire' = Append(wire, l) /\ lines' = lines + 1 /\ l.id = lines + 1
  BY DEF emit, TypeOK, Lines
<1> HIDE DEF l
<1>2. /\ wire' \in Seq(Lines) /\ Len(wire) \in Nat /\ Len(wire') = Len(wire) + 1
      /\ DOMAIN wire = 1..Len(wire) /\ DOMAIN wire' = 1..(Len(wire) + 1)
      /\ \A i \in 1..Len(wire) : wire'[i] = wire[i]
      /\ wire'[Len(wire) + 1] = l
  BY <1>1, AppendFacts DEF TypeOK
<1>3. OnWire' = OnWire \cup {l}
  <2>1. OnWire' = {wire'[i] : i \in 1..(Len(wire) + 1)} /\ OnWire = {wire[i] : i \in 1..Len(wire)}
    BY <1>2 DEF OnWire
  <2>2. 1..(Len(wire) + 1) = 1..Len(wire) \cup {Len(wire) + 1}
    BY <1>2
  <2> QED BY <1>2, <2>1, <2>2
<1>4. \A x \in OnWire : x.id \in Nat /\ x.id < l.id
  <2>1. \A x \in OnWire : x \in Lines
    BY DEF OnWire, TypeOK
  <2> QED BY <1>1, <2>1 DEF WireInOrder, TypeOK, Lines
<1>5. ASSUME NEW i \in 1..Len(wire'), NEW j \in 1..Len(wire'), i < j
      PROVE  wire'[i].id < wire'[j].id
  <2>1. i \in 1..Len(wire) /\ wire[i] \in OnWire
    BY <1>2, <1>5 DEF OnWire
  <2>2. CASE j \in 1..Len(wire)
    BY <1>2, <1>5, <2>1, <2>2 DEF WireInOrder
  <2>3. CASE j = Len(wire) + 1
    BY <1>2, <1>4, <2>1, <2>3
  <2> QED BY <1>2, <2>2, <2>3
<1> QED BY <1>1, <1>2, <1>3, <1>4, <1>5 DEF l

LEMMA LineRead ==
  ASSUME TypeOK, WireInOrder, wire # <<>>, wire' = Tail(wire)
  PROVE  /\ Head(wire) \in OnWire /\ Head(wire) \in Lines
         /\ wire' \in Seq(Lines)
         /\ OnWire' = OnWire \ {Head(wire)}
         /\ \A i, j \in 1..Len(wire') : i < j => wire'[i].id < wire'[j].id
         /\ \A x \in OnWire' : Head(wire).id < x.id
<1>1. /\ Tail(wire) \in Seq(Lines) /\ Head(wire) \in Lines /\ Head(wire) = wire[1]
      /\ Len(wire) \in Nat \ {0} /\ Len(Tail(wire)) = Len(wire) - 1
      /\ DOMAIN wire = 1..Len(wire) /\ DOMAIN Tail(wire) = 1..(Len(wire) - 1)
      /\ \A i \in 1..(Len(wire) - 1) : Tail(wire)[i] = wire[i + 1]
  BY TailFacts DEF TypeOK
<1>2. Head(wire) \in OnWire
  BY <1>1 DEF OnWire
<1>3. ASSUME NEW i \in 1..(Len(wire) - 1) PROVE wire[1].id < wire[i + 1].id
  BY <1>1 DEF WireInOrder
<1>4. OnWire' = {wire[i + 1] : i \in 1..(Len(wire) - 1)} /\ OnWire = {wire[i] : i \in 1..Len(wire)}
  BY <1>1 DEF OnWire
<1>5. \A x \in OnWire' : x \in OnWire /\ Head(wire).id < x.id
  BY <1>1, <1>3, <1>4
<1>6. ASSUME NEW x \in OnWire, x # Head(wire) PROVE x \in OnWire'
  <2>1. PICK i \in 1..Len(wire) : x = wire[i]
    BY <1>4
  <2>2. i # 1 /\ i - 1 \in 1..(Len(wire) - 1) /\ (i - 1) + 1 = i
    BY <1>1, <1>6, <2>1
  <2> QED BY <1>4, <2>1, <2>2
<1>7. Head(wire) \notin OnWire'
  <2>1. Head(wire).id \in Nat
    BY <1>1 DEF Lines
  <2> QED BY <1>5, <2>1
<1>8. ASSUME NEW i \in 1..Len(wire'), NEW j \in 1..Len(wire'), i < j
      PROVE  wire'[i].id < wire'[j].id
  BY <1>1, <1>8 DEF WireInOrder
<1> QED BY <1>1, <1>2, <1>5, <1>6, <1>7, <1>8

LEMMA ModemHead ==
  ASSUME TypeOK, modem # <<>>
  PROVE  /\ head \in Entries /\ head.send \in InModem /\ head = modem[1]
         /\ Len(modem) \in Nat \ {0} /\ DOMAIN modem = 1..Len(modem)
<1>1. modem \in Seq(Entries)
  BY DEF TypeOK
<1>2. /\ head \in Entries /\ head = modem[1]
      /\ Len(modem) \in Nat \ {0} /\ DOMAIN modem = 1..Len(modem)
  BY <1>1, TailFacts DEF head
<1> QED BY <1>2 DEF InModem

LEMMA EntryLeaves ==
  ASSUME TypeOK, WireInOrder, modem # <<>>, modem' = Tail(modem)
  PROVE  /\ modem' \in Seq(Entries)
         /\ InModem' = InModem \ {head.send}
         /\ \A i, j \in 1..Len(modem') : i < j => modem'[i].send < modem'[j].send
<1>1. /\ Tail(modem) \in Seq(Entries) /\ head \in Entries /\ head = modem[1]
      /\ Len(modem) \in Nat \ {0} /\ Len(Tail(modem)) = Len(modem) - 1
      /\ DOMAIN modem = 1..Len(modem) /\ DOMAIN Tail(modem) = 1..(Len(modem) - 1)
      /\ \A i \in 1..(Len(modem) - 1) : Tail(modem)[i] = modem[i + 1]
  BY TailFacts DEF TypeOK, head
<1>2. /\ InModem' = {modem[i + 1].send : i \in 1..(Len(modem) - 1)}
      /\ InModem = {modem[i].send : i \in 1..Len(modem)}
  BY <1>1 DEF InModem
<1>3. ASSUME NEW i \in 1..(Len(modem) - 1) PROVE modem[1].send < modem[i + 1].send
  BY <1>1 DEF WireInOrder
<1>4. head.send \in Nat
  BY <1>1 DEF Entries
<1>5. \A k \in InModem' : k \in InModem /\ k # head.send
  BY <1>1, <1>2, <1>3, <1>4
<1>6. ASSUME NEW k \in InModem, k # head.send PROVE k \in InModem'
  <2>1. PICK i \in 1..Len(modem) : k = modem[i].send
    BY <1>2
  <2>2. i # 1 /\ i - 1 \in 1..(Len(modem) - 1) /\ (i - 1) + 1 = i
    BY <1>1, <1>6, <2>1
  <2> QED BY <1>2, <2>1, <2>2
<1>7. ASSUME NEW i \in 1..Len(modem'), NEW j \in 1..Len(modem'), i < j
      PROVE  modem'[i].send < modem'[j].send
  BY <1>1, <1>7 DEF WireInOrder
<1> QED BY <1>1, <1>5, <1>6, <1>7

(* The modem goes on with the command at its head. *)
LEMMA EntryGoesOn ==
  ASSUME TypeOK, WireInOrder, modem # <<>>, NEW stage \in Stages, NEW infos \in Nat,
         modem' = [modem EXCEPT ![1] = [modem[1] EXCEPT !.stage = stage, !.infos = infos]]
  PROVE  /\ modem' \in Seq(Entries)
         /\ InModem' = InModem
         /\ \A i, j \in 1..Len(modem') : i < j => modem'[i].send < modem'[j].send
<1>1. modem \in Seq(Entries) /\ Len(modem) \in Nat \ {0} /\ DOMAIN modem = 1..Len(modem) /\ modem[1] \in Entries
  BY TailFacts DEF TypeOK
<1>2. [modem[1] EXCEPT !.stage = stage, !.infos = infos] \in Entries
  BY <1>1 DEF Entries
<1>3. modem' \in Seq(Entries) /\ Len(modem') = Len(modem) /\ DOMAIN modem' = DOMAIN modem
  BY <1>1, <1>2
<1>4. \A i \in DOMAIN modem : modem'[i].send = modem[i].send
  BY <1>1 DEF Entries
<1>5. InModem' = InModem
  BY <1>3, <1>4 DEF InModem
<1> QED BY <1>1, <1>3, <1>4, <1>5 DEF WireInOrder

-----------------------------------------------------------------------------
(* The results so far do not change when another is added. *)
LEMMA ResultAdded ==
  ASSUME TypeOK, NEW r \in Results, results' = Append(results, r)
  PROVE  /\ results' \in Seq(Results) /\ Len(results) \in Nat /\ Len(results') = Len(results) + 1
         /\ DOMAIN results = 1..Len(results) /\ DOMAIN results' = 1..(Len(results) + 1)
         /\ \A n \in 1..Len(results) : results'[n] = results[n]
         /\ results'[Len(results) + 1] = r
         /\ GaveUp' = GaveUp \cup (IF r.status = "timeout" THEN {Len(results) + 1} ELSE {})
         /\ Answered' = Answered \cup (IF r.status = "answered" THEN {Len(results) + 1} ELSE {})
         /\ OutOfStep \subseteq OutOfStep'
         /\ GaveUp \subseteq 1..Len(results) /\ Answered \subseteq 1..Len(results)
         /\ r.status = "timeout" \/ (r.status = "answered" /\ Unsolicited(r.final))
              => Len(results) + 1 \in OutOfStep'
<1>1. /\ results' \in Seq(Results) /\ Len(results) \in Nat /\ Len(results') = Len(results) + 1
      /\ DOMAIN results = 1..Len(results) /\ DOMAIN results' = 1..(Len(results) + 1)
      /\ \A n \in 1..Len(results) : results'[n] = results[n]
      /\ results'[Len(results) + 1] = r
  BY AppendFacts DEF TypeOK
<1>2. 1..(Len(results) + 1) = 1..Len(results) \cup {Len(results) + 1} /\ Len(results) + 1 \notin 1..Len(results)
  BY <1>1
<1>3. GaveUp' = GaveUp \cup (IF r.status = "timeout" THEN {Len(results) + 1} ELSE {})
  BY <1>1, <1>2 DEF GaveUp
<1>4. Answered' = Answered \cup (IF r.status = "answered" THEN {Len(results) + 1} ELSE {})
  BY <1>1, <1>2 DEF Answered
<1>5. GaveUp \subseteq 1..Len(results) /\ Answered \subseteq 1..Len(results)
  BY <1>1 DEF GaveUp, Answered
<1>6. OutOfStep \subseteq OutOfStep'
  BY <1>1, <1>3, <1>4, <1>5 DEF OutOfStep, Unsolicited
<1>7. r.status = "timeout" \/ (r.status = "answered" /\ Unsolicited(r.final))
        => Len(results) + 1 \in OutOfStep'
  BY <1>1, <1>3, <1>4 DEF OutOfStep, Unsolicited
<1> QED BY <1>1, <1>3, <1>4, <1>5, <1>6, <1>7

(* Late, of the sends S that are out of step. *)
Behind(k, n, S) == k < n /\ \E m \in S : m <= k

LEMMA TypesOfLines ==
  ASSUME TypeOK
  PROVE  /\ Len(sent) \in Nat /\ Len(results) \in Nat /\ lines \in Nat
         /\ sp_response \in Responses
         /\ \A x \in OnWire : x \in Lines /\ x.id \in Nat /\ x.send \in Nat
         /\ \A x \in Read : x \in Lines /\ x.id \in Nat /\ x.send \in Nat
         /\ \A k \in InModem : k \in Nat
         /\ DOMAIN results = 1..Len(results)
         /\ \A n \in 1..Len(results) : /\ results[n] \in Results
                                       /\ Len(results[n].infos) \in Nat
                                       /\ \A i \in 1..Len(results[n].infos) :
                                            results[n].infos[i] \in Lines
<1>1. /\ Len(sent) \in Nat /\ Len(results) \in Nat /\ lines \in Nat
      /\ sp_response \in Responses
      /\ DOMAIN results = 1..Len(results)
      /\ \A n \in 1..Len(results) : results[n] \in Results
  BY DEF TypeOK
<1>2. \A x \in OnWire : x \in Lines
  BY DEF TypeOK, OnWire
<1>3. \A x \in Read : x \in Lines
  <2>1. sp_response.p_intermediates \in Seq(Lines) /\ sp_response.finalResponse \in Lines \cup {NoLine}
    BY <1>1 DEF Responses
  <2> QED BY <2>1 DEF Read, Infos, Finals
<1>4. \A k \in InModem : k \in Nat
  <2>1. modem \in Seq(Entries)
    BY DEF TypeOK
  <2>2. \A i \in DOMAIN modem : modem[i] \in Entries
    BY <2>1
  <2> QED BY <2>2 DEF InModem, Entries
<1>5. \A n \in 1..Len(results) : results[n].infos \in Seq(Lines)
  BY <1>1 DEF Results
<1>6. \A n \in 1..Len(results) :
        /\ Len(results[n].infos) \in Nat
        /\ \A i \in 1..Len(results[n].infos) : results[n].infos[i] \in Lines
  BY <1>5
<1>7. \A x \in Lines : x.id \in Nat /\ x.send \in Nat
  BY DEF Lines
<1> QED BY <1>1, <1>2, <1>3, <1>4, <1>6, <1>7

-----------------------------------------------------------------------------
(* The modem writes a line, or takes a command off its list, or both.      *)
LEMMA ModemMoves ==
  ASSUME ChannelInv, ~readerClosed,
         UNCHANGED <<sp_response, s_smsPDU, readerClosed, s_atTimeoutCount, sent, results,
                     prompts, reports>>,
         NEW N \in SUBSET Lines, OnWire' = OnWire \cup N, wire' \in Seq(Lines),
         \A i, j \in 1..Len(wire') : i < j => wire'[i].id < wire'[j].id,
         modem' \in Seq(Entries), InModem' \subseteq InModem,
         \A i, j \in 1..Len(modem') : i < j => modem'[i].send < modem'[j].send,
         lines' \in Nat, lines <= lines',
         \A l, m \in N : l = m,
         \A l \in N : /\ lines < l.id /\ l.id <= lines'
                      /\ l.send = 0 \/ l.send \in InModem
                      /\ l.kind \in {"ok", "prompt"} => l.send # 0
                      /\ isFinalResponse(l) /\ l.send # 0 => l.send \notin InModem'
  PROVE  ChannelInv'
<1> USE DEF ChannelInv
<1>t. /\ Len(sent) \in Nat /\ Len(results) \in Nat /\ lines \in Nat
      /\ \A x \in OnWire : x \in Lines /\ x.id \in Nat /\ x.send \in Nat
      /\ \A x \in Read : x \in Lines /\ x.id \in Nat /\ x.send \in Nat
      /\ \A x \in N : x.id \in Nat /\ x.send \in Nat
      /\ \A k \in InModem : k \in Nat
  BY TypesOfLines DEF Lines
<1>u. /\ Read' = Read /\ Finals' = Finals /\ Infos' = Infos /\ pending' = pending /\ current' = current
      /\ OutOfStep' = OutOfStep /\ Answered' = Answered
      /\ \A k, n : Late(k, n)' = Late(k, n)
  BY DEF Read, Finals, Infos, pending, current, OutOfStep, GaveUp, Answered, Unsolicited, Late
<1>1. TypeOK'
  BY DEF TypeOK
<1>2. OneAtATime'
  BY <1>u DEF OneAtATime
<1>3. WireInOrder'
  BY <1>t DEF WireInOrder
<1>4. FinalIsLast'
  <2> SUFFICES ASSUME NEW l \in OnWire', isFinalResponse(l), l.send # 0
               PROVE  /\ l.send \notin InModem'
                      /\ \A x \in OnWire' : x.send = l.send => x.id <= l.id
    BY DEF FinalIsLast
  <2>1. CASE l \in OnWire
    BY <1>t, <2>1 DEF FinalIsLast
  <2>2. CASE l \in N
    BY <1>t, <2>2 DEF WireInOrder
  <2> QED BY <2>1, <2>2
<1>5. InFlight' \subseteq InFlight \cup {0}
  BY <1>t DEF InFlight
<1>6. LeftBehind'
  BY <1>u, <1>5 DEF LeftBehind
<1>7. ReadForSend'
  <2>1. \A x \in Read : /\ 0 < x.id /\ x.id <= lines'
                        /\ \A y \in OnWire' : x.id < y.id
    BY <1>t DEF ReadForSend
  <2>2. Finals # {} => Len(sent) # 0
    BY <1>t DEF ReadForSend, OneAtATime, Read
  <2> QED BY <1>u, <1>5, <2>1, <2>2 DEF ReadForSend
<1>8. InfosNewestFirst' /\ PduOnce' /\ PduGoesToItsPrompt'
  BY <1>u DEF InfosNewestFirst, PduOnce, PduGoesToItsPrompt
<1>9. UsedUp'
  <2>1. ASSUME NEW n \in Answered
        PROVE  /\ results[n].final.id <= lines'
               /\ \A x \in OnWire' \cup Finals : results[n].final.id < x.id
    <3>1. results[n].final.id \in Nat
      <4>1. n \in DOMAIN results /\ results[n] \in Results
        BY TypesOfLines DEF Answered
      <4> QED BY <4>1 DEF Results, Lines, NoLine
    <3> QED BY <1>t, <3>1 DEF UsedUp
  <2> QED BY <1>u, <2>1 DEF UsedUp
<1>10. AnswersOwnUnlessLate' /\ InfosInOrder'
  BY <1>u DEF AnswersOwnUnlessLate, InfosInOrder, Unsolicited
<1> QED BY <1>1, <1>2, <1>3, <1>4, <1>6, <1>7, <1>8, <1>9, <1>10

LEMMA ModemWrites ==
  ASSUME ChannelInv, ~readerClosed,
         UNCHANGED <<sp_response, s_smsPDU, readerClosed, s_atTimeoutCount, sent, results,
                     prompts, reports>>,
         NEW l \in Lines, OnWire' = OnWire \cup {l}, wire' \in Seq(Lines),
         \A i, j \in 1..Len(wire') : i < j => wire'[i].id < wire'[j].id,
         modem' \in Seq(Entries), InModem' \subseteq InModem,
         \A i, j \in 1..Len(modem') : i < j => modem'[i].send < modem'[j].send,
         lines' = lines + 1, l.id = lines + 1,
         l.send = 0 \/ l.send \in InModem,
         l.kind \in {"ok", "prompt"} => l.send # 0,
         isFinalResponse(l) /\ l.send # 0 => l.send \notin InModem'
  PROVE  ChannelInv'
<1>1. lines \in Nat
  BY DEF ChannelInv, TypeOK
<1>2. {l} \in SUBSET Lines /\ lines' \in Nat /\ lines <= lines'
  BY <1>1
<1>3. \A k, m \in {l} : k = m
  OBVIOUS
<1>4. \A k \in {l} : /\ lines < k.id /\ k.id <= lines'
                     /\ k.send = 0 \/ k.send \in InModem
                     /\ k.kind \in {"ok", "prompt"} => k.send # 0
                     /\ isFinalResponse(k) /\ k.send # 0 => k.send \notin InModem'
  BY <1>1
<1> QED BY <1>2, <1>3, <1>4, ModemMoves

LEMMA ModemStep == ASSUME ChannelInv, Modem PROVE ChannelInv'
<1>i. TypeOK /\ WireInOrder /\ sent \in Seq(Commands) /\ Len(sent) \in Nat /\ lines \in Nat
  BY DEF ChannelInv, TypeOK
<1>h. ASSUME modem # <<>>
      PROVE  /\ head \in Entries /\ head = modem[1] /\ head.send \in InModem
             /\ head.send \in Nat \ {0} /\ head.send <= Len(sent)
             /\ sent[head.send] \in Commands
  <2>1. head \in Entries /\ head = modem[1] /\ head.send \in InModem
    BY <1>i, <1>h, ModemHead
  <2>2. head.send \in Nat \ {0} /\ head.send <= Len(sent)
    BY <1>i, <2>1 DEF WireInOrder, Entries
  <2> QED BY <1>i, <2>1, <2>2
<1>1. CASE modemPrompts \/ modemInforms
  <2>1. ~readerClosed /\ modem # <<>>
    BY <1>1 DEF modemPrompts, modemInforms, readyToAnswer
  <2>2. PICK stage \in Stages, infos \in Nat :
          modem' = [modem EXCEPT ![1] = [modem[1] EXCEPT !.stage = stage, !.infos = infos]]
    <3>1. modem \in Seq(Entries) /\ 1 \in DOMAIN modem /\ modem[1] \in Entries
      BY <1>i, <2>1, ModemHead DEF TypeOK
    <3>2. CASE modemPrompts
      <4>1. modem' = [modem EXCEPT ![1] = [modem[1] EXCEPT !.stage = "prompted"]]
        BY <3>2 DEF modemPrompts
      <4>2. [modem[1] EXCEPT !.stage = "prompted"]
              = [modem[1] EXCEPT !.stage = "prompted", !.infos = modem[1].infos]
        BY <3>1 DEF Entries
      <4>3. "prompted" \in Stages /\ modem[1].infos \in Nat
        BY <3>1 DEF Entries, Stages
      <4> QED BY <4>1, <4>2, <4>3
    <3>3. CASE modemInforms
      <4>1. modem' = [modem EXCEPT ![1] = [modem[1] EXCEPT !.infos = modem[1].infos + 1]]
        BY <3>3 DEF modemInforms
      <4>2. [modem[1] EXCEPT !.infos = modem[1].infos + 1]
              = [modem[1] EXCEPT !.stage = modem[1].stage, !.infos = modem[1].infos + 1]
        BY <3>1 DEF Entries
      <4>3. modem[1].stage \in Stages /\ modem[1].infos + 1 \in Nat
        BY <3>1 DEF Entries
      <4> QED BY <4>1, <4>2, <4>3
    <3> QED BY <1>1, <3>2, <3>3
  <2>3. PICK kind \in {"prompt", "info"}, prefix \in Commands \cup {Plain, Other} :
          emit(kind, head.send, prefix)
    BY <1>1, <1>h, <2>1 DEF modemPrompts, modemInforms
  <2>4. PICK l \in Lines :
           /\ l = [kind |-> kind, send |-> head.send, prefix |-> prefix, id |-> lines + 1]
           /\ wire' \in Seq(Lines) /\ OnWire' = OnWire \cup {l}
           /\ \A i, j \in 1..Len(wire') : i < j => wire'[i].id < wire'[j].id
           /\ lines' = lines + 1
    BY <1>i, <1>h, <2>1, <2>3, LineWritten DEF LineKinds
  <2>5. /\ modem' \in Seq(Entries)
        /\ InModem' = InModem
        /\ \A i, j \in 1..Len(modem') : i < j => modem'[i].send < modem'[j].send
    BY <1>i, <2>1, <2>2, EntryGoesOn
  <2>6. UNCHANGED <<sp_response, s_smsPDU, readerClosed, s_atTimeoutCount, sent, results,
                    prompts, reports>>
    BY <2>3 DEF emit
  <2>7. ~isFinalResponse(l) /\ l.send = head.send /\ l.id = lines + 1
    BY <2>4 DEF isFinalResponse
  <2> QED BY <1>i, <1>h, <2>1, <2>4, <2>5, <2>6, <2>7, ModemWrites
<1>2. CASE modemAnswers
  <2>1. ~readerClosed /\ modem # <<>> /\ modem' = Tail(modem)
    BY <1>2 DEF modemAnswers, readyToAnswer
  <2>3. PICK kind \in {"ok", "error"} : emit(kind, head.send, Plain)
    BY <1>2 DEF modemAnswers
  <2>4. PICK l \in Lines :
           /\ l = [kind |-> kind, send |-> head.send, prefix |-> Plain, id |-> lines + 1]
           /\ wire' \in Seq(Lines) /\ OnWire' = OnWire \cup {l}
           /\ \A i, j \in 1..Len(wire') : i < j => wire'[i].id < wire'[j].id
           /\ lines' = lines + 1
    BY <1>i, <1>h, <2>1, <2>3, LineWritten DEF LineKinds
  <2>5. /\ modem' \in Seq(Entries)
        /\ InModem' = InModem \ {head.send}
        /\ \A i, j \in 1..Len(modem') : i < j => modem'[i].send < modem'[j].send
    BY <1>i, <2>1, EntryLeaves
  <2>6. UNCHANGED <<sp_response, s_smsPDU, readerClosed, s_atTimeoutCount, sent, results,
                    prompts, reports>>
    BY <2>3 DEF emit
  <2>7. l.send = head.send /\ l.id = lines + 1
    BY <2>4
  <2> QED BY <1>i, <1>h, <2>1, <2>4, <2>5, <2>6, <2>7, ModemWrites
<1>3. CASE modemDrops
  <2>1. ~readerClosed /\ modem # <<>> /\ modem' = Tail(modem)
    BY <1>3 DEF modemDrops
  <2>2. /\ modem' \in Seq(Entries)
        /\ InModem' \subseteq InModem
        /\ \A i, j \in 1..Len(modem') : i < j => modem'[i].send < modem'[j].send
    BY <1>i, <2>1, EntryLeaves
  <2>3. /\ UNCHANGED <<sp_response, s_smsPDU, readerClosed, s_atTimeoutCount, sent, results,
                       prompts, reports, lines>>
        /\ wire' = wire
    BY <1>3 DEF modemDrops
  <2>4. /\ OnWire' = OnWire \cup {} /\ wire' \in Seq(Lines)
        /\ \A i, j \in 1..Len(wire') : i < j => wire'[i].id < wire'[j].id
    BY <1>i, <2>3 DEF OnWire, TypeOK, WireInOrder
  <2>5. {} \in SUBSET Lines /\ lines' \in Nat /\ lines <= lines'
    BY <1>i, <2>3
  <2> QED BY <1>i, <2>1, <2>2, <2>3, <2>4, <2>5, ModemMoves
<1>4. CASE modemNotifies
  <2>1. ~readerClosed /\ modem' = modem
    BY <1>4 DEF modemNotifies
  <2>3. PICK kind \in {"error", "info"}, prefix \in Commands \cup {Plain, Other} :
          emit(kind, 0, prefix)
    BY <1>4 DEF modemNotifies
  <2>4. PICK l \in Lines :
           /\ l = [kind |-> kind, send |-> 0, prefix |-> prefix, id |-> lines + 1]
           /\ wire' \in Seq(Lines) /\ OnWire' = OnWire \cup {l}
           /\ \A i, j \in 1..Len(wire') : i < j => wire'[i].id < wire'[j].id
           /\ lines' = lines + 1
    BY <1>i, <2>3, LineWritten DEF LineKinds
  <2>5. /\ modem' \in Seq(Entries)
        /\ InModem' = InModem
        /\ \A i, j \in 1..Len(modem') : i < j => modem'[i].send < modem'[j].send
    BY <1>i, <2>1 DEF TypeOK, InModem, WireInOrder
  <2>6. UNCHANGED <<sp_response, s_smsPDU, readerClosed, s_atTimeoutCount, sent, results,
                    prompts, reports>>
    BY <2>3 DEF emit
  <2>7. l.send = 0 /\ l.id = lines + 1 /\ l.kind \notin {"ok", "prompt"}
    BY <2>4
  <2> QED BY <1>i, <2>1, <2>4, <2>5, <2>6, <2>7, ModemWrites
<1> QED BY <1>1, <1>2, <1>3, <1>4 DEF Modem

-----------------------------------------------------------------------------
(* The sender. *)

(* A response that is asked for is empty. *)
LEMMA EmptyResponse ==
  ASSUME NEW n \in Nat
  PROVE  /\ at_response_new(n) \in Responses
         /\ at_response_new(n).send = n
         /\ at_response_new(n).p_intermediates = <<>>
         /\ at_response_new(n).finalResponse = NoLine
         /\ n # 0 => at_response_new(n) # NoResponse
  BY DEF at_response_new, Responses, NoResponse

LEMMA SendStarts ==
  ASSUME ChannelInv, NEW c \in Commands, at_send_command(c)
  PROVE  ChannelInv'
<1> USE DEF ChannelInv
<1> DEFINE n == Len(sent) + 1
<1>t. /\ Len(sent) \in Nat /\ Len(results) \in Nat /\ lines \in Nat
      /\ \A x \in OnWire : x \in Lines /\ x.id \in Nat /\ x.send \in Nat
      /\ \A k \in InModem : k \in Nat
      /\ sent \in Seq(Commands) /\ modem \in Seq(Entries) /\ n \in Nat /\ n # 0
  BY TypesOfLines DEF TypeOK
<1>1. /\ ~pending /\ ~readerClosed
      /\ sent' = Append(sent, c) /\ sp_response' = at_response_new(n)
      /\ s_smsPDU' \in {0, n}
      /\ modem' = Append(modem, [send |-> n, stage |-> "command", infos |-> 0])
      /\ UNCHANGED <<readerClosed, s_atTimeoutCount, wire, results, prompts,
                     reports, lines>>
  BY DEF at_send_command
<1>2. [send |-> n, stage |-> "command", infos |-> 0] \in Entries
  BY <1>t DEF Entries, Stages
<1>3. /\ sent' \in Seq(Commands) /\ Len(sent') = n
      /\ \A k \in 1..Len(sent) : sent'[k] = sent[k]
      /\ sent'[n] = c
  BY <1>t, <1>1, AppendFacts
<1>4. /\ modem' \in Seq(Entries) /\ Len(modem) \in Nat /\ Len(modem') = Len(modem) + 1
      /\ DOMAIN modem = 1..Len(modem) /\ DOMAIN modem' = 1..(Len(modem) + 1)
      /\ \A i \in 1..Len(modem) : modem'[i] = modem[i]
      /\ modem'[Len(modem) + 1] = [send |-> n, stage |-> "command", infos |-> 0]
  BY <1>t, <1>1, <1>2, AppendFacts
<1>5. Len(sent) = Len(results) /\ s_smsPDU = 0
  BY <1>1 DEF OneAtATime
<1>6. InModem' = InModem \cup {n}
  <2>1. /\ InModem' = {modem'[i].send : i \in 1..(Len(modem) + 1)}
        /\ InModem = {modem[i].send : i \in 1..Len(modem)}
    BY <1>4 DEF InModem
  <2>2. 1..(Len(modem) + 1) = 1..Len(modem) \cup {Len(modem) + 1}
    BY <1>4
  <2>3. modem'[Len(modem) + 1].send = n
    BY <1>4
  <2> QED BY <1>4, <2>1, <2>2, <2>3
<1>7. /\ sp_response' \in Responses /\ sp_response'.send = n /\ sp_response'.p_intermediates = <<>>
      /\ sp_response'.finalResponse = NoLine /\ sp_response' # NoResponse
  BY <1>t, <1>1, EmptyResponse
<1>8. pending' /\ Read' = {} /\ Finals' = {} /\ OnWire' = OnWire
      /\ OutOfStep' = OutOfStep /\ Answered' = Answered
  BY <1>1, <1>7 DEF pending, Read, Infos, Finals, OnWire, OutOfStep, GaveUp, Answered, Unsolicited
<1> HIDE DEF n
<1>9. TypeOK'
  BY <1>t, <1>1, <1>3, <1>4, <1>7 DEF TypeOK
<1>10. OneAtATime'
  BY <1>1, <1>3, <1>5, <1>7, <1>8 DEF OneAtATime, n
<1>11. WireInOrder'
  <2>1. \A i \in 1..Len(modem) : modem[i].send \in Nat /\ modem[i].send < n
    <3>1. \A i \in 1..Len(modem) : modem[i].send \in InModem
      BY <1>4 DEF InModem
    <3> QED BY <1>t, <3>1 DEF WireInOrder, n
  <2>2. ASSUME NEW i \in 1..(Len(modem) + 1), NEW j \in 1..(Len(modem) + 1), i < j
        PROVE  modem'[i].send < modem'[j].send
    <3>1. i \in 1..Len(modem) /\ modem'[i].send = modem[i].send
      BY <1>4, <2>2
    <3>2. CASE j \in 1..Len(modem)
      BY <1>4, <2>2, <3>1, <3>2 DEF WireInOrder
    <3>3. CASE j = Len(modem) + 1
      BY <1>4, <2>1, <3>1, <3>3
    <3> QED BY <1>4, <3>2, <3>3
  <2> QED BY <1>t, <1>1, <1>3, <1>4, <1>6, <1>8, <2>2 DEF WireInOrder, n
<1>12. FinalIsLast'
  BY <1>t, <1>6, <1>8 DEF FinalIsLast, WireInOrder, n
<1>13. LeftBehind'
  <2>1. \A k \in InFlight' : k \in InFlight \/ k = n
    BY <1>6, <1>8 DEF InFlight
  <2> QED BY <1>t, <1>1, <1>5, <1>8, <2>1 DEF LeftBehind, n
<1>14. ReadForSend' /\ InfosNewestFirst'
  BY <1>7, <1>8 DEF ReadForSend, InfosNewestFirst
<1>15. UsedUp'
  BY <1>1, <1>8 DEF UsedUp
<1>16. PduOnce' /\ PduGoesToItsPrompt'
  BY <1>t, <1>1, <1>3, <1>5, <1>8 DEF PduOnce, PduGoesToItsPrompt, TypeOK, Late, n
<1>17. AnswersOwnUnlessLate'
  BY <1>1, <1>8 DEF AnswersOwnUnlessLate, Unsolicited, Late
<1>18. InfosInOrder'
  <2>1. \A k \in DOMAIN results : sent'[k] = sent[k]
    BY <1>t, <1>3, <1>5, TypesOfLines
  <2> QED BY <1>1, <1>8, <2>1 DEF InfosInOrder, Late
<1> QED BY <1>9, <1>10, <1>11, <1>12, <1>13, <1>14, <1>15, <1>16, <1>17, <1>18

(* A send returns, or fails at once; what it leaves in flight is covered by*)
(* a send that is out of step.                                             *)
LEMMA ResultRecorded ==
  ASSUME ChannelInv, NEW r \in Results, NEW c \in Commands,
         results' = Append(results, r),
         \/ pending /\ sent' = sent
         \/ ~pending /\ sent' = Append(sent, c),
         sp_response' = NoResponse, s_smsPDU' = 0,
         UNCHANGED <<readerClosed, wire, modem, prompts, lines>>,
         s_atTimeoutCount' \in Nat, reports' \subseteq Nat,
         r.status = "answered" =>
           /\ pending /\ r.final \in Finals
           /\ r.infos = reverseIntermediates(sp_response.p_intermediates),
         r.status # "answered" => r.infos = <<>>,
         Len(results) + 1 \in InFlight => \E m \in OutOfStep' : m <= Len(results) + 1
  PROVE  ChannelInv'
<1> USE DEF ChannelInv
<1> DEFINE n == Len(results) + 1
<1>t. /\ Len(sent) \in Nat /\ Len(results) \in Nat /\ lines \in Nat
      /\ \A x \in OnWire : x \in Lines /\ x.id \in Nat /\ x.send \in Nat
      /\ \A x \in Read : x \in Lines /\ x.id \in Nat /\ x.send \in Nat
      /\ \A k \in InModem : k \in Nat
      /\ sent \in Seq(Commands) /\ n \in Nat /\ n # 0
      /\ sp_response.p_intermediates \in Seq(Lines)
  BY TypesOfLines DEF TypeOK, Responses
<1>a. /\ results' \in Seq(Results) /\ Len(results) \in Nat /\ Len(results') = n
      /\ DOMAIN results = 1..Len(results) /\ DOMAIN results' = 1..n
      /\ \A k \in 1..Len(results) : results'[k] = results[k]
      /\ results'[n] = r
      /\ Answered' = Answered \cup (IF r.status = "answered" THEN {n} ELSE {})
      /\ OutOfStep \subseteq OutOfStep'
      /\ Answered \subseteq 1..Len(results)
  BY ResultAdded
<1>s. /\ sent' \in Seq(Commands) /\ Len(sent') = n
      /\ \A k \in 1..Len(sent) : sent'[k] = sent[k]
      /\ Len(sent) \in {n, n - 1}
      /\ pending => Len(sent) = n /\ current = sent[n]
  <2>1. CASE pending
    BY <1>t, <2>1 DEF OneAtATime, current
  <2>2. CASE ~pending
    <3>1. sent' = Append(sent, c) /\ Len(sent) = Len(results)
      BY <2>2 DEF OneAtATime
    <3>2. /\ Append(sent, c) \in Seq(Commands) /\ Len(Append(sent, c)) = Len(sent) + 1
          /\ \A k \in 1..Len(sent) : Append(sent, c)[k] = sent[k]
      BY <1>t, AppendFacts
    <3> QED BY <1>t, <2>2, <3>1, <3>2
  <2> QED BY <2>1, <2>2
<1>e. /\ NoResponse \in Responses /\ NoResponse.p_intermediates = <<>>
      /\ NoResponse.finalResponse = NoLine
  BY EmptyResponse DEF NoResponse
<1>p. ~pending' /\ Read' = {} /\ Finals' = {} /\ OnWire' = OnWire /\ InModem' = InModem
      /\ InFlight' = InFlight
  BY <1>e DEF pending, Read, Infos, Finals, OnWire, InModem, InFlight
<1>l. \A k, m : Late(k, m) => Behind(k, m, OutOfStep')
  BY <1>a DEF Late, Behind
<1> HIDE DEF n
<1>1. TypeOK'
  BY <1>t, <1>a, <1>s, <1>e DEF TypeOK
<1>2. OneAtATime'
  BY <1>a, <1>s, <1>p DEF OneAtATime
<1>3. WireInOrder' /\ FinalIsLast'
  BY <1>t, <1>s, <1>p DEF WireInOrder, FinalIsLast, n
<1>4. LeftBehind'
  <2> SUFFICES ASSUME NEW k \in InFlight \ {0}, k <= n PROVE \E m \in OutOfStep' : m <= k
    BY <1>a, <1>p DEF LeftBehind
  <2>0. k \in Nat
    BY <1>t DEF InFlight
  <2>1. CASE k = n
    BY <2>1 DEF n
  <2>2. CASE k <= Len(results)
    BY <1>a, <2>2 DEF LeftBehind
  <2> QED BY <1>t, <2>0, <2>1, <2>2 DEF n
<1>5. ReadForSend' /\ InfosNewestFirst'
  BY <1>p, <1>e DEF ReadForSend, InfosNewestFirst
<1>6. UsedUp'
  <2>1. ASSUME r.status = "answered"
        PROVE  r.final.id <= lines /\ \A x \in OnWire : r.final.id < x.id
    BY <2>1 DEF ReadForSend, Read
  <2>2. ASSUME NEW k \in Answered
        PROVE  results'[k].final.id <= lines /\ \A x \in OnWire : results'[k].final.id < x.id
    BY <1>a DEF UsedUp
  <2> QED BY <1>a, <1>p, <2>1, <2>2 DEF UsedUp
<1>7. PduOnce' /\ PduGoesToItsPrompt'
  <2>1. \A p \in prompts : p[2] \in Nat
    BY DEF TypeOK
  <2>2. PduOnce'
    BY <1>t, <1>s, <2>1 DEF PduOnce, n
  <2>3. PduGoesToItsPrompt'
    BY <1>a DEF PduGoesToItsPrompt, Late
  <2> QED BY <2>2, <2>3
<1>8. AnswersOwnUnlessLate'
  <2>1. ASSUME r.status = "answered"
        PROVE  /\ \/ r.final.send = n
                  \/ Unsolicited(r.final)
                  \/ Behind(r.final.send, n, OutOfStep')
               /\ r.final.id \in Nat
               /\ \A k \in Answered : results[k].final.id < r.final.id
    <3>1. r.final \in Read /\ r.final \in Finals /\ Len(sent) = n
      BY <1>s, <2>1 DEF Read
    <3>2. r.final.send \in {0, n} \/ Late(r.final.send, n)
      BY <3>1 DEF ReadForSend
    <3>3. r.final.send = 0 => Unsolicited(r.final)
      BY <3>1 DEF ReadForSend, Unsolicited
    <3>4. \A k \in Answered : results[k].final.id < r.final.id
      BY <3>1 DEF UsedUp
    <3> QED BY <1>t, <1>l, <3>1, <3>2, <3>3, <3>4
  <2>2. \A k \in Answered : results[k].final.id \in Nat
    <3>1. \A k \in Answered : results[k] \in Results
      BY <1>a, TypesOfLines
    <3> QED BY <3>1 DEF Results, Lines, NoLine
  <2>3. \A k \in Answered' : \/ results'[k].final.send = k
                             \/ Unsolicited(results'[k].final)
                             \/ Behind(results'[k].final.send, k, OutOfStep')
    <3>1. ASSUME NEW k \in Answered
          PROVE  \/ results'[k].final.send = k
                 \/ Unsolicited(results'[k].final)
                 \/ Behind(results'[k].final.send, k, OutOfStep')
      BY <1>a, <1>l DEF AnswersOwnUnlessLate
    <3> QED BY <1>a, <2>1, <3>1
  <2>4. \A k, m \in Answered' : results'[k].final.id = results'[m].final.id => k = m
    BY <1>a, <2>1, <2>2 DEF AnswersOwnUnlessLate
  <2> QED BY <2>3, <2>4 DEF AnswersOwnUnlessLate, Unsolicited, Late, Behind
<1>9. InfosInOrder'
  <2> DEFINE Good(k, infos) ==
               /\ \A i, j \in 1..Len(infos) : i < j => infos[i].id < infos[j].id
               /\ Type[sent'[k]] = "SINGLELINE" => Len(infos) <= 1
               /\ \A i \in 1..Len(infos) : infos[i].send \in {0, k} \/ Behind(infos[i].send, k, OutOfStep')
  <2>1. ASSUME NEW k \in 1..Len(results) PROVE Good(k, results'[k].infos)
    <3>1. results'[k].infos = results[k].infos /\ sent'[k] = sent[k] /\ k \in DOMAIN results
      BY <1>t, <1>a, <1>s DEF n
    <3> QED BY <1>l, <3>1 DEF InfosInOrder
  <2>2. ASSUME r.status # "answered" PROVE Good(n, r.infos)
    BY <2>2
  <2>3. ASSUME r.status = "answered" PROVE Good(n, r.infos)
    <3> DEFINE s == sp_response.p_intermediates
               N == Len(s)
    <3>1. /\ N \in Nat /\ Len(r.infos) = N
          /\ \A i \in 1..N : N + 1 - i \in 1..N /\ r.infos[i] = s[N + 1 - i]
      <4>1. s \in Seq(Lines) /\ N \in Nat /\ r.infos = reverseIntermediates(s)
        BY <1>t, <2>3
      <4> QED BY <4>1, ReverseFacts
    <3>2. \A i \in 1..N : s[i] \in Read
      <4>1. DOMAIN s = 1..N
        BY <1>t
      <4> QED BY <4>1 DEF Read, Infos
    <3>3. \A i, j \in 1..N : i < j => s[i].id > s[j].id
      BY DEF InfosNewestFirst
    <3>4. Type[sent'[n]] = "SINGLELINE" => N <= 1
      BY <1>t, <1>s, <2>3 DEF InfosNewestFirst
    <3> HIDE DEF s, N
    <3>5. ASSUME NEW i \in 1..N, NEW j \in 1..N, i < j PROVE r.infos[i].id < r.infos[j].id
      <4>1. N + 1 - j < N + 1 - i
        BY <3>1, <3>5
      <4>2. s[N + 1 - j].id > s[N + 1 - i].id
        BY <3>1, <3>3, <4>1
      <4>3. s[N + 1 - j].id \in Nat /\ s[N + 1 - i].id \in Nat
        BY <1>t, <3>1, <3>2
      <4> QED BY <3>1, <4>2, <4>3
    <3>6. \A i \in 1..N : r.infos[i].send \in {0, n} \/ Behind(r.infos[i].send, n, OutOfStep')
      <4>1. Len(sent) = n
        BY <1>s, <2>3
      <4>2. \A x \in Read : x.send \in {0, n} \/ Late(x.send, n)
        BY <4>1 DEF ReadForSend
      <4>3. \A i \in 1..N : r.infos[i] \in Read
        BY <3>1, <3>2
      <4> QED BY <1>l, <4>2, <4>3
    <3> QED BY <3>1, <3>4, <3>5, <3>6
  <2>4. \A k \in DOMAIN results' : Good(k, results'[k].infos)
    <3>1. \A k \in 1..n : k \in 1..Len(results) \/ k = n
      BY <1>t DEF n
    <3> HIDE DEF Good
    <3> QED BY <1>a, <2>1, <2>2, <2>3, <3>1
  <2> QED BY <2>4 DEF InfosInOrder, Late, Behind
<1> QED BY <1>1, <1>2, <1>3, <1>4, <1>5, <1>6, <1>7, <1>8, <1>9

LEMMA CountTypes ==
  ASSUME s_atTimeoutCount \in Nat, reports \subseteq Nat, NEW n \in Nat, NEW c,
         NEW timedOut \in BOOLEAN, countTimeouts(n, c, timedOut)
  PROVE  s_atTimeoutCount' \in Nat /\ reports' \subseteq Nat
  BY DEF countTimeouts

(* What return may be given leaves nothing behind that is not covered.     *)
LEMMA SendReturns ==
  ASSUME ChannelInv, NEW r \in Results, pending, return(r),
         r.status = "answered" =>
           r.final \in Finals /\ r.infos = reverseIntermediates(sp_response.p_intermediates),
         r.status # "answered" => r.infos = <<>>,
         \/ readerClosed
         \/ r.status = "timeout"
         \/ Finals # {} /\ \A f \in Finals : Unsolicited(f) => r.status = "answered"
  PROVE  ChannelInv'
<1>t. /\ Len(sent) \in Nat /\ Len(results) \in Nat /\ sent \in Seq(Commands)
      /\ Len(sent) = Len(results) + 1 /\ Len(sent) \in DOMAIN sent
      /\ TypeOK /\ OneAtATime
      /\ \A x \in Read : x.send \in Nat
  <2>1. TypeOK /\ OneAtATime
    BY DEF ChannelInv
  <2>2. Len(sent) = Len(results) + 1
    BY <2>1 DEF OneAtATime
  <2>3. sent \in Seq(Commands)
    BY <2>1 DEF TypeOK
  <2> QED BY <2>1, <2>2, <2>3, TypesOfLines
<1>1. /\ results' = Append(results, r) /\ sent' = sent
      /\ sp_response' = NoResponse /\ s_smsPDU' = 0
      /\ UNCHANGED <<readerClosed, wire, modem, prompts, lines>>
      /\ countTimeouts(Len(sent), current, r.status = "timeout")
  BY DEF return, clearPendingCommand
<1>2. s_atTimeoutCount' \in Nat /\ reports' \subseteq Nat
  <2>1. s_atTimeoutCount \in Nat /\ reports \subseteq Nat
    BY <1>t DEF TypeOK
  <2> QED BY <1>t, <1>1, <2>1, CountTypes
<1>3. ASSUME Len(results) + 1 \in InFlight
      PROVE  \E m \in OutOfStep' : m <= Len(results) + 1
  <2>1. CASE readerClosed
    <3>1. wire = <<>> /\ modem = <<>>
      BY <1>t, <2>1 DEF OneAtATime
    <3>2. InFlight = {}
      BY <3>1 DEF InFlight, InModem, OnWire
    <3> QED BY <1>3, <3>2
  <2>2. CASE r.status = "timeout"
    BY <1>t, <1>1, <2>2, ResultAdded
  <2>3. CASE Finals # {} /\ \A f \in Finals : Unsolicited(f) => r.status = "answered"
    <3>1. PICK f \in Finals : TRUE
      BY <2>3
    <3>2. /\ f \in Read /\ f.send \in Nat
          /\ f.send \in {0, Len(sent)} \/ Late(f.send, Len(sent))
          /\ f.send = 0 => Unsolicited(f)
          /\ f.send = Len(sent) => f.send \notin InFlight
      BY <1>t DEF ChannelInv, ReadForSend, Read, Unsolicited
    <3>3. CASE f.send = 0
      <4>1. r.status = "answered" /\ r.final = f
        BY <2>3, <3>2, <3>3 DEF Finals
      <4> QED BY <1>t, <1>1, <3>2, <3>3, <4>1, ResultAdded
    <3>4. CASE Late(f.send, Len(sent))
      <4>1. PICK m \in OutOfStep : m <= f.send
        BY <3>4 DEF Late
      <4>2. m \in Nat /\ m \in OutOfStep'
        BY <1>t, <1>1, ResultAdded DEF OutOfStep
      <4> QED BY <1>t, <3>2, <3>4, <4>1, <4>2 DEF Late
    <3> QED BY <1>t, <1>3, <3>2, <3>3, <3>4
  <2> QED BY <2>1, <2>2, <2>3
<1>4. PICK c \in Commands : TRUE
  BY <1>t
<1> QED BY <1>1, <1>2, <1>3, <1>4, ResultRecorded

LEMMA FailureFacts ==
  ASSUME NEW status \in Statuses \ {"answered"}
  PROVE  /\ Failure(status) \in Results /\ Failure(status).status = status
         /\ Failure(status).infos = <<>>
  BY DEF Failure, Results

LEMMA AnswerFacts ==
  ASSUME TypeOK, sp_response.finalResponse # NoLine
  PROVE  /\ Answer \in Results
         /\ Answer.status \in {"answered", "invalid"}
         /\ Answer.status = "answered" =>
              /\ Answer.final \in Finals
              /\ Answer.infos = reverseIntermediates(sp_response.p_intermediates)
         /\ Answer.status # "answered" => Answer.infos = <<>>
         /\ sp_response.finalResponse.kind # "ok" => Answer.status = "answered"
<1>1. sp_response \in Responses
  BY DEF TypeOK
<1>2. sp_response.p_intermediates \in Seq(Lines) /\ sp_response.finalResponse \in Lines \cup {NoLine}
  BY <1>1 DEF Responses
<1>3. reverseIntermediates(sp_response.p_intermediates) \in Seq(Lines)
  BY <1>2, ReverseFacts
<1>4. Failure("invalid") \in Results /\ Failure("invalid").status = "invalid"
      /\ Failure("invalid").infos = <<>>
  BY FailureFacts DEF Statuses
<1> DEFINE given == [status |-> "answered", final |-> sp_response.finalResponse,
                     infos |-> reverseIntermediates(sp_response.p_intermediates)]
<1>5. given \in Results /\ given.status = "answered" /\ given.final = sp_response.finalResponse
      /\ given.infos = reverseIntermediates(sp_response.p_intermediates)
  BY <1>2, <1>3 DEF Results, Statuses
<1>6. /\ Answer \in {Failure("invalid"), given}
      /\ sp_response.finalResponse.kind # "ok" => Answer = given
  BY DEF Answer
<1> HIDE DEF given
<1>7. sp_response.finalResponse \in Finals
  BY DEF Finals
<1> QED BY <1>4, <1>5, <1>6, <1>7

LEMMA SenderStep == ASSUME ChannelInv, Sender PROVE ChannelInv'
<1>t. TypeOK /\ OneAtATime /\ WireInOrder /\ Len(sent) \in Nat /\ Len(results) \in Nat
  BY TypesOfLines DEF ChannelInv
<1>1. ASSUME NEW c \in Commands, at_send_command(c) PROVE ChannelInv'
  BY <1>1, SendStarts
<1>2. ASSUME NEW c \in Commands, writeFails(c) PROVE ChannelInv'
  <2>1. PICK status \in {"closed", "generic"} : results' = Append(results, Failure(status))
    BY <1>2 DEF writeFails
  <2>2. /\ Failure(status) \in Results /\ Failure(status).status = status
        /\ Failure(status).infos = <<>>
    BY FailureFacts DEF Statuses
  <2>3. PICK r \in Results : r = Failure(status)
    BY <2>2
  <2>4. /\ ~pending /\ sent' = Append(sent, c)
        /\ UNCHANGED <<sp_response, s_smsPDU, readerClosed, wire, modem, prompts, lines>>
        /\ countTimeouts(Len(sent) + 1, c, FALSE)
    BY <1>2 DEF writeFails
  <2>5. sp_response' = NoResponse /\ s_smsPDU' = 0
    BY <1>t, <2>4 DEF pending, OneAtATime
  <2>6. s_atTimeoutCount' \in Nat /\ reports' \subseteq Nat
    BY <1>t, <2>4 DEF countTimeouts, TypeOK
  <2>7. Len(results) + 1 \notin InFlight
    <3>1. Len(sent) = Len(results)
      BY <1>t, <2>4 DEF OneAtATime
    <3> QED BY <1>t, <3>1, TypesOfLines DEF InFlight, WireInOrder
  <2> QED BY <2>1, <2>2, <2>3, <2>4, <2>5, <2>6, <2>7, ResultRecorded
<1>3. CASE wakeAnswered
  <2>1. pending /\ sp_response.finalResponse # NoLine /\ return(Answer)
    BY <1>3 DEF wakeAnswered
  <2>2. PICK r \in Results : r = Answer
    BY <1>t, <2>1, AnswerFacts
  <2>3. /\ r.status \in {"answered", "invalid"}
        /\ r.status = "answered" =>
              /\ r.final \in Finals
              /\ r.infos = reverseIntermediates(sp_response.p_intermediates)
        /\ r.status # "answered" => r.infos = <<>>
        /\ sp_response.finalResponse.kind # "ok" => r.status = "answered"
    BY <1>t, <2>1, <2>2, AnswerFacts
  <2>4. Finals # {} /\ \A f \in Finals : Unsolicited(f) => r.status = "answered"
    BY <2>1, <2>3 DEF Finals, Unsolicited
  <2> QED BY <2>1, <2>2, <2>3, <2>4, SendReturns
<1>4. CASE wakeClosed
  <2>1. PICK r \in Results : r = Failure("closed") /\ r.status = "closed" /\ r.infos = <<>>
    BY FailureFacts DEF Statuses
  <2>2. pending /\ readerClosed /\ return(r)
    BY <1>4, <2>1 DEF wakeClosed
  <2> QED BY <2>1, <2>2, SendReturns
<1>5. CASE timeOut
  <2>1. PICK r \in Results : r = Failure("timeout") /\ r.status = "timeout" /\ r.infos = <<>>
    BY FailureFacts DEF Statuses
  <2>2. pending /\ return(r)
    BY <1>5, <2>1 DEF timeOut
  <2> QED BY <2>1, <2>2, SendReturns
<1> QED BY <1>1, <1>2, <1>3, <1>4, <1>5 DEF Sender

-----------------------------------------------------------------------------
(* The reader. *)

LEMMA ClosingStep == ASSUME ChannelInv, onReaderClosed \/ reopen PROVE ChannelInv'
<1> USE DEF ChannelInv
<1>t. Len(sent) \in Nat /\ Len(results) \in Nat /\ lines \in Nat
  BY TypesOfLines
<1>1. /\ sp_response' = sp_response /\ wire' = <<>> /\ modem' = <<>>
      /\ s_smsPDU' = s_smsPDU
      /\ readerClosed' \in BOOLEAN
      /\ UNCHANGED <<s_atTimeoutCount, sent, results, prompts, reports, lines>>
  <2>1. CASE onReaderClosed
    BY <2>1 DEF onReaderClosed
  <2>2. CASE reopen
    BY <2>2 DEF reopen, clearPendingCommand, pending, OneAtATime
  <2> QED BY <2>1, <2>2
<1>2. OnWire' = {} /\ InModem' = {} /\ InFlight' = {}
  BY <1>1 DEF OnWire, InModem, InFlight
<1>u. /\ Read' = Read /\ Finals' = Finals /\ Infos' = Infos /\ pending' = pending /\ current' = current
      /\ OutOfStep' = OutOfStep /\ Answered' = Answered
      /\ \A k, n : Late(k, n)' = Late(k, n)
  BY <1>1 DEF Read, Finals, Infos, pending, current, OutOfStep, GaveUp, Answered, Unsolicited, Late
<1>3. TypeOK' /\ OneAtATime'
  BY <1>1, <1>u DEF TypeOK, OneAtATime
<1>4. WireInOrder' /\ FinalIsLast' /\ LeftBehind'
  BY <1>1, <1>2 DEF WireInOrder, FinalIsLast, LeftBehind
<1>5. ReadForSend' /\ InfosNewestFirst' /\ UsedUp'
  BY <1>1, <1>2, <1>u DEF ReadForSend, InfosNewestFirst, UsedUp
<1>6. PduOnce' /\ PduGoesToItsPrompt' /\ AnswersOwnUnlessLate' /\ InfosInOrder'
  BY <1>1, <1>u
  DEF PduOnce, PduGoesToItsPrompt, AnswersOwnUnlessLate, InfosInOrder, Unsolicited
<1> QED BY <1>3, <1>4, <1>5, <1>6

(* What the reader knows of the line at the head. *)
LEMMA LineOfSend ==
  ASSUME ChannelInv, NEW l \in OnWire, pending
  PROVE  l.send \in {0, Len(sent)} \/ Late(l.send, Len(sent))
<1>1. /\ Len(sent) \in Nat /\ Len(results) \in Nat /\ Len(sent) = Len(results) + 1
      /\ l.send \in Nat /\ l.send <= Len(sent)
  BY TypesOfLines DEF ChannelInv, OneAtATime, WireInOrder
<1>2. CASE l.send # 0 /\ l.send # Len(sent)
  <2>1. l.send \in InFlight \ {0} /\ l.send <= Len(results)
    BY <1>1, <1>2 DEF InFlight
  <2> QED BY <1>1, <1>2, <2>1 DEF ChannelInv, LeftBehind, Late
<1> QED BY <1>2

(* The reader takes a line off the wire; what it adds to the response or to*)
(* the prompts is the line.                                                *)
LEMMA ReaderTakesLine ==
  ASSUME ChannelInv, NEW l \in Lines, wire # <<>>, l = Head(wire), wire' = Tail(wire),
         ~readerClosed,
         UNCHANGED <<readerClosed, s_atTimeoutCount, sent, results, reports, lines>>,
         sp_response' \in Responses, pending' = pending, sp_response'.send = sp_response.send,
         modem' \in Seq(Entries), InModem' = InModem,
         \A i, j \in 1..Len(modem') : i < j => modem'[i].send < modem'[j].send,
         Read' \subseteq Read \cup {l},
         l \in Read' => pending,
         Finals' = Finals \/ (Finals' = {l} /\ isFinalResponse(l)),
         InfosNewestFirst',
         s_smsPDU' \in {0, s_smsPDU},
         \/ prompts' = prompts
         \/ /\ pending /\ s_smsPDU # 0 /\ s_smsPDU' = 0 /\ l.kind = "prompt"
            /\ prompts' = prompts \cup {<<l.send, s_smsPDU>>}
  PROVE  ChannelInv'
<1> USE DEF ChannelInv
<1>t. /\ Len(sent) \in Nat /\ Len(results) \in Nat /\ lines \in Nat
      /\ \A x \in OnWire : x \in Lines /\ x.id \in Nat /\ x.send \in Nat
      /\ \A x \in Read : x \in Lines /\ x.id \in Nat /\ x.send \in Nat
      /\ l.id \in Nat /\ l.send \in Nat
  BY TypesOfLines DEF Lines
<1>w. /\ l \in OnWire
      /\ wire' \in Seq(Lines)
      /\ OnWire' = OnWire \ {l}
      /\ \A i, j \in 1..Len(wire') : i < j => wire'[i].id < wire'[j].id
      /\ \A x \in OnWire' : l.id < x.id
  BY LineRead
<1>u. /\ OutOfStep' = OutOfStep /\ Answered' = Answered
      /\ InFlight' \subseteq InFlight
  BY <1>w DEF OutOfStep, GaveUp, Answered, Unsolicited, InFlight
<1>l. pending => l.send \in {0, Len(sent)} \/ Late(l.send, Len(sent))
  BY <1>w, LineOfSend
<1>1. TypeOK'
  BY <1>t, <1>w DEF TypeOK
<1>2. OneAtATime'
  BY <1>t DEF OneAtATime
<1>3. WireInOrder' /\ FinalIsLast'
  BY <1>t, <1>w DEF WireInOrder, FinalIsLast
<1>4. LeftBehind'
  BY <1>t, <1>u DEF LeftBehind
<1>5. ReadForSend'
  <2>1. ~pending => Read' = {}
    BY DEF ReadForSend
  <2>2. ASSUME NEW x \in Read'
        PROVE  /\ 0 < x.id /\ x.id <= lines
               /\ \A y \in OnWire' : x.id < y.id
               /\ x.send \in {0, Len(sent)} \/ Late(x.send, Len(sent))
    <3>1. CASE x \in Read
      BY <1>w, <3>1 DEF ReadForSend
    <3>2. CASE x = l
      BY <1>w, <1>l, <2>2, <3>2 DEF WireInOrder
    <3> QED BY <3>1, <3>2
  <2>3. ASSUME NEW x \in Finals'
        PROVE  /\ isFinalResponse(x)
               /\ x.send = 0 => x.kind = "error"
               /\ x.send = Len(sent) => x.send \notin InFlight'
    <3>1. CASE x \in Finals
      BY <1>u, <3>1 DEF ReadForSend
    <3>2. CASE x = l /\ isFinalResponse(l)
      <4>1. x.send = 0 => x.kind = "error"
        BY <1>w, <3>2 DEF WireInOrder, isFinalResponse
      <4>2. ASSUME x.send = Len(sent) PROVE x.send \notin InFlight'
        <5>1. pending /\ x.send # 0
          <6>1. x \in Read'
            BY <2>3 DEF Read
          <6> QED BY <1>t, <3>2, <4>2, <6>1 DEF OneAtATime
        <5>2. x.send \notin InModem /\ \A y \in OnWire : y.send = x.send => y.id <= x.id
          BY <1>w, <3>2, <5>1 DEF FinalIsLast
        <5>3. \A y \in OnWire' : y.send # x.send
          BY <1>t, <1>w, <3>2, <5>2
        <5> QED BY <5>2, <5>3 DEF InFlight
      <4> QED BY <3>2, <4>1, <4>2
    <3> QED BY <2>3, <3>1, <3>2
  <2> QED BY <1>u, <2>1, <2>2, <2>3 DEF ReadForSend, Late
<1>6. UsedUp'
  <2>1. ASSUME NEW n \in Answered
        PROVE  /\ results[n].final.id <= lines
               /\ \A x \in OnWire' \cup Finals' : results[n].final.id < x.id
    BY <1>w DEF UsedUp
  <2> QED BY <1>u, <2>1 DEF UsedUp
<1>7. PduOnce' /\ PduGoesToItsPrompt'
  <2>1. CASE prompts' = prompts
    BY <1>u, <2>1 DEF PduOnce, PduGoesToItsPrompt, Late
  <2>2. CASE /\ pending /\ s_smsPDU # 0 /\ s_smsPDU' = 0 /\ l.kind = "prompt"
             /\ prompts' = prompts \cup {<<l.send, s_smsPDU>>}
    <3>1. s_smsPDU = Len(sent)
      BY <2>2 DEF OneAtATime
    <3>2. l.send # 0
      BY <1>w, <2>2 DEF WireInOrder
    <3>3. PduOnce'
      BY <1>t, <2>2, <3>1 DEF PduOnce
    <3>4. \A p, q \in prompts' : p[2] = q[2] => p = q
      BY <2>2 DEF PduOnce, PduGoesToItsPrompt
    <3>5. \A p \in prompts' : p[1] = p[2] \/ Late(p[1], p[2])
      BY <1>l, <2>2, <3>1, <3>2 DEF PduGoesToItsPrompt
    <3> QED BY <1>u, <3>3, <3>4, <3>5 DEF PduGoesToItsPrompt, Late
  <2> QED BY <2>1, <2>2
<1>8. AnswersOwnUnlessLate' /\ InfosInOrder'
  BY <1>u DEF AnswersOwnUnlessLate, InfosInOrder, Unsolicited, Late
<1> QED BY <1>1, <1>2, <1>3, <1>4, <1>5, <1>6, <1>7, <1>8

(* addIntermediate keeps the newest line at the head, and a command that   *)
(* wants one line gets one.                                                *)
LEMMA IntermediateAdded ==
  ASSUME ChannelInv, pending, NEW l \in OnWire, isIntermediate(l), addIntermediate(l),
         UNCHANGED sent
  PROVE  /\ sp_response' \in Responses /\ pending' /\ sp_response'.send = sp_response.send
         /\ Infos' = Infos \cup {l} /\ Finals' = Finals
         /\ InfosNewestFirst'
<1> DEFINE s == sp_response.p_intermediates
           t == <<l>> \o s
<1>1. /\ sp_response \in Responses /\ s \in Seq(Lines) /\ l \in Lines /\ l.id \in Nat
      /\ sp_response.finalResponse \in Lines \cup {NoLine}
      /\ \A x \in Infos : x.id \in Nat /\ x.id < l.id
  <2>1. sp_response \in Responses /\ l \in Lines /\ l.id \in Nat
    BY TypesOfLines DEF ChannelInv
  <2>2. \A x \in Infos : x.id \in Nat /\ x.id < l.id
    BY TypesOfLines DEF ChannelInv, ReadForSend, Read
  <2> QED BY <2>1, <2>2 DEF Responses
<1>2. /\ t \in Seq(Lines) /\ Len(s) \in Nat /\ Len(t) = Len(s) + 1 /\ t[1] = l
      /\ \A i \in 2..(Len(s) + 1) : i - 1 \in 1..Len(s) /\ t[i] = s[i - 1]
  BY <1>1, PushFacts
<1>3. DOMAIN s = 1..Len(s) /\ DOMAIN t = 1..(Len(s) + 1)
  BY <1>1, <1>2
<1>4. Infos = {s[i] : i \in 1..Len(s)}
  BY <1>3 DEF Infos
<1> HIDE DEF t
<1>5. sp_response' = [sp_response EXCEPT !.p_intermediates = t]
  BY DEF addIntermediate, t
<1>6. /\ sp_response' \in Responses /\ sp_response'.p_intermediates = t
      /\ sp_response'.send = sp_response.send
      /\ sp_response'.finalResponse = sp_response.finalResponse
  BY <1>1, <1>2, <1>5 DEF Responses
<1>7. pending'
  <2>1. t # <<>>
    BY <1>2
  <2> QED BY <1>6, <2>1, EmptyResponse DEF pending, NoResponse
<1>8. Finals' = Finals
  BY <1>6 DEF Finals
<1>9. Infos' = Infos \cup {l}
  <2>1. Infos' = {t[i] : i \in 1..(Len(s) + 1)}
    BY <1>3, <1>6 DEF Infos
  <2>2. ASSUME NEW x \in Infos PROVE x \in Infos'
    <3>1. PICK i \in 1..Len(s) : x = s[i]
      BY <1>4
    <3>2. i + 1 \in 2..(Len(s) + 1) /\ (i + 1) - 1 = i /\ i + 1 \in 1..(Len(s) + 1)
      BY <1>2
    <3> QED BY <1>2, <2>1, <3>1, <3>2
  <2>3. \A i \in 1..(Len(s) + 1) : i = 1 \/ i \in 2..(Len(s) + 1)
    BY <1>2
  <2>4. 1 \in 1..(Len(s) + 1)
    BY <1>2
  <2>5. l \in Infos'
    BY <1>2, <2>1, <2>4
  <2>6. ASSUME NEW x \in Infos' PROVE x \in Infos \cup {l}
    <3>1. PICK i \in 1..(Len(s) + 1) : x = t[i]
      BY <2>1
    <3> QED BY <1>2, <1>4, <2>3, <3>1
  <2> QED BY <2>2, <2>5, <2>6
<1>10. InfosNewestFirst'
  <2>1. ASSUME NEW i \in 1..(Len(s) + 1), NEW j \in 1..(Len(s) + 1), i < j
        PROVE  t[i].id > t[j].id
    <3>1. j \in 2..(Len(s) + 1)
      BY <1>2, <2>1
    <3>2. j - 1 \in 1..Len(s) /\ t[j] = s[j - 1] /\ s[j - 1] \in Infos
      BY <1>2, <1>4, <3>1
    <3>3. CASE i = 1
      BY <1>1, <1>2, <3>2, <3>3
    <3>4. CASE i # 1
      <4>1. i - 1 \in 1..Len(s) /\ t[i] = s[i - 1] /\ i - 1 < j - 1
        BY <1>2, <2>1, <3>4
      <4> QED BY <3>2, <4>1 DEF ChannelInv, InfosNewestFirst
    <3> QED BY <3>3, <3>4
  <2>2. ASSUME Type[current] = "SINGLELINE" PROVE Len(t) <= 1
    <3>1. s = <<>>
      BY <2>2 DEF isIntermediate
    <3> QED BY <1>2, <3>1
  <2>3. current' = current
    BY <1>6 DEF current
  <2> QED BY <1>2, <1>6, <2>1, <2>2, <2>3 DEF InfosNewestFirst
<1> QED BY <1>6, <1>7, <1>8, <1>9, <1>10

(* The modem takes a PDU at its prompt. *)
LEMMA PduTaken ==
  ASSUME TypeOK, WireInOrder, NEW l, writeCtrlZ(l)
  PROVE  /\ modem' \in Seq(Entries) /\ InModem' = InModem
         /\ \A i, j \in 1..Len(modem') : i < j => modem'[i].send < modem'[j].send
<1>1. CASE modem # <<>> /\ head.stage = "prompted"
  <2>1. modem' = [modem EXCEPT ![1] = [modem[1] EXCEPT !.stage = "pdu"]]
    BY <1>1 DEF writeCtrlZ, head
  <2>2. PICK stage \in Stages, infos \in Nat :
          modem' = [modem EXCEPT ![1] = [modem[1] EXCEPT !.stage = stage, !.infos = infos]]
    <3>1. modem[1] \in Entries
      BY <1>1, ModemHead
    <3>2. [modem[1] EXCEPT !.stage = "pdu"]
            = [modem[1] EXCEPT !.stage = "pdu", !.infos = modem[1].infos]
      BY <3>1 DEF Entries
    <3>3. "pdu" \in Stages /\ modem[1].infos \in Nat
      BY <3>1 DEF Entries, Stages
    <3> QED BY <2>1, <3>2, <3>3, Zenon
  <2> QED BY <1>1, <2>2, EntryGoesOn, Zenon
<1>2. CASE ~(modem # <<>> /\ head.stage = "prompted")
  <2>1. modem' = modem
    BY <1>2 DEF writeCtrlZ, head
  <2> QED BY <2>1 DEF TypeOK, InModem, WireInOrder
<1> QED BY <1>1, <1>2

LEMMA ReadLineStep == ASSUME ChannelInv, readLine PROVE ChannelInv'
<1>1. /\ ~readerClosed /\ wire # <<>> /\ processLine(Head(wire)) /\ wire' = Tail(wire)
      /\ UNCHANGED <<readerClosed, s_atTimeoutCount, sent, results, reports, lines>>
  BY DEF readLine
<1>2. /\ Head(wire) \in OnWire /\ Head(wire) \in Lines
      /\ TypeOK /\ WireInOrder /\ sp_response \in Responses /\ modem \in Seq(Entries)
      /\ sp_response.finalResponse \in Lines \cup {NoLine}
      /\ sp_response.p_intermediates \in Seq(Lines)
  <2>1. TypeOK /\ WireInOrder
    BY DEF ChannelInv
  <2> QED BY <1>1, <2>1, LineRead DEF TypeOK, Responses
<1>3. PICK l \in Lines : l = Head(wire)
  BY <1>2
<1>m. ASSUME modem' = modem
      PROVE  /\ modem' \in Seq(Entries) /\ InModem' = InModem
             /\ \A i, j \in 1..Len(modem') : i < j => modem'[i].send < modem'[j].send
  BY <1>2, <1>m DEF InModem, WireInOrder
<1>r. ASSUME sp_response' = sp_response
      PROVE  /\ sp_response' \in Responses /\ pending' = pending /\ Read' = Read
             /\ sp_response'.send = sp_response.send /\ Finals' = Finals
             /\ InfosNewestFirst' /\ Read' \subseteq Read \cup {l}
             /\ l \in Read' => pending
  BY <1>1, <1>2, <1>r
  DEF ChannelInv, pending, Read, Infos, Finals, InfosNewestFirst, current, ReadForSend
<1>4. CASE /\ pending /\ isFinalResponse(l) /\ handleFinalResponse(l)
           /\ UNCHANGED <<s_smsPDU, prompts, modem>>
  <2>1. sp_response' = [sp_response EXCEPT !.finalResponse = l]
    BY <1>4 DEF handleFinalResponse
  <2>2. /\ sp_response' \in Responses /\ sp_response'.finalResponse = l
        /\ sp_response'.send = sp_response.send
        /\ sp_response'.p_intermediates = sp_response.p_intermediates
    BY <1>2, <2>1 DEF Responses
  <2>3. l # NoLine
    BY NoLineIsNone
  <2>4. pending' /\ Finals' = {l} /\ Infos' = Infos /\ current' = current
    BY <1>1, <2>2, <2>3, EmptyResponse DEF pending, NoResponse, Finals, Infos, current
  <2>5. InfosNewestFirst'
    BY <1>4, <2>2, <2>4 DEF ChannelInv, InfosNewestFirst
  <2>6. Read' \subseteq Read \cup {l}
    BY <2>4 DEF Read
  <2> QED BY <1>1, <1>3, <1>4, <1>m, <2>2, <2>4, <2>5, <2>6, ReaderTakesLine
<1>5. CASE /\ pending /\ isPrompt(l) /\ writeCtrlZ(l) /\ s_smsPDU' = 0
           /\ UNCHANGED sp_response
  <2>1. /\ modem' \in Seq(Entries) /\ InModem' = InModem
        /\ \A i, j \in 1..Len(modem') : i < j => modem'[i].send < modem'[j].send
    BY <1>2, <1>5, PduTaken
  <2>2. l.kind = "prompt" /\ s_smsPDU # 0 /\ prompts' = prompts \cup {<<l.send, s_smsPDU>>}
    BY <1>5 DEF isPrompt, writeCtrlZ
  <2> QED BY <1>1, <1>3, <1>5, <1>r, <2>1, <2>2, ReaderTakesLine
<1>6. CASE /\ pending /\ isIntermediate(l) /\ addIntermediate(l)
           /\ UNCHANGED <<s_smsPDU, prompts, modem>>
  <2>1. /\ sp_response' \in Responses /\ pending' /\ sp_response'.send = sp_response.send
        /\ Infos' = Infos \cup {l} /\ Finals' = Finals
        /\ InfosNewestFirst'
    BY <1>1, <1>2, <1>3, <1>6, IntermediateAdded
  <2>2. Read' \subseteq Read \cup {l}
    BY <2>1 DEF Read
  <2> QED BY <1>1, <1>3, <1>6, <1>m, <2>1, <2>2, ReaderTakesLine
<1>7. CASE UNCHANGED <<sp_response, s_smsPDU, prompts, modem>>
  BY <1>1, <1>3, <1>7, <1>m, <1>r, ReaderTakesLine
<1> QED BY <1>1, <1>3, <1>4, <1>5, <1>6, <1>7 DEF processLine

-----------------------------------------------------------------------------
LEMMA ChannelInit == Init => ChannelInv
<1> SUFFICES ASSUME Init PROVE ChannelInv
  OBVIOUS
<1>1. /\ sp_response = NoResponse /\ NoResponse \in Responses
      /\ sp_response.p_intermediates = <<>> /\ sp_response.finalResponse = NoLine
  BY EmptyResponse DEF Init, NoResponse
<1>e. <<>> \in Seq(Lines) /\ <<>> \in Seq(Entries) /\ <<>> \in Seq(Commands) /\ <<>> \in Seq(Results)
  OBVIOUS
<1>f. /\ sp_response \in Responses /\ s_smsPDU \in Nat /\ readerClosed \in BOOLEAN
      /\ s_atTimeoutCount \in Nat /\ lines \in Nat
      /\ prompts \subseteq Nat \X Nat /\ reports \subseteq Nat
  BY <1>1 DEF Init
<1>g. wire = <<>> /\ modem = <<>> /\ sent = <<>> /\ results = <<>>
  BY DEF Init
<1>2. TypeOK
  BY <1>e, <1>f, <1>g, Zenon DEF TypeOK
<1>3. ~pending /\ OnWire = {} /\ InModem = {} /\ InFlight = {} /\ Read = {} /\ Finals = {}
      /\ Answered = {}
  BY <1>1 DEF Init, pending, OnWire, InModem, InFlight, Read, Infos, Finals, Answered
<1> QED
  BY <1>1, <1>2, <1>3
  DEF Init, ChannelInv, OneAtATime, WireInOrder, FinalIsLast, LeftBehind, ReadForSend,
      InfosNewestFirst, UsedUp, PduOnce, AnswersOwnUnlessLate, InfosInOrder, PduGoesToItsPrompt

LEMMA ChannelStep == ChannelInv /\ [Next]_vars => ChannelInv'
<1> SUFFICES ASSUME ChannelInv, [Next]_vars PROVE ChannelInv'
  OBVIOUS
<1>1. CASE Next
  BY <1>1, SenderStep, ReadLineStep, ClosingStep, ModemStep DEF Next, Reader
<1>2. CASE UNCHANGED vars
  <2>1. /\ sp_response' = sp_response /\ s_smsPDU' = s_smsPDU /\ readerClosed' = readerClosed
        /\ s_atTimeoutCount' = s_atTimeoutCount /\ wire' = wire /\ modem' = modem /\ sent' = sent
        /\ results' = results /\ prompts' = prompts /\ reports' = reports /\ lines' = lines
    BY <1>2 DEF vars
  <2>2. /\ pending' = pending /\ current' = current /\ OnWire' = OnWire /\ InModem' = InModem
        /\ Infos' = Infos /\ Finals' = Finals /\ GaveUp' = GaveUp /\ Answered' = Answered
    BY <2>1 DEF pending, current, OnWire, InModem, Infos, Finals, GaveUp, Answered
  <2>3. InFlight' = InFlight /\ Read' = Read /\ OutOfStep' = OutOfStep
    BY <2>1, <2>2 DEF InFlight, Read, OutOfStep
  <2>4. TypeOK' /\ OneAtATime'
    BY <2>1, <2>2 DEF ChannelInv, TypeOK, OneAtATime
  <2>5. WireInOrder' /\ FinalIsLast' /\ LeftBehind'
    BY <2>1, <2>2, <2>3 DEF ChannelInv, WireInOrder, FinalIsLast, isFinalResponse, LeftBehind
  <2>6. ReadForSend' /\ InfosNewestFirst'
    BY <2>1, <2>2, <2>3 DEF ChannelInv, ReadForSend, InfosNewestFirst, isFinalResponse, Late
  <2>7. UsedUp' /\ PduOnce' /\ PduGoesToItsPrompt'
    BY <2>1, <2>2, <2>3 DEF ChannelInv, UsedUp, PduOnce, PduGoesToItsPrompt, Late
  <2>8. AnswersOwnUnlessLate'
    BY <2>1, <2>2, <2>3 DEF ChannelInv, AnswersOwnUnlessLate, Unsolicited, Late
  <2>9. InfosInOrder'
    BY <2>1, <2>2, <2>3 DEF ChannelInv, InfosInOrder, Late
  <2> QED BY <2>4, <2>5, <2>6, <2>7, <2>8, <2>9 DEF ChannelInv
<1> QED BY <1>1, <1>2

THEOREM ChannelIsInvariant == Spec => []ChannelInv
  BY ChannelInit, ChannelStep, PTL DEF Spec

(* A thread gets the final line of its own command unless an earlier send  *)
(* timed out or was cut short by an unsolicited NO CARRIER, and no line    *)
(* answers two sends: at_send_command_full_nolock never drains the channel,*)
(* and that is all it costs.                                               *)
THEOREM OwnAnswers == Spec => []AnswersOwnUnlessLate
  BY ChannelIsInvariant, PTL DEF ChannelInv

(* The intermediate lines come back in the order in which they were        *)
(* written, one at most for a single-line command, and are those of the    *)
(* command unless the channel runs behind.                                 *)
THEOREM OrderedInfos == Spec => []InfosInOrder
  BY ChannelIsInvariant, PTL DEF ChannelInv

(* An SMS PDU is written once, at the prompt of its own command unless the *)
(* channel runs behind.                                                    *)
THEOREM PduAtItsPrompt == Spec => []PduGoesToItsPrompt
  BY ChannelIsInvariant, PTL DEF ChannelInv

-----------------------------------------------------------------------------
(* The sends in a row up to the n-th that timed out (G) with no report (R) *)
(* between them: what BlockedReported counts.                              *)
Run(n, G, R) == {m \in 1..n : /\ \A k \in m..n : k \in G
                              /\ \A k \in m..(n - 1) : k \notin R}

LEMMA ReportsOfRuns ==
  /\ BlockedReported <=>
       reports = {n \in GaveUp : \/ sent[n] \in Critical
                                 \/ Cardinality(Run(n, GaveUp, reports)) = BLOCKED_MAX_COUNT + 1}
  /\ BlockedReported' <=>
       reports' = {n \in GaveUp' : \/ sent'[n] \in Critical
                                   \/ Cardinality(Run(n, GaveUp', reports')) = BLOCKED_MAX_COUNT + 1}
  BY DEF BlockedReported, Run

(* A later send changes nothing of a run. *)
LEMMA RunStays ==
  ASSUME NEW N \in Nat, NEW G, NEW R, NEW G2, NEW R2,
         \A k \in 1..N : (k \in G2 <=> k \in G) /\ (k \in R2 <=> k \in R),
         NEW n \in 1..N
  PROVE  Run(n, G2, R2) = Run(n, G, R)
<1>1. ASSUME NEW m \in 1..n
      PROVE  /\ \A k \in m..n : k \in 1..N
             /\ \A k \in m..(n - 1) : k \in 1..N
  BY <1>1
<1> QED BY <1>1 DEF Run

(* The run of a send that times out begins after the last send that did    *)
(* not, or that was reported.                                              *)
LEMMA RunOfTimeout ==
  ASSUME NEW N \in Nat, NEW c \in Nat, c <= N, NEW G, NEW R,
         N + 1 \in G,
         \A k \in (N - c + 1)..N : k \in G /\ k \notin R,
         N - c > 0 => ~(N - c \in G /\ N - c \notin R)
  PROVE  Cardinality(Run(N + 1, G, R)) = c + 1
<1>1. ASSUME NEW m \in 1..(N + 1), N - c + 1 <= m
      PROVE  m \in Run(N + 1, G, R)
  <2>1. \A k \in m..(N + 1) : k \in G
    BY <1>1
  <2>2. \A k \in m..N : k \notin R
    BY <1>1
  <2> QED BY <2>1, <2>2 DEF Run
<1>2. ASSUME NEW m \in Run(N + 1, G, R), m <= N - c PROVE FALSE
  <2>1. m \in 1..(N + 1) /\ N - c \in m..(N + 1) /\ N - c \in m..N /\ N - c > 0
    BY <1>2 DEF Run
  <2> QED BY <1>2, <2>1 DEF Run
<1>3. Run(N + 1, G, R) \subseteq 1..(N + 1)
  BY DEF Run
<1>4. Run(N + 1, G, R) = (N - c + 1)..(N + 1)
  <2>1. ASSUME NEW m \in Run(N + 1, G, R) PROVE m \in (N - c + 1)..(N + 1)
    <3>1. m \in 1..(N + 1) /\ ~(m <= N - c)
      BY <1>2, <1>3
    <3> QED BY <3>1
  <2>2. ASSUME NEW m \in (N - c + 1)..(N + 1) PROVE m \in Run(N + 1, G, R)
    <3>1. m \in 1..(N + 1) /\ N - c + 1 <= m
      OBVIOUS
    <3> QED BY <1>1, <3>1
  <2> QED BY <2>1, <2>2
<1>5. N - c + 1 \in Int /\ N + 1 \in Int /\ ~(N - c + 1 > N + 1)
      /\ (N + 1) - (N - c + 1) + 1 = c + 1
  OBVIOUS
<1>6. Cardinality((N - c + 1)..(N + 1)) = (N + 1) - (N - c + 1) + 1
  BY <1>5, FS_Interval
<1> QED BY <1>4, <1>5, <1>6

(* A send that returns r adds to the count and to the reports.             *)
LEMMA SendCounted ==
  ASSUME TypeOK, TimeoutsInARow, BlockedReported,
         NEW N \in Nat, N = Len(results), NEW r \in Results, NEW c \in Commands,
         results' = Append(results, r),
         \A k \in 1..N : sent'[k] = sent[k],
         sent'[N + 1] = c,
         countTimeouts(N + 1, c, r.status = "timeout")
  PROVE  TimeoutsInARow' /\ BlockedReported'
<1>1. /\ Len(results') = N + 1 /\ GaveUp \subseteq 1..N
      /\ GaveUp' = GaveUp \cup (IF r.status = "timeout" THEN {N + 1} ELSE {})
  BY ResultAdded
<1>2. PICK count \in Nat : count = s_atTimeoutCount
  BY DEF TypeOK
<1>3. BLOCKED_MAX_COUNT \in Nat \ {0}
  BY ChannelAssumption
<1>4. /\ count <= BLOCKED_MAX_COUNT /\ count <= N
      /\ \A k \in (N - count + 1)..N : k \in GaveUp /\ k \notin reports
      /\ N - count > 0 => ~(N - count \in GaveUp /\ N - count \notin reports)
  BY <1>2, <1>3 DEF TimeoutsInARow
<1>5. reports \subseteq GaveUp /\ N + 1 \notin GaveUp /\ N + 1 \notin reports
  BY <1>1, ReportsOfRuns
<1> DEFINE timedOut == r.status = "timeout"
           report   == timedOut /\ (count + 1 > BLOCKED_MAX_COUNT \/ c \in Critical)
<1>6. /\ s_atTimeoutCount' = IF timedOut /\ ~report THEN count + 1 ELSE 0
      /\ reports' = IF report THEN reports \cup {N + 1} ELSE reports
  BY <1>2 DEF countTimeouts
<1>7. /\ N + 1 \in GaveUp' <=> timedOut
      /\ N + 1 \in reports' <=> report
      /\ reports' \subseteq GaveUp'
      /\ GaveUp' \subseteq GaveUp \cup {N + 1} /\ GaveUp \subseteq GaveUp'
      /\ \A k \in 1..N : (k \in GaveUp' <=> k \in GaveUp) /\ (k \in reports' <=> k \in reports)
  <2> HIDE DEF report, timedOut
  <2>1. GaveUp' = GaveUp \cup (IF timedOut THEN {N + 1} ELSE {})
    BY <1>1 DEF timedOut
  <2>2. N + 1 \notin 1..N /\ (report => timedOut)
    BY DEF report
  <2> QED BY <1>5, <1>6, <2>1, <2>2
<1>8. ASSUME NEW n \in GaveUp
      PROVE  n \in reports' <=> \/ sent'[n] \in Critical
                                \/ Cardinality(Run(n, GaveUp', reports')) = BLOCKED_MAX_COUNT + 1
  <2>1. n \in 1..N /\ sent'[n] = sent[n]
    BY <1>1
  <2>2. Run(n, GaveUp', reports') = Run(n, GaveUp, reports)
    BY <1>7, <2>1, RunStays
  <2>3. n \in reports <=> \/ sent[n] \in Critical
                          \/ Cardinality(Run(n, GaveUp, reports)) = BLOCKED_MAX_COUNT + 1
    BY ReportsOfRuns
  <2> QED BY <1>7, <2>1, <2>2, <2>3
<1>9. ASSUME timedOut
      PROVE  N + 1 \in reports' <=> \/ sent'[N + 1] \in Critical
                                    \/ Cardinality(Run(N + 1, GaveUp', reports')) = BLOCKED_MAX_COUNT + 1
  <2>1. \A k \in (N - count + 1)..N : k \in GaveUp' /\ k \notin reports'
    BY <1>4, <1>7
  <2>2. N - count > 0 => ~(N - count \in GaveUp' /\ N - count \notin reports')
    BY <1>4, <1>7
  <2>3. Cardinality(Run(N + 1, GaveUp', reports')) = count + 1
    BY <1>4, <1>7, <1>9, <2>1, <2>2, RunOfTimeout
  <2>4. count + 1 > BLOCKED_MAX_COUNT <=> count + 1 = BLOCKED_MAX_COUNT + 1
    BY <1>3, <1>4
  <2> QED BY <1>7, <1>9, <2>3, <2>4
<1>10. BlockedReported'
  <2>1. reports' = {n \in GaveUp' : \/ sent'[n] \in Critical
                                    \/ Cardinality(Run(n, GaveUp', reports')) = BLOCKED_MAX_COUNT + 1}
    BY <1>7, <1>8, <1>9
  <2> QED BY <2>1, ReportsOfRuns
<1>11. TimeoutsInARow'
  <2>1. CASE timedOut /\ ~report
    <3>1. s_atTimeoutCount' = count + 1 /\ count + 1 <= BLOCKED_MAX_COUNT
          /\ Len(results') - s_atTimeoutCount' = N - count
      BY <1>1, <1>3, <1>6, <2>1
    <3>2. \A k \in (N - count + 1)..(N + 1) : k \in GaveUp' \ reports'
      BY <1>4, <1>7, <2>1
    <3>3. N - count > 0 => N - count \notin GaveUp' \ reports'
      BY <1>4, <1>7
    <3> QED BY <1>1, <1>4, <3>1, <3>2, <3>3 DEF TimeoutsInARow
  <2>2. CASE ~(timedOut /\ ~report)
    <3>1. s_atTimeoutCount' = 0 /\ Len(results') - s_atTimeoutCount' = N + 1
      BY <1>1, <1>6, <2>2
    <3>2. N + 1 \notin GaveUp' \ reports'
      BY <1>7, <2>2
    <3> QED BY <1>1, <1>3, <3>1, <3>2 DEF TimeoutsInARow
  <2> QED BY <2>1, <2>2
<1> QED BY <1>10, <1>11

(* What no send has returned from leaves the count and the reports alone.  *)
LEMMA NothingCounted ==
  ASSUME TimeoutsInARow, BlockedReported, TypeOK,
         UNCHANGED <<results, reports, s_atTimeoutCount>>,
         \A k \in 1..Len(results) : sent'[k] = sent[k]
  PROVE  TimeoutsInARow' /\ BlockedReported'
<1>1. GaveUp' = GaveUp
  BY DEF GaveUp
<1>2. TimeoutsInARow'
  BY <1>1 DEF TimeoutsInARow
<1>3. \A n \in GaveUp : n \in 1..Len(results)
  BY DEF GaveUp, TypeOK
<1>4. \A n \in GaveUp : sent'[n] = sent[n]
  BY <1>3
<1>5. reports' = reports
  OBVIOUS
<1> QED BY <1>1, <1>2, <1>4, <1>5, ReportsOfRuns

LEMMA ReturnCounted ==
  ASSUME BlockedInv, pending, NEW r \in Results, return(r)
  PROVE  TimeoutsInARow' /\ BlockedReported'
<1>1. TypeOK /\ OneAtATime /\ TimeoutsInARow /\ BlockedReported /\ sp_response \in Responses
  BY DEF BlockedInv, ChannelInv, TypeOK
<1>2. PICK N \in Nat : N = Len(results)
  BY <1>1 DEF TypeOK
<1>3. Len(sent) = N + 1 /\ current = sent[N + 1] /\ sent[N + 1] \in Commands
  BY <1>1, <1>2 DEF OneAtATime, current, TypeOK
<1>4. PICK c \in Commands : c = current
  BY <1>3
<1>5. /\ results' = Append(results, r) /\ sent' = sent
      /\ countTimeouts(N + 1, c, r.status = "timeout")
  BY <1>3, <1>4 DEF return
<1> QED BY <1>1, <1>2, <1>3, <1>4, <1>5, SendCounted

LEMMA FailedWriteCounted ==
  ASSUME BlockedInv, NEW c \in Commands, writeFails(c)
  PROVE  TimeoutsInARow' /\ BlockedReported'
<1>1. TypeOK /\ OneAtATime /\ TimeoutsInARow /\ BlockedReported
  BY DEF BlockedInv, ChannelInv
<1>2. PICK N \in Nat : N = Len(results)
  BY <1>1 DEF TypeOK
<1>3. Len(sent) = N /\ sent \in Seq(Commands)
  BY <1>1, <1>2 DEF OneAtATime, writeFails, TypeOK
<1>4. sent' = Append(sent, c) /\ countTimeouts(N + 1, c, FALSE)
  BY <1>3 DEF writeFails
<1>5. (\A k \in 1..N : sent'[k] = sent[k]) /\ sent'[N + 1] = c
  BY <1>3, <1>4, AppendFacts
<1>6. PICK status \in {"closed", "generic"} : results' = Append(results, Failure(status))
  BY DEF writeFails
<1>7. Failure(status) \in Results /\ Failure(status).status = status
  BY FailureFacts DEF Statuses
<1>8. PICK r \in Results : r = Failure(status)
  BY <1>7
<1>9. results' = Append(results, r) /\ (r.status = "timeout") = FALSE
  BY <1>6, <1>7, <1>8
<1> QED BY <1>1, <1>2, <1>4, <1>5, <1>9, SendCounted

LEMMA BlockedInit == Init => BlockedInv
<1> SUFFICES ASSUME Init PROVE BlockedInv
  OBVIOUS
<1>1. ChannelInv
  BY ChannelInit
<1>2. Len(results) = 0 /\ GaveUp = {} /\ s_atTimeoutCount = 0 /\ reports = {}
  BY DEF Init, GaveUp
<1>3. TimeoutsInARow
  BY <1>2, ChannelAssumption DEF TimeoutsInARow
<1>4. BlockedReported
  BY <1>2 DEF BlockedReported
<1> QED BY <1>1, <1>3, <1>4 DEF BlockedInv

LEMMA BlockedStep == BlockedInv /\ [Next]_vars => BlockedInv'
<1> SUFFICES ASSUME BlockedInv, [Next]_vars PROVE TimeoutsInARow' /\ BlockedReported'
  BY ChannelStep DEF BlockedInv
<1>1. TypeOK /\ OneAtATime /\ TimeoutsInARow /\ BlockedReported
  BY DEF BlockedInv, ChannelInv
<1>2. ASSUME UNCHANGED <<sent, results, reports, s_atTimeoutCount>>
      PROVE  TimeoutsInARow' /\ BlockedReported'
  BY <1>1, <1>2, NothingCounted
<1>3. ASSUME NEW c \in Commands, at_send_command(c)
      PROVE  TimeoutsInARow' /\ BlockedReported'
  <2>1. ~pending /\ sent' = Append(sent, c) /\ UNCHANGED <<results, reports, s_atTimeoutCount>>
    BY <1>3 DEF at_send_command
  <2>2. sent \in Seq(Commands) /\ Len(sent) = Len(results)
    BY <1>1, <2>1 DEF TypeOK, OneAtATime
  <2>3. \A k \in 1..Len(results) : sent'[k] = sent[k]
    BY <2>1, <2>2, AppendFacts
  <2> QED BY <1>1, <2>1, <2>3, NothingCounted
<1>4. ASSUME NEW c \in Commands, writeFails(c)
      PROVE  TimeoutsInARow' /\ BlockedReported'
  BY <1>4, FailedWriteCounted
<1>5. CASE wakeAnswered
  <2>1. pending /\ sp_response.finalResponse # NoLine /\ return(Answer)
    BY <1>5 DEF wakeAnswered
  <2>2. PICK r \in Results : r = Answer
    BY <1>1, <2>1, AnswerFacts
  <2> QED BY <2>1, <2>2, ReturnCounted
<1>6. CASE wakeClosed
  <2>1. PICK r \in Results : r = Failure("closed")
    BY FailureFacts DEF Statuses
  <2> QED BY <1>6, <2>1, ReturnCounted DEF wakeClosed
<1>7. CASE timeOut
  <2>1. PICK r \in Results : r = Failure("timeout")
    BY FailureFacts DEF Statuses
  <2> QED BY <1>7, <2>1, ReturnCounted DEF timeOut
<1>8. CASE Reader \/ reopen
  BY <1>2, <1>8 DEF Reader, readLine, onReaderClosed, reopen
<1>9. CASE Modem
  BY <1>2, <1>9
  DEF Modem, modemPrompts, modemInforms, modemAnswers, modemDrops, modemNotifies, emit
<1>10. CASE UNCHANGED vars
  BY <1>2, <1>10 DEF vars
<1> QED BY <1>3, <1>4, <1>5, <1>6, <1>7, <1>8, <1>9, <1>10 DEF Next, Sender

(* modemd hears that the modem is blocked exactly after                    *)
(* BLOCKED_MAX_COUNT + 1 time-outs in a row, counted from the last report, *)
(* or after one of a critical command, whichever threads the sends were    *)
(* of: nothing else touches s_atTimeoutCount.                              *)
THEOREM BlockedIsReported == Spec => []BlockedReported
<1>1. BlockedInv => BlockedReported
  BY DEF BlockedInv
<1> QED BY <1>1, BlockedInit, BlockedStep, PTL DEF Spec
=============================================================================
