----------------------- MODULE ModemLifecycleProofs -----------------------
(***************************************************************************)
(* What ModemLifecycle promises for every number of SIMs, openings and     *)
(* request threads: the channels of a SIM have one reader, a main loop     *)
(* that sleeps on closed channels is owed a broadcast, and while modemd    *)
(* speaks only to a RIL at rest the reader can be woken and is heard.      *)
(***************************************************************************)
EXTENDS ModemLifecycle, TLAPS

MainLoopPCs == {"init", "open", "start", "check", "asleep"}
Left      == {"getChannel", "setRadioState", "putChannel", "close", "forget", "dead"}
ReaderPCs == {"none", "loop", "closing"} \cup Left
Places    == [pc : ReaderPCs, ch : Channels \cup {None}]

TypeOK ==
  /\ s_modemState \in {"ALIVE", "OFFLINE"}
  /\ s_closed \in [Sims -> BOOLEAN]
  /\ readerClosed \in [Sims -> BOOLEAN]
  /\ s_radioState \in [Sims -> {"UNAVAILABLE", "OFF", "ON"}]
  /\ wakeup \in [Sims -> {"none", "open", "written", "lost"}]
  /\ opens \in [Sims -> 0..MaxOpens]
  /\ mainLoop \in [Sims -> MainLoopPCs]
  /\ reader \in [Sims -> [Openings -> Places]]
  /\ callbacks \in Seq(Sims)
  /\ eventLoop.pc # "idle" => callbacks # <<>>
  /\ initialised \in [Sims -> Nat]
  /\ calm \in BOOLEAN

(* Each opening has its reader after start_reader, those of the openings   *)
(* before have left their loop, and the channels are closed from the       *)
(* moment the last one has until init_channels.                            *)
ReadersOf(s) ==
  /\ \A g \in Openings : /\ g > opens[s] => reader[s][g].pc = "none"
                         /\ g < opens[s] => reader[s][g].pc \in Left
  /\ mainLoop[s] \in {"open", "start", "check", "asleep"} => opens[s] > 0
  /\ opens[s] = 0 => ~s_closed[s]
  /\ opens[s] > 0 =>
       /\ reader[s][opens[s]].pc = "none" <=> mainLoop[s] \in {"open", "start"}
       /\ reader[s][opens[s]].pc \in Left <=> s_closed[s]
       /\ mainLoop[s] = "init" => s_closed[s]
       /\ reader[s][opens[s]].pc = "loop" => ~readerClosed[s]
  /\ initialised[s] <= opens[s]

OneReader == \A s \in Sims : ReadersOf(s)

(* waitForClose sleeps on closed channels of a modem that is alive only    *)
(* while the reader that closed them has still to broadcast.               *)
SleeperIsOwedBroadcast ==
  \A s \in Sims :
    s_closed[s] /\ s_modemState = "ALIVE" /\ mainLoop[s] = "asleep"
      => reader[s][opens[s]].pc \in {"getChannel", "setRadioState"}

(* While modemd has spoken to a RIL at rest only.                          *)
CalmOf(s) ==
  /\ \A g \in Openings : g < opens[s] => reader[s][g].pc = "dead"
  /\ mainLoop[s] \in {"init", "open", "start"} => s_modemState = "ALIVE"
  /\ s_modemState = "ALIVE" =>
       /\ wakeup[s] # "written"
       /\ opens[s] > 0 => reader[s][opens[s]].pc \in {"none", "loop", "dead"}
  /\ mainLoop[s] \in {"open", "start"} => wakeup[s] \in {"open", "written"}
  /\ opens[s] > 0 /\ reader[s][opens[s]].pc = "loop" => wakeup[s] \in {"open", "written"}
  /\ initialised[s] = opens[s] /\ initialised[s] > 0 /\ ~s_closed[s]
       => s_radioState[s] # "UNAVAILABLE"

CalmState == calm => \A s \in Sims : CalmOf(s)

LifecycleInv ==
  TypeOK /\ OneReader /\ UnavailableWhileClosed /\ SleeperIsOwedBroadcast /\ CalmState

-----------------------------------------------------------------------------
(* Lemmas. *)

(* What setRadioState leaves: the state of the SIM, UNAVAILABLE while the  *)
(* channels are closed; and a main loop that is where it was or awake.     *)
LEMMA RadioStateSet ==
  ASSUME TypeOK, NEW s \in Sims, NEW state \in {"UNAVAILABLE", "OFF", "ON"},
         setRadioState(s, state)
  PROVE  /\ s_radioState' \in [Sims -> {"UNAVAILABLE", "OFF", "ON"}]
         /\ s_radioState'[s] = IF s_closed[s] THEN "UNAVAILABLE" ELSE state
         /\ \A x \in Sims \ {s} : s_radioState'[x] = s_radioState[x]
         /\ mainLoop' \in [Sims -> MainLoopPCs]
         /\ mainLoop[s] = "asleep" => mainLoop'[s] \in {"asleep", "check"}
         /\ mainLoop[s] # "asleep" => mainLoop'[s] = mainLoop[s]
         /\ s_closed[s] => mainLoop'[s] # "asleep"
         /\ \A x \in Sims \ {s} : mainLoop'[x] = mainLoop[x]
  BY DEF TypeOK, setRadioState, MainLoopPCs

LEMMA ReaderMoves ==
  ASSUME TypeOK, NEW s \in Sims, NEW g \in Openings, NEW pc \in ReaderPCs,
         NEW c \in Channels \cup {None}, ReaderGoes(s, g, pc, c)
  PROVE  /\ reader' \in [Sims -> [Openings -> Places]]
         /\ reader'[s][g].pc = pc
         /\ \A h \in Openings \ {g} : reader'[s][h] = reader[s][h]
         /\ \A x \in Sims \ {s} : reader'[x] = reader[x]
  BY DEF TypeOK, ReaderGoes, At, Places

LEMMA InitLifecycle == Init => LifecycleInv
  BY LifecycleAssumption
  DEF Init, LifecycleInv, TypeOK, OneReader, ReadersOf, UnavailableWhileClosed, SleeperIsOwedBroadcast,
      CalmState, CalmOf, MainLoopPCs, ReaderPCs, Places, Openings, At, Left

-----------------------------------------------------------------------------
(* The main loop. *)

LEMMA MainLoopStep ==
  ASSUME LifecycleInv, NEW s \in Sims, MainLoop(s)
  PROVE  LifecycleInv'
<1>a. opens[s] \in 0..MaxOpens /\ MaxOpens \in Nat
  BY LifecycleAssumption DEF LifecycleInv, TypeOK
<1>1. CASE init_channels(s)
  <2>1. TypeOK'
    BY <1>1, <1>a DEF LifecycleInv, TypeOK, init_channels, MainLoopPCs
  <2>2. /\ opens'[s] = opens[s] + 1 /\ mainLoop'[s] = "open" /\ wakeup'[s] = "open"
        /\ ~s_closed'[s]
        /\ \A x \in Sims \ {s} : /\ opens'[x] = opens[x] /\ mainLoop'[x] = mainLoop[x]
                                 /\ wakeup'[x] = wakeup[x] /\ s_closed'[x] = s_closed[x]
    BY <1>1, <1>a DEF LifecycleInv, TypeOK, init_channels
  <2>3. opens[s] > 0 => reader[s][opens[s]].pc \in Left
    BY <1>1 DEF LifecycleInv, OneReader, ReadersOf, init_channels
  <2>4. OneReader'
    BY <1>1, <1>a, <2>2, <2>3 DEF LifecycleInv, TypeOK, OneReader, ReadersOf, init_channels, Openings, Left
  <2>5. UnavailableWhileClosed' /\ SleeperIsOwedBroadcast'
    BY <1>1, <1>a, <2>2
    DEF LifecycleInv, TypeOK, UnavailableWhileClosed, SleeperIsOwedBroadcast, init_channels
  <2>6. CalmState'
    <3>1. ASSUME calm, NEW x \in Sims \ {s} PROVE CalmOf(x)'
      BY <1>1, <2>2, <3>1 DEF LifecycleInv, CalmState, CalmOf, init_channels
    <3>2. ASSUME calm PROVE CalmOf(s)'
      <4>1. s_modemState = "ALIVE" /\ CalmOf(s) /\ initialised[s] <= opens[s]
        BY <1>1, <3>2
        DEF LifecycleInv, CalmState, CalmOf, OneReader, ReadersOf, init_channels
      <4>2. initialised[s] \in Nat /\ opens[s] + 1 \in Openings
        BY <1>1, <1>a DEF LifecycleInv, TypeOK, init_channels, Openings
      <4>3. reader[s][opens[s] + 1].pc = "none"
        BY <1>a, <4>2 DEF LifecycleInv, OneReader, ReadersOf
      <4>4. \A g \in Openings : g < opens[s] + 1 => reader[s][g].pc = "dead"
        BY <1>a, <2>3, <4>1 DEF CalmOf, Openings, Left
      <4> QED BY <1>1, <1>a, <2>2, <4>1, <4>2, <4>3, <4>4 DEF CalmOf, init_channels
    <3> QED BY <1>1, <3>1, <3>2 DEF CalmState, init_channels
  <2> QED BY <2>1, <2>4, <2>5, <2>6 DEF LifecycleInv
<1>2. CASE at_open(s)
  BY <1>2, <1>a
  DEF LifecycleInv, TypeOK, OneReader, ReadersOf, UnavailableWhileClosed, SleeperIsOwedBroadcast,
      CalmState, CalmOf, at_open, MainLoopPCs
<1>3. CASE start_reader(s)
  <2>1. opens[s] \in Openings /\ ~s_closed[s]
    <3>1. ReadersOf(s) /\ mainLoop[s] = "start"
      BY <1>3 DEF LifecycleInv, OneReader, start_reader
    <3>2. opens[s] > 0 /\ reader[s][opens[s]].pc = "none"
      BY <3>1 DEF ReadersOf
    <3>3. ~s_closed[s]
      BY <3>1, <3>2 DEF ReadersOf, Left
    <3> QED BY <1>a, <3>2, <3>3 DEF Openings
  <2>2. ReaderGoes(s, opens[s], "loop", None)
    BY <1>3 DEF start_reader, ReaderGoes
  <2>3. /\ reader' \in [Sims -> [Openings -> Places]]
        /\ reader'[s][opens[s]].pc = "loop"
        /\ \A h \in Openings \ {opens[s]} : reader'[s][h] = reader[s][h]
        /\ \A x \in Sims \ {s} : reader'[x] = reader[x]
    BY <2>1, <2>2, ReaderMoves DEF LifecycleInv, ReaderPCs
  <2>4. callbacks' \in Seq(Sims) /\ callbacks' # <<>>
    <3>1. callbacks' = Append(callbacks, s) /\ callbacks \in Seq(Sims)
      BY <1>3 DEF start_reader, LifecycleInv, TypeOK
    <3> QED BY <3>1
  <2>5. TypeOK'
    BY <1>3, <2>3, <2>4 DEF LifecycleInv, TypeOK, start_reader, MainLoopPCs
  <2>6. /\ mainLoop'[s] = "check" /\ ~readerClosed'[s]
        /\ \A x \in Sims \ {s} : /\ mainLoop'[x] = mainLoop[x]
                                 /\ readerClosed'[x] = readerClosed[x]
    BY <1>3 DEF LifecycleInv, TypeOK, start_reader
  <2>7. OneReader'
    BY <1>3, <1>a, <2>1, <2>3, <2>6 DEF LifecycleInv, TypeOK, OneReader, ReadersOf, start_reader, Openings, Left
  <2>8. UnavailableWhileClosed' /\ SleeperIsOwedBroadcast'
    BY <1>3, <1>a, <2>1, <2>3, <2>6
    DEF LifecycleInv, TypeOK, UnavailableWhileClosed, SleeperIsOwedBroadcast, start_reader
  <2>9. CalmState'
    BY <1>3, <1>a, <2>1, <2>3, <2>6 DEF LifecycleInv, TypeOK, CalmState, CalmOf, start_reader, Openings
  <2> QED BY <2>5, <2>7, <2>8, <2>9 DEF LifecycleInv
<1>4. CASE waitForClose(s)
  BY <1>4, <1>a
  DEF LifecycleInv, TypeOK, OneReader, ReadersOf, UnavailableWhileClosed, SleeperIsOwedBroadcast,
      CalmState, CalmOf, waitForClose, mayReopen, MainLoopPCs
<1> QED BY <1>1, <1>2, <1>3, <1>4 DEF MainLoop

-----------------------------------------------------------------------------
(* The reader threads. *)

(* A reader that is not in its last steps and has run is that of the last  *)
(* opening; every one of them is one of an opening that has begun.         *)
LEMMA ReaderOfLastOpening ==
  ASSUME LifecycleInv, NEW s \in Sims, NEW g \in Openings
  PROVE  /\ opens[s] \in 0..MaxOpens
         /\ reader[s][g].pc # "none" => g <= opens[s]
         /\ reader[s][g].pc \in {"loop", "closing"} => g = opens[s] /\ ~s_closed[s]
         /\ reader[s][g].pc \in Left /\ g = opens[s] => s_closed[s]
         /\ calm /\ g < opens[s] => reader[s][g].pc = "dead"
         /\ reader[s][g].ch \in Channels \cup {None}
  BY LifecycleAssumption DEF LifecycleInv, TypeOK, OneReader, ReadersOf, CalmState, CalmOf, Openings, Left, Places

(* The steps of a reader that has left its loop: it stays one that has.    *)
LEMMA ReaderGoesOn ==
  ASSUME LifecycleInv, NEW s \in Sims, NEW g \in Openings,
         reader[s][g].pc \in Left \ {"dead"}, NEW pc \in Left, NEW c \in Channels \cup {None},
         ReaderGoes(s, g, pc, c),
         pc \in {"putChannel", "close", "forget", "dead"} /\ g = opens[s]
           => s_radioState'[s] = "UNAVAILABLE",
         pc # "setRadioState" /\ g = opens[s] => mainLoop'[s] # "asleep" \/ s_modemState # "ALIVE",
         UNCHANGED <<s_modemState, readerClosed, s_closed, opens, initialised, calm>>,
         \A x \in Sims : \/ mainLoop'[x] = mainLoop[x]
                         \/ mainLoop[x] = "asleep" /\ mainLoop'[x] = "check",
         \A x \in Sims \ {s} : wakeup'[x] = wakeup[x] /\ s_radioState'[x] = s_radioState[x],
         wakeup'[s] \in {wakeup[s], "none", "lost"},
         \/ s_radioState'[s] = s_radioState[s]
         \/ s_radioState'[s] = "UNAVAILABLE" /\ (s_closed[s] \/ ~calm)
  PROVE  OneReader' /\ UnavailableWhileClosed' /\ SleeperIsOwedBroadcast' /\ CalmState'
<1>1. /\ reader'[s][g].pc = pc
      /\ \A h \in Openings \ {g} : reader'[s][h] = reader[s][h]
      /\ \A x \in Sims \ {s} : reader'[x] = reader[x]
  <2>1. TypeOK /\ pc \in ReaderPCs
    BY DEF LifecycleInv, ReaderPCs
  <2> QED BY <2>1, ReaderMoves
<1>2. /\ opens[s] \in Nat /\ g \in Nat /\ 0 < g /\ g <= opens[s] /\ opens[s] \in Openings
      /\ g = opens[s] => s_closed[s]
      /\ calm => g = opens[s]
  BY ReaderOfLastOpening, LifecycleAssumption DEF Openings, Left
<1>3. ASSUME NEW x \in Sims \ {s}
      PROVE  /\ reader'[x] = reader[x] /\ opens'[x] = opens[x] /\ s_closed'[x] = s_closed[x]
             /\ s_radioState'[x] = s_radioState[x] /\ wakeup'[x] = wakeup[x]
             /\ initialised'[x] = initialised[x] /\ readerClosed'[x] = readerClosed[x]
             /\ \/ mainLoop'[x] = mainLoop[x]
                \/ mainLoop[x] = "asleep" /\ mainLoop'[x] = "check"
  BY <1>1
<1>4. OneReader'
  <2> SUFFICES ASSUME NEW x \in Sims PROVE ReadersOf(x)'
    BY DEF OneReader
  <2>1. CASE x = s
    BY <1>1, <1>2, <2>1 DEF LifecycleInv, OneReader, ReadersOf, Left
  <2>2. CASE x # s
    BY <1>3, <2>2 DEF LifecycleInv, OneReader, ReadersOf
  <2> QED BY <2>1, <2>2
<1>5. UnavailableWhileClosed' /\ SleeperIsOwedBroadcast'
  <2>1. ASSUME NEW x \in Sims, x # s
        PROVE  /\ s_closed'[x] /\ reader'[x][opens'[x]].pc \in {"putChannel", "close", "forget", "dead"}
                     => s_radioState'[x] = "UNAVAILABLE"
               /\ s_closed'[x] /\ s_modemState' = "ALIVE" /\ mainLoop'[x] = "asleep"
                     => reader'[x][opens'[x]].pc \in {"getChannel", "setRadioState"}
    BY <1>3, <2>1 DEF LifecycleInv, UnavailableWhileClosed, SleeperIsOwedBroadcast
  <2>2. /\ s_closed'[s] /\ reader'[s][opens'[s]].pc \in {"putChannel", "close", "forget", "dead"}
              => s_radioState'[s] = "UNAVAILABLE"
        /\ s_closed'[s] /\ s_modemState' = "ALIVE" /\ mainLoop'[s] = "asleep"
              => reader'[s][opens'[s]].pc \in {"getChannel", "setRadioState"}
    BY <1>1, <1>2 DEF LifecycleInv, UnavailableWhileClosed, SleeperIsOwedBroadcast, OneReader, ReadersOf, Left
  <2> QED BY <2>1, <2>2 DEF UnavailableWhileClosed, SleeperIsOwedBroadcast
<1>6. CalmState'
  <2> SUFFICES ASSUME calm, NEW x \in Sims PROVE CalmOf(x)'
    BY DEF CalmState
  <2>1. CASE x = s
    BY <1>1, <1>2, <2>1 DEF LifecycleInv, CalmState, CalmOf, OneReader, ReadersOf, Left
  <2>2. CASE x # s
    BY <1>3, <2>2 DEF LifecycleInv, CalmState, CalmOf
  <2> QED BY <2>1, <2>2
<1> QED BY <1>4, <1>5, <1>6

LEMMA ReaderStep ==
  ASSUME LifecycleInv, NEW s \in Sims, NEW g \in Openings, Reader(s, g)
  PROVE  LifecycleInv'
<1>t. TypeOK
  BY DEF LifecycleInv
<1>g. /\ opens[s] \in Nat
      /\ reader[s][g].pc \in {"loop", "closing"} => g = opens[s] /\ ~s_closed[s]
      /\ reader[s][g].pc \in Left => g <= opens[s] /\ (g = opens[s] => s_closed[s])
      /\ reader[s][g].ch \in Channels \cup {None}
  BY ReaderOfLastOpening, LifecycleAssumption DEF Left
<1>1. CASE readerLoop(s, g)
  <2>1. g = opens[s] /\ ~s_closed[s] /\ ~readerClosed[s]
    BY <1>1, <1>g DEF LifecycleInv, OneReader, ReadersOf, readerLoop, Openings
  <2>2. ReaderGoes(s, g, "closing", None)
    BY <1>1, <2>1 DEF readerLoop
  <2>3. /\ reader' \in [Sims -> [Openings -> Places]]
        /\ reader'[s][g].pc = "closing"
        /\ \A h \in Openings \ {g} : reader'[s][h] = reader[s][h]
        /\ \A x \in Sims \ {s} : reader'[x] = reader[x]
    BY <2>2, <1>t, ReaderMoves DEF ReaderPCs
  <2>4. /\ wakeup'[s] = "open" /\ readerClosed'[s]
        /\ \A x \in Sims \ {s} : wakeup'[x] = wakeup[x] /\ readerClosed'[x] = readerClosed[x]
    BY <1>1, <1>t DEF TypeOK, readerLoop
  <2>5. TypeOK'
    BY <1>1, <1>t, <2>3 DEF TypeOK, readerLoop
  <2>6. OneReader'
    <3>1. /\ g \in 1..MaxOpens /\ opens' = opens /\ mainLoop' = mainLoop
          /\ initialised' = initialised /\ s_closed' = s_closed
          /\ reader[s][g].pc = "loop"
      BY <1>1 DEF readerLoop, Openings
    <3>2. ASSUME NEW x \in Sims \ {s}
          PROVE  /\ reader'[x] = reader[x] /\ s_closed'[x] = s_closed[x]
                 /\ readerClosed'[x] = readerClosed[x]
      BY <1>1, <2>3, <2>4 DEF readerLoop
    <3>3. \A x \in Sims : ReadersOf(x)
      BY DEF LifecycleInv, OneReader
    <3>4. ReadersOf(s)'
      BY <1>g, <2>1, <2>3, <2>4, <3>1, <3>3 DEF ReadersOf, Left
    <3>5. ASSUME NEW x \in Sims \ {s} PROVE ReadersOf(x)'
      BY <3>1, <3>2, <3>3 DEF ReadersOf
    <3> QED BY <3>4, <3>5 DEF OneReader
  <2>7. UnavailableWhileClosed' /\ SleeperIsOwedBroadcast'
    BY <1>1, <2>1, <2>3
    DEF LifecycleInv, UnavailableWhileClosed, SleeperIsOwedBroadcast, readerLoop
  <2>8. ~(calm /\ s_modemState = "ALIVE")
    BY <1>1 DEF LifecycleInv, CalmState, CalmOf, readerLoop
  <2>9. CalmState'
    BY <1>1, <1>g, <2>1, <2>3, <2>4, <2>8 DEF LifecycleInv, CalmState, CalmOf, readerLoop, Openings
  <2> QED BY <2>5, <2>6, <2>7, <2>9 DEF LifecycleInv
<1>2. CASE onATReaderClosed(s, g)
  <2>1. g = opens[s] /\ ~s_closed[s]
    BY <1>2, <1>g DEF onATReaderClosed
  <2>2. ReaderGoes(s, g, "getChannel", None)
    BY <1>2 DEF onATReaderClosed
  <2>3. /\ reader' \in [Sims -> [Openings -> Places]]
        /\ reader'[s][g].pc = "getChannel"
        /\ \A h \in Openings \ {g} : reader'[s][h] = reader[s][h]
        /\ \A x \in Sims \ {s} : reader'[x] = reader[x]
    BY <2>2, <1>t, ReaderMoves DEF ReaderPCs, Left
  <2>4. s_closed'[s] /\ \A x \in Sims \ {s} : s_closed'[x] = s_closed[x]
    BY <1>2, <1>t DEF TypeOK, onATReaderClosed
  <2>5. TypeOK'
    BY <1>2, <1>t, <2>3 DEF TypeOK, onATReaderClosed
  <2>6. OneReader'
    <3>1. /\ g \in 1..MaxOpens /\ opens' = opens /\ mainLoop' = mainLoop
          /\ initialised' = initialised /\ readerClosed' = readerClosed
          /\ reader[s][g].pc = "closing"
      BY <1>2 DEF onATReaderClosed, Openings
    <3>2. ASSUME NEW x \in Sims \ {s}
          PROVE  /\ reader'[x] = reader[x] /\ s_closed'[x] = s_closed[x]
                 /\ readerClosed'[x] = readerClosed[x]
      BY <1>2, <2>3, <2>4 DEF onATReaderClosed
    <3>3. \A x \in Sims : ReadersOf(x)
      BY DEF LifecycleInv, OneReader
    <3>4. ReadersOf(s)'
      BY <1>g, <2>1, <2>3, <2>4, <3>1, <3>3 DEF ReadersOf, Left
    <3>5. ASSUME NEW x \in Sims \ {s} PROVE ReadersOf(x)'
      BY <3>1, <3>2, <3>3 DEF ReadersOf
    <3> QED BY <3>4, <3>5 DEF OneReader
  <2>7. UnavailableWhileClosed' /\ SleeperIsOwedBroadcast'
    BY <1>2, <2>1, <2>3, <2>4
    DEF LifecycleInv, UnavailableWhileClosed, SleeperIsOwedBroadcast, onATReaderClosed
  <2>8. ~(calm /\ s_modemState = "ALIVE")
    BY <1>2, <2>1 DEF LifecycleInv, CalmState, CalmOf, onATReaderClosed, Openings
  <2>9. CalmState'
    BY <1>2, <1>g, <2>1, <2>3, <2>4, <2>8 DEF LifecycleInv, CalmState, CalmOf, onATReaderClosed, Openings
  <2> QED BY <2>5, <2>6, <2>7, <2>9 DEF LifecycleInv
<1>3. CASE readerGetsChannel(s, g)
  <2>1. PICK c \in Channels : ReaderGoes(s, g, "setRadioState", c)
    BY <1>3 DEF readerGetsChannel
  <2>2. reader[s][g].pc = "getChannel"
    BY <1>3 DEF readerGetsChannel
  <2>3. TypeOK'
    BY <1>3, <1>t, <2>1, ReaderMoves DEF TypeOK, readerGetsChannel, ReaderPCs, Left
  <2>4. OneReader' /\ UnavailableWhileClosed' /\ SleeperIsOwedBroadcast' /\ CalmState'
    BY <1>3, <2>1, <2>2, ReaderGoesOn DEF readerGetsChannel, Left
  <2> QED BY <2>3, <2>4 DEF LifecycleInv
<1>4. CASE readerSetsState(s, g)
  <2>1. ReaderGoes(s, g, "putChannel", reader[s][g].ch) /\ setRadioState(s, "UNAVAILABLE")
    BY <1>4 DEF readerSetsState
  <2>2. /\ reader[s][g].pc = "setRadioState"
        /\ (g = opens[s] \/ calm) => s_closed[s]
    <3>1. reader[s][g].pc = "setRadioState" /\ g <= opens[s]
      BY <1>4, <1>g DEF readerSetsState, Left
    <3>2. calm => g = opens[s]
      BY <1>g, <3>1, ReaderOfLastOpening DEF Openings
    <3> QED BY <1>g, <3>1, <3>2 DEF Left
  <2>3. /\ s_radioState' \in [Sims -> {"UNAVAILABLE", "OFF", "ON"}]
        /\ s_radioState'[s] = "UNAVAILABLE"
        /\ \A x \in Sims \ {s} : s_radioState'[x] = s_radioState[x]
        /\ mainLoop' \in [Sims -> MainLoopPCs]
        /\ \A x \in Sims : \/ mainLoop'[x] = mainLoop[x]
                           \/ mainLoop[x] = "asleep" /\ mainLoop'[x] = "check"
        /\ s_closed[s] => mainLoop'[s] # "asleep"
    BY <1>t, <2>1, RadioStateSet
  <2>4. TypeOK'
    BY <1>4, <1>g, <1>t, <2>1, <2>3, ReaderMoves DEF TypeOK, readerSetsState, ReaderPCs, Left
  <2>5. OneReader' /\ UnavailableWhileClosed' /\ SleeperIsOwedBroadcast' /\ CalmState'
    BY <1>4, <1>g, <2>1, <2>2, <2>3, ReaderGoesOn DEF readerSetsState, Left
  <2> QED BY <2>4, <2>5 DEF LifecycleInv
<1>5. CASE readerPutsChannel(s, g)
  <2>1. ReaderGoes(s, g, "close", None)
    BY <1>5 DEF readerPutsChannel
  <2>2. /\ reader[s][g].pc = "putChannel"
        /\ g = opens[s] => /\ s_radioState[s] = "UNAVAILABLE"
                           /\ mainLoop[s] # "asleep" \/ s_modemState # "ALIVE"
    BY <1>5, <1>g
    DEF readerPutsChannel, LifecycleInv, UnavailableWhileClosed, SleeperIsOwedBroadcast, Left
  <2>3. TypeOK'
    BY <1>5, <1>t, <2>1, ReaderMoves DEF TypeOK, readerPutsChannel, ReaderPCs, Left
  <2>4. OneReader' /\ UnavailableWhileClosed' /\ SleeperIsOwedBroadcast' /\ CalmState'
    BY <1>5, <2>1, <2>2, ReaderGoesOn DEF readerPutsChannel, Left
  <2> QED BY <2>3, <2>4 DEF LifecycleInv
<1>6. CASE closeWakeupPipe(s, g)
  <2>1. PICK pc \in {"forget", "dead"} : ReaderGoes(s, g, pc, None)
    BY <1>6 DEF closeWakeupPipe
  <2>2. /\ reader[s][g].pc \in {"close", "forget"}
        /\ g = opens[s] => /\ s_radioState[s] = "UNAVAILABLE"
                           /\ mainLoop[s] # "asleep" \/ s_modemState # "ALIVE"
    BY <1>6, <1>g
    DEF closeWakeupPipe, LifecycleInv, UnavailableWhileClosed, SleeperIsOwedBroadcast, Left
  <2>3. /\ wakeup' \in [Sims -> {"none", "open", "written", "lost"}]
        /\ wakeup'[s] \in {"none", "lost"}
        /\ \A x \in Sims \ {s} : wakeup'[x] = wakeup[x]
    BY <1>6, <1>t DEF closeWakeupPipe, TypeOK
  <2>4. TypeOK'
    BY <1>6, <1>t, <2>1, <2>3, ReaderMoves DEF TypeOK, closeWakeupPipe, ReaderPCs, Left
  <2>5. OneReader' /\ UnavailableWhileClosed' /\ SleeperIsOwedBroadcast' /\ CalmState'
    BY <1>6, <2>1, <2>2, <2>3, ReaderGoesOn DEF closeWakeupPipe, Left
  <2> QED BY <2>4, <2>5 DEF LifecycleInv
<1> QED BY <1>1, <1>2, <1>3, <1>4, <1>5, <1>6 DEF Reader

-----------------------------------------------------------------------------
(* initializeCallback and the request threads. *)

(* A step that sets the radio state of one SIM, or leaves it, and touches  *)
(* neither the readers nor the pipes.                                      *)
LEMMA StateChange ==
  ASSUME LifecycleInv, NEW s \in Sims, NEW state \in {"OFF", "ON"}, setRadioState(s, state),
         UNCHANGED <<s_modemState, readerClosed, s_closed, wakeup, opens, reader, calm>>,
         \A x \in Sims : initialised'[x] = initialised[x] \/ (x = s /\ initialised'[x] = opens[x])
  PROVE  OneReader' /\ UnavailableWhileClosed' /\ SleeperIsOwedBroadcast' /\ CalmState'
<1>1. /\ s_radioState'[s] = IF s_closed[s] THEN "UNAVAILABLE" ELSE state
      /\ \A x \in Sims \ {s} : s_radioState'[x] = s_radioState[x]
      /\ mainLoop[s] = "asleep" => mainLoop'[s] \in {"asleep", "check"}
      /\ mainLoop[s] # "asleep" => mainLoop'[s] = mainLoop[s]
      /\ s_closed[s] => mainLoop'[s] # "asleep"
      /\ \A x \in Sims \ {s} : mainLoop'[x] = mainLoop[x]
  BY RadioStateSet DEF LifecycleInv
<1>t. opens \in [Sims -> 0..MaxOpens] /\ MaxOpens \in Nat /\ mainLoop \in [Sims -> MainLoopPCs]
  BY LifecycleAssumption DEF LifecycleInv, TypeOK
<1>2. OneReader'
  BY <1>1, <1>t DEF LifecycleInv, OneReader, ReadersOf, MainLoopPCs
<1>3. UnavailableWhileClosed' /\ SleeperIsOwedBroadcast'
  BY <1>1, <1>t DEF LifecycleInv, UnavailableWhileClosed, SleeperIsOwedBroadcast, MainLoopPCs
<1>4. CalmState'
  BY <1>1, <1>t DEF LifecycleInv, CalmState, CalmOf, MainLoopPCs
<1> QED BY <1>2, <1>3, <1>4

LEMMA EventLoopStep == ASSUME LifecycleInv, EventLoop PROVE LifecycleInv'
<1>t. TypeOK
  BY DEF LifecycleInv
<1>1. CASE callbackGetsChannel
  BY <1>1
  DEF LifecycleInv, TypeOK, OneReader, ReadersOf, UnavailableWhileClosed, SleeperIsOwedBroadcast,
      CalmState, CalmOf, callbackGetsChannel
<1>2. CASE callbackSetsState
  <2>1. callbacks # <<>> /\ dueSim \in Sims
    BY <1>t, <1>2 DEF TypeOK, callbackSetsState, dueSim
  <2>2. PICK s \in Sims : s = dueSim
    BY <2>1
  <2>3. setRadioState(s, "OFF") /\ initialised' = [initialised EXCEPT ![s] = opens[s]]
    BY <1>2, <2>2 DEF callbackSetsState
  <2>4. /\ s_radioState' \in [Sims -> {"UNAVAILABLE", "OFF", "ON"}]
        /\ mainLoop' \in [Sims -> MainLoopPCs]
    BY <1>t, <2>3, RadioStateSet
  <2>5. initialised' \in [Sims -> Nat]
    BY <1>t, <2>3, LifecycleAssumption DEF TypeOK
  <2>6. TypeOK'
    BY <1>t, <1>2, <2>1, <2>4, <2>5 DEF TypeOK, callbackSetsState
  <2>7. \A x \in Sims : initialised'[x] = initialised[x] \/ (x = s /\ initialised'[x] = opens[x])
    BY <1>t, <2>3 DEF TypeOK
  <2>8. OneReader' /\ UnavailableWhileClosed' /\ SleeperIsOwedBroadcast' /\ CalmState'
    BY <1>2, <2>3, <2>7, StateChange DEF callbackSetsState
  <2> QED BY <2>6, <2>8 DEF LifecycleInv
<1>3. CASE callbackReturns
  <2>1. callbacks # <<>> /\ dueSim \in Sims
    BY <1>t, <1>3 DEF TypeOK, callbackReturns, dueSim
  <2>2. callbacks' \in Seq(Sims) /\ eventLoop'.pc = "idle"
    BY <1>t, <1>3, <2>1 DEF TypeOK, callbackReturns, At
  <2>3. PICK s \in Sims : s = dueSim
    BY <2>1
  <2>4. CASE setRadioState(s, "ON")
    <3>1. /\ s_radioState' \in [Sims -> {"UNAVAILABLE", "OFF", "ON"}]
          /\ mainLoop' \in [Sims -> MainLoopPCs]
      BY <1>t, <2>4, RadioStateSet
    <3>2. TypeOK'
      BY <1>t, <1>3, <2>2, <3>1 DEF TypeOK, callbackReturns
    <3>3. OneReader' /\ UnavailableWhileClosed' /\ SleeperIsOwedBroadcast' /\ CalmState'
      BY <1>3, <2>4, StateChange DEF callbackReturns
    <3> QED BY <3>2, <3>3 DEF LifecycleInv
  <2>5. CASE UNCHANGED <<s_radioState, mainLoop>>
    BY <1>3, <2>2, <2>5
    DEF LifecycleInv, TypeOK, OneReader, ReadersOf, UnavailableWhileClosed, SleeperIsOwedBroadcast,
        CalmState, CalmOf, callbackReturns
  <2> QED BY <1>3, <2>3, <2>4, <2>5 DEF callbackReturns
<1> QED BY <1>1, <1>2, <1>3 DEF EventLoop

LEMMA RequestThreadStep ==
  ASSUME LifecycleInv, NEW t \in Threads, RequestThread(t)
  PROVE  LifecycleInv'
<1>t. TypeOK
  BY DEF LifecycleInv
<1>1. CASE threadGetsChannel(t)
  BY <1>1
  DEF LifecycleInv, TypeOK, OneReader, ReadersOf, UnavailableWhileClosed, SleeperIsOwedBroadcast,
      CalmState, CalmOf, threadGetsChannel
<1>2. CASE threadSetsState(t)
  <2>1. PICK s \in Sims : s = SimOf[t]
    BY LifecycleAssumption
  <2>2. PICK state \in {"OFF", "ON"} : setRadioState(s, state)
    BY <1>2, <2>1 DEF threadSetsState
  <2>3. /\ s_radioState' \in [Sims -> {"UNAVAILABLE", "OFF", "ON"}]
        /\ mainLoop' \in [Sims -> MainLoopPCs]
    BY <1>t, <2>2, RadioStateSet
  <2>4. TypeOK'
    BY <1>t, <1>2, <2>3 DEF TypeOK, threadSetsState
  <2>5. OneReader' /\ UnavailableWhileClosed' /\ SleeperIsOwedBroadcast' /\ CalmState'
    BY <1>2, <2>2, StateChange DEF threadSetsState
  <2> QED BY <2>4, <2>5 DEF LifecycleInv
<1>3. CASE threadPutsChannel(t)
  BY <1>3
  DEF LifecycleInv, TypeOK, OneReader, ReadersOf, UnavailableWhileClosed, SleeperIsOwedBroadcast,
      CalmState, CalmOf, threadPutsChannel
<1> QED BY <1>1, <1>2, <1>3 DEF RequestThread

-----------------------------------------------------------------------------
(* detectModemState. *)

LEMMA ModemStep == ASSUME LifecycleInv, Modem PROVE LifecycleInv'
<1>t. TypeOK /\ \A s \in Sims : opens[s] \in Nat /\ ReadersOf(s)
  BY LifecycleAssumption DEF LifecycleInv, TypeOK, OneReader
<1>1. ASSUME receive
      PROVE  /\ UNCHANGED <<s_closed, readerClosed, s_radioState, opens, reader, callbacks,
                            eventLoop, initialised>>
             /\ calm' \in BOOLEAN
             /\ calm' => calm /\ \A s \in Sims : Settled(s)
  BY <1>1, <1>t DEF receive, TypeOK
(* A RIL at rest on a modem that was alive has its channels open and read. *)
<1>2. ASSUME NEW s \in Sims, Settled(s), s_modemState = "ALIVE"
      PROVE  ~s_closed[s] /\ opens[s] \in Openings /\ reader[s][opens[s]].pc = "loop"
  <2>1. mainLoop[s] = "asleep" /\ opens[s] \in Openings
    BY <1>t, <1>2, LifecycleAssumption DEF TypeOK, ReadersOf, Settled, Openings
  <2>2. ~s_closed[s]
    BY <1>2, <2>1 DEF LifecycleInv, SleeperIsOwedBroadcast, Settled
  <2>3. reader[s][opens[s]].pc \in {"none", "loop", "dead"}
    BY <1>2, <2>1 DEF Settled
  <2> QED BY <1>t, <2>1, <2>2, <2>3 DEF ReadersOf, Openings, Left
<1>3. CASE modemAsserts \/ modemResets
  <2>1. PICK woken \in SUBSET Sims : wakeReaders(woken)
    BY <1>3 DEF modemAsserts, modemResets
  <2>2. /\ s_modemState' \in {s_modemState, "OFFLINE"}
        /\ UNCHANGED <<s_closed, readerClosed, s_radioState, opens, mainLoop, reader, callbacks,
                       eventLoop, initialised>>
        /\ calm' \in BOOLEAN
        /\ calm' => calm /\ \A s \in Sims : Settled(s)
    BY <1>1, <1>3 DEF modemAsserts, modemResets
  <2>3. /\ wakeup' \in [Sims -> {"none", "open", "written", "lost"}]
        /\ \A s \in Sims : wakeup'[s] \in {wakeup[s], "written"}
        /\ \A s \in Sims : wakeup[s] # "open" => wakeup'[s] = wakeup[s]
    BY <1>t, <2>1 DEF wakeReaders, TypeOK
  <2>4. TypeOK'
    BY <1>t, <2>2, <2>3 DEF TypeOK
  <2>5. OneReader'
    BY <1>t, <2>2 DEF OneReader, ReadersOf
  <2>6. UnavailableWhileClosed' /\ SleeperIsOwedBroadcast'
    BY <2>2 DEF LifecycleInv, UnavailableWhileClosed, SleeperIsOwedBroadcast
  <2>7. ASSUME calm', NEW s \in Sims
        PROVE  s_modemState' = "OFFLINE"
    <3>1. FirstSim \in Sims
      BY DEF FirstSim
    <3>2. PICK f \in Sims : f = FirstSim
      BY <3>1
    <3>3. CASE s_modemState = "ALIVE"
      <4>1. ~readerClosed[f]
        BY <1>2, <1>t, <2>2, <2>7, <3>3 DEF ReadersOf, Openings
      <4> QED BY <1>3, <3>2, <4>1 DEF modemAsserts, modemResets
    <3>4. CASE s_modemState # "ALIVE"
      BY <1>t, <2>2, <3>4 DEF TypeOK
    <3> QED BY <3>3, <3>4
  <2>8. ASSUME calm', NEW s \in Sims
        PROVE  CalmOf(s)'
    <3>1. s_modemState' = "OFFLINE" /\ Settled(s) /\ CalmOf(s)
      BY <2>2, <2>7, <2>8 DEF LifecycleInv, CalmState
    <3> QED BY <2>2, <2>3, <3>1 DEF CalmOf, Settled
  <2> QED BY <2>4, <2>5, <2>6, <2>8 DEF LifecycleInv, CalmState
<1>4. CASE modemAlive
  <2>1. /\ s_modemState' = "ALIVE"
        /\ UNCHANGED <<s_closed, readerClosed, s_radioState, opens, reader, callbacks,
                       eventLoop, initialised, wakeup>>
        /\ calm' \in BOOLEAN
        /\ calm' => calm /\ \A s \in Sims : Settled(s)
    BY <1>1, <1>4 DEF modemAlive
  <2>2. /\ mainLoop' \in [Sims -> MainLoopPCs]
        /\ \A s \in Sims : /\ mainLoop[s] = "asleep" => mainLoop'[s] = "check"
                           /\ mainLoop[s] # "asleep" => mainLoop'[s] = mainLoop[s]
    BY <1>t, <1>4 DEF modemAlive, TypeOK, MainLoopPCs
  <2>3. TypeOK'
    BY <1>t, <2>1, <2>2 DEF TypeOK
  <2>4. OneReader'
    BY <1>t, <2>1, <2>2 DEF OneReader, ReadersOf
  <2>5. UnavailableWhileClosed' /\ SleeperIsOwedBroadcast'
    BY <2>1, <2>2 DEF LifecycleInv, UnavailableWhileClosed, SleeperIsOwedBroadcast
  <2>6. ASSUME calm', NEW s \in Sims
        PROVE  CalmOf(s)'
    <3>1. Settled(s) /\ CalmOf(s) /\ opens[s] \in Openings
      BY <1>t, <2>1, <2>6, LifecycleAssumption
      DEF LifecycleInv, CalmState, Settled, ReadersOf, TypeOK, Openings
    <3> QED BY <2>1, <2>2, <3>1 DEF CalmOf, Settled
  <2> QED BY <2>3, <2>4, <2>5, <2>6 DEF LifecycleInv, CalmState
<1> QED BY <1>3, <1>4 DEF Modem

-----------------------------------------------------------------------------
LEMMA LifecycleInductive == LifecycleInv /\ [Next]_vars => LifecycleInv'
<1> SUFFICES ASSUME LifecycleInv, [Next]_vars PROVE LifecycleInv'
  OBVIOUS
<1>1. CASE Next
  BY <1>1, MainLoopStep, ReaderStep, EventLoopStep, RequestThreadStep, ModemStep DEF Next
<1>2. CASE UNCHANGED vars
  BY <1>2
  DEF LifecycleInv, TypeOK, OneReader, ReadersOf, UnavailableWhileClosed,
      SleeperIsOwedBroadcast, CalmState, CalmOf, vars
<1> QED BY <1>1, <1>2

THEOREM LifecycleIsInvariant == Spec => []LifecycleInv
  BY InitLifecycle, LifecycleInductive, PTL DEF Spec

(* "If we're closed, the only reasonable state is RADIO_STATE_UNAVAILABLE":*)
(* setRadioState and onATReaderClosed keep it against every request that   *)
(* is still under way when the channels of its SIM are closed.             *)
THEOREM ClosedIsUnavailable == Spec => []UnavailableWhileClosed
  BY LifecycleIsInvariant, PTL DEF LifecycleInv

(* No lost wake-up: onATReaderClosed writes s_closed without the mutex of  *)
(* waitForClose, and yet a main loop never sleeps on closed channels of a  *)
(* modem that is alive unless the setRadioState that follows in the same   *)
(* reader has still to broadcast.                                          *)
THEOREM SleeperIsWoken == Spec => []SleeperIsOwedBroadcast
  BY LifecycleIsInvariant, PTL DEF LifecycleInv

(* The channels of a SIM have one reader, that of the last opening, and    *)
(* detectModemState can write the pipe it selects on, for as long as       *)
(* modemd has spoken only to a RIL at rest.                                *)
THEOREM ReaderHearsThePipe == Spec => []CalmReaderCanBeWoken
<1>1. LifecycleInv => CalmReaderCanBeWoken
  BY ReaderOfLastOpening, LifecycleAssumption
  DEF LifecycleInv, CalmState, CalmOf, CalmReaderCanBeWoken, ReaderCanBeWoken, Openings
<1> QED BY <1>1, LifecycleIsInvariant, PTL

(* After initializeCallback has set the state of an opening nothing that   *)
(* belongs to an earlier one makes it unavailable again, so unsolicited    *)
(* lines are handled, under the same condition.                            *)
THEOREM InitialisedStaysHeard == Spec => []InitialisedIsHeard
<1>1. LifecycleInv => InitialisedIsHeard
  BY DEF LifecycleInv, CalmState, CalmOf, InitialisedIsHeard
<1> QED BY <1>1, LifecycleIsInvariant, PTL
=============================================================================
