--------------------------- MODULE DataCallsProofs ---------------------------
(***************************************************************************)
(* What DataCalls promises for every number of contexts, of calls, of      *)
(* channels and of retries.                                                *)
(*                                                                         *)
(* The argument: unless threads have overlapped, one thread at a time is   *)
(* at the table, so that where it is says what the table still owes it.  A *)
(* context that is used has a cid of its own, which keeps every set-up     *)
(* from putting its entry back; of two linked contexts one is used, and    *)
(* the last user to leave it puts both back.  When the network has ended   *)
(* contexts less of this holds, but a context that is active still has a   *)
(* count that is not too low, and nobody deactivates it under its users.   *)
(***************************************************************************)
EXTENDS DataCalls, FiniteSetTheorems, SequenceTheorems, WellFoundedInduction, TLAPS

SetupPCs   == {"retry", "take", "reuse", "get", "activate", "put", "unusable", "fallback",
               "getSecond", "second", "done", "list", "error", "tell"}
ReleasePCs == {"leave", "store", "last", "deactivate", "free"}
BipPCs     == {"look", "lock", "waiting", "share", "shared", "result", "open"}
PCs        == {"rest"} \cup SetupPCs \cup ReleasePCs \cup BipPCs

PlacesOf(t) == {"rest"} \cup (IF t = Setup THEN SetupPCs ELSE
                              IF t = Release THEN ReleasePCs ELSE SetupPCs \cup ReleasePCs \cup BipPCs)

\* where a thread has a context in hand
WithIndex == {"activate", "put", "unusable", "fallback", "getSecond", "second", "done", "list",
              "lock", "waiting", "share", "shared", "open"} \cup ReleasePCs

SomeCid == Cids \cup {NoCid}
Locals  == [pc : PCs, index : SomeCid, bearer : SomeCid, second : SomeCid, linked : BOOLEAN,
            tries : Nat, seen : Nat]

\* what a thread knows where it is
Fits(t, r) ==
  /\ r.pc \in PlacesOf(t)
  /\ r.pc \in WithIndex => r.index \in Cids
  /\ r.pc \in {"take", "reuse"} => r.bearer \in Cids
  /\ r.pc = "second" => r.second \in Cids
  /\ r.pc = "rest" => r = Rest

TypeOK ==
  /\ state \in [Cids -> {"IDLE", "BUSY"}]
  /\ cid \in [Cids -> {"none", "own", "unusable"}]
  /\ secondary \in [Cids -> SomeCid]
  /\ count \in [Cids -> Nat]
  /\ pdpState \in [Cids -> BOOLEAN]
  /\ channel \in [Cids -> {"CLOSE", "OPEN", "REUSE"}]
  /\ s_openchannelCid \in SomeCid
  /\ pdns \subseteq Cids /\ active \subseteq Cids
  /\ lines \in Seq(Cids)
  /\ thread \in [Threads -> Locals]
  /\ client \in [Cids -> Nat]
  /\ events \in Nat
  /\ \A t \in Threads : Fits(t, thread[t])

(* The waiter: pdpState was false when the card looked, and whoever has    *)
(* set it since has woken the card, or missed it.                          *)
LookedBefore ==
  thread[Bip].pc \in {"lock", "waiting"} =>
    "missed" \in happened \/ ~ pdpState[thread[Bip].index]

OneAtTable ==
  Unless({"overlap"}) => \A t, u \in Threads : busy(t) /\ busy(u) => t = u

(* Without an overlap or a context that the network has ended.             *)
Counter ==
  Unless({"overlap", "dropped"}) =>
    /\ lines = <<>>
    /\ \A c \in Cids : ~ pdpState[c] => count[c] = 0
    /\ thread[Bip].pc \in {"share", "shared"} => pdpState[thread[Bip].index]
    /\ \A t \in Threads : thread[t].pc \in {"store", "shared"} =>
         thread[t].seen = count[thread[t].index]

users(c) == client[c] + (IF At(Bip, "open") /\ thread[Bip].index = c THEN 1 ELSE 0)

(* What an entry is while the thread t has it in hand.                     *)
SetupHas(t) ==
  LET c == thread[t].index
      d == thread[t].second
  IN
  /\ thread[t].pc \in {"look", "retry", "take", "reuse", "get", "activate", "put", "unusable",
                       "fallback", "error"} =>
       (c # NoCid => cid[c] # "own")
  /\ thread[t].pc \in {"take", "reuse"} =>
       secondary[thread[t].bearer] = NoCid
  /\ thread[t].pc = "reuse" => state[thread[t].bearer] = "BUSY"
  /\ thread[t].pc = "activate" => state[c] = "BUSY"
  /\ thread[t].pc = "put" => c \notin active
  /\ thread[t].pc \in {"getSecond", "second"} =>
       /\ c \in active /\ cid[c] = "own" /\ secondary[c] = NoCid
       /\ thread[t].linked => state[c] = "BUSY"
  /\ thread[t].pc = "second" => d # c /\ cid[d] # "own" /\ state[d] = "BUSY"
  /\ thread[t].pc \in {"done", "list"} => (c \in active <=> cid[c] = "own")
  /\ thread[t].pc \in {"done"} \cup ReleasePCs =>
       (secondary[c] # NoCid => count[secondary[c]] = 0)
  /\ thread[t].pc \in {"deactivate", "free"} => count[c] = 0 /\ d = secondary[c]
  /\ thread[t].pc = "list" => s_openchannelCid = c

CardHas ==
  LET c == s_openchannelCid IN
  /\ thread[Bip].pc \in {"look", "retry", "take", "reuse", "get", "activate", "put", "unusable",
                         "fallback", "error", "tell"} =>
       c = NoCid
  /\ thread[Bip].pc = "result" /\ c # NoCid /\ state[c] = "BUSY" => cid[c] = "own"
  /\ thread[Bip].pc = "shared" => users(thread[Bip].index) > 0
  /\ \A x \in Cids : channel[x] # "CLOSE" =>
       thread[Bip].pc \in {"shared", "open"} /\ thread[Bip].index = x

(* The users of a context, and the one who has left or come and is not yet *)
(* counted alike.                                                          *)
Owed(c) == IF \E t \in Threads : thread[t].pc \in {"leave", "store", "list"} /\ thread[t].index = c
           THEN 1 ELSE 0

Counted(c) ==
  IF At(Bip, "result") /\ s_openchannelCid = c
  THEN state[c] = "BUSY" => count[c] = users(c) + 1
  ELSE count[c] = users(c) + Owed(c)

Links(c) ==
  /\ cid[c] # "own" => users(c) = 0 /\ secondary[c] = NoCid
  /\ state[c] = "IDLE" => secondary[c] = NoCid
  /\ secondary[c] # NoCid => /\ secondary[c] # c /\ secondary[secondary[c]] = c
                             /\ count[c] = 0 \/ count[secondary[c]] = 0

CountExcuses == {"overlap", "dropped", "unread", "dead", "second"}

Tables ==
  Unless(CountExcuses) =>
    /\ \A t \in Threads : SetupHas(t)
    /\ CardHas
    /\ \A c \in Cids : Counted(c) /\ Links(c)

(* The entries that a thread at the table holds, and those that are used.  *)
Has(t, c) ==
  LET i == thread[t].index
      result == s_openchannelCid
  IN
  \/ thread[t].pc = "reuse" /\ c = thread[t].bearer
  \/ thread[t].pc \in {"activate", "put", "getSecond", "second"} /\ c = i
  \/ thread[t].pc = "second" /\ c = thread[t].second
  \/ thread[t].pc \in {"done", "list"} \cup ReleasePCs /\ (c = i \/ c = secondary[i])
  \/ thread[t].pc = "result" /\ result # NoCid /\ (c = result \/ c = secondary[result])

Used(c) == \E d \in Cids : (d = c \/ d = secondary[c]) /\ users(d) > 0

\* what a set-up knows of the use of the entry it works on
SetupUses(t) ==
  /\ thread[t].pc \in {"take", "reuse"} =>
       \A c \in Cids : c = thread[t].bearer => users(c) = 0
  /\ thread[t].pc \in {"getSecond", "second"} => state[thread[t].index] = "BUSY"
  /\ thread[t].pc \in {"done", "list"} /\ thread[t].index \in active =>
       state[thread[t].index] = "BUSY"

BusyExcuses == CountExcuses \cup {"fallback", "unlinked"}

Entries ==
  Unless(BusyExcuses) =>
    /\ \A c \in Cids : users(c) > 0 => state[c] = "BUSY"
    /\ \A c \in Cids : state[c] = "BUSY" => Used(c) \/ \E t \in Threads : Has(t, c)
    /\ \A t \in Threads : SetupUses(t)

CallsInv == TypeOK /\ LookedBefore /\ OneAtTable /\ Counter /\ Tables /\ Entries

-----------------------------------------------------------------------------
(* The first free entry, and the users of a context. *)

LEMMA FirstIsFree == ASSUME free # {} PROVE first \in free
<1>1. free \subseteq Nat
  BY CallsAssumption DEF free
<1>2. PICK c \in free : \A d \in free : ~ (<<d, c>> \in OpToRel(<, Nat))
  BY <1>1, NatLessThanWellFounded, WFMin
<1>3. ASSUME NEW d \in free PROVE c <= d
  <2>1. d \in Nat /\ c \in Nat
    BY <1>1, <1>2
  <2>2. d < c => <<d, c>> \in OpToRel(<, Nat)
    BY <2>1 DEF OpToRel
  <2>3. ~ (d < c)
    BY <1>2, <2>2
  <2> QED BY <2>1, <2>3
<1> QED BY <1>3 DEF first

LEMMA UsersCount == \A c : usersOf(c) = users(c)
<1> SUFFICES ASSUME NEW c PROVE usersOf(c) = users(c)
  OBVIOUS
<1> DEFINE card == {t \in {Bip} : At(t, "open") /\ thread[t].index = c}
<1>1. CASE At(Bip, "open") /\ thread[Bip].index = c
  <2>1. card = {Bip}
    BY <1>1
  <2>2. Cardinality(card) = 1
    BY <2>1, FS_Singleton
  <2> QED BY <1>1, <2>2 DEF usersOf, users
<1>2. CASE ~(At(Bip, "open") /\ thread[Bip].index = c)
  <2>1. card = {}
    BY <1>2
  <2>2. Cardinality(card) = 0
    BY <2>1, FS_EmptySet
  <2> QED BY <1>2, <2>2 DEF usersOf, users
<1> QED BY <1>1, <1>2

-----------------------------------------------------------------------------
(* Types. *)

\* only t moves
Moves(t) == thread' = [thread EXCEPT ![t] = thread'[t]]

ThreadsOK == thread \in [Threads -> Locals] /\ \A t \in Threads : Fits(t, thread[t])

LEMMA GoesOn ==
  ASSUME TypeOK, NEW t \in Threads, Moves(t), thread'[t] \in Locals, Fits(t, thread'[t])
  PROVE  ThreadsOK'
  BY DEF TypeOK, ThreadsOK, Moves

LEMMA WaiterMoves ==
  ASSUME TypeOK, NEW t \in Threads, NEW r \in Locals, SignalAndGo(t, r), Fits(t, r)
  PROVE  ThreadsOK'
<1>1. \A u \in Threads : thread[u] \in Locals /\ Fits(u, thread[u])
  BY DEF TypeOK
<1> USE DEF SignalAndGo
<1>2. ASSUME NEW u \in Threads \ {t}, At(u, "waiting")
      PROVE  thread'[u] \in Locals /\ Fits(u, thread'[u])
  <2>1. u = Bip /\ thread[u].index \in Cids
    BY <1>1, <1>2 DEF At, Fits, PlacesOf, SetupPCs, ReleasePCs, WithIndex, Threads, Setup, Release, Bip
  <2>2. thread'[u] = [thread[u] EXCEPT !.pc = "share"]
    BY <1>2
  <2>3. thread'[u] \in Locals /\ thread'[u].pc = "share" /\ thread'[u].index = thread[u].index
    BY <2>2, <1>1 DEF Locals, PCs, BipPCs
  <2> QED BY <2>1, <2>3 DEF Fits, PlacesOf, BipPCs, Setup, Release, Bip
<1>3. ASSUME NEW u \in Threads \ {t}, ~ At(u, "waiting") PROVE thread'[u] = thread[u]
  BY <1>3
<1>4. thread'[t] = r
  OBVIOUS
<1>5. ASSUME NEW u \in Threads PROVE thread'[u] \in Locals /\ Fits(u, thread'[u])
  BY <1>1, <1>2, <1>3, <1>4
<1>6. thread' = [u \in Threads |-> thread'[u]]
  OBVIOUS
<1> QED BY <1>5, <1>6 DEF ThreadsOK

LEMMA EntriesPut ==
  ASSUME TypeOK, NEW cs, putPDP(cs)
  PROVE  /\ state' \in [Cids -> {"IDLE", "BUSY"}]
         /\ cid' \in [Cids -> {"none", "own", "unusable"}]
         /\ secondary' \in [Cids -> SomeCid]
         /\ count' \in [Cids -> Nat]
         /\ pdpState' \in [Cids -> BOOLEAN]
  BY DEF TypeOK, putPDP, SomeCid

LEMMA Places ==
  ASSUME TypeOK, NEW t \in Threads
  PROVE  /\ thread[t] \in Locals /\ Fits(t, thread[t])
         /\ thread[t].pc \in SetupPCs => t \in {Setup, Bip}
         /\ thread[t].pc \in ReleasePCs => t \in {Release, Bip}
         /\ thread[t].pc \in BipPCs => t = Bip
         /\ thread[t].index \in SomeCid /\ thread[t].second \in SomeCid /\ thread[t].bearer \in SomeCid
  BY DEF TypeOK, Fits, PlacesOf, SetupPCs, ReleasePCs, BipPCs, Setup, Release, Bip, Threads, Locals

LEMMA RestFits == Rest \in Locals /\ \A t : Fits(t, Rest)
<1>1. \A c \in SomeCid, n \in Nat :
        [pc |-> "rest", index |-> c, bearer |-> c, second |-> c, linked |-> FALSE, tries |-> n, seen |-> n] \in Locals
  BY DEF Locals, PCs
<1>2. NoCid \in SomeCid
  BY DEF SomeCid
<1>3. Rest \in Locals
  BY <1>1, <1>2 DEF Rest
<1>4. ASSUME NEW t PROVE Fits(t, Rest)
  BY DEF Fits, Rest, PlacesOf, WithIndex, ReleasePCs
<1> QED BY <1>3, <1>4

LEMMA AgainFits ==
  ASSUME TypeOK, NEW t \in {Setup, Bip} PROVE Again(t) \in Locals /\ Fits(t, Again(t))
<1>1. thread[t] \in Locals
  BY DEF TypeOK, Threads
<1> USE DEF Fits, PlacesOf, PCs, SetupPCs, WithIndex, ReleasePCs, Locals, SomeCid, Setup, Bip, Release
<1>2. CASE thread[t].tries < MaxRetries
  <2>1. PICK n \in Nat : n = thread[t].tries + 1
    BY <1>1
  <2>2. Again(t) = [thread[t] EXCEPT !.pc = "retry", !.bearer = NoCid, !.tries = n]
    BY <1>2, <2>1 DEF Again
  <2> QED BY <1>1, <2>2
<1>3. CASE ~ (thread[t].tries < MaxRetries)
  <2>1. Again(t) = [thread[t] EXCEPT !.pc = "get", !.bearer = NoCid]
    BY <1>3 DEF Again
  <2> QED BY <1>1, <2>1
<1> QED BY <1>2, <1>3

LEMMA RetryTypes == ASSUME TypeOK, NEW t \in Threads, Retry(t) PROVE TypeOK'
<1>1. thread[t] \in Locals /\ Fits(t, thread[t]) /\ t \in {Setup, Bip}
  BY Places DEF Retry, At, SetupPCs
<1>2. Moves(t)
  BY DEF TypeOK, Moves, Retry, Goto
<1>3. thread'[t] \in Locals /\ Fits(t, thread'[t])
  <2> USE DEF Fits, PlacesOf, PCs, SetupPCs, WithIndex, ReleasePCs, Locals, SomeCid, Setup, Bip, Release
  <2>1. CASE Goto(t, "get")
    <3>1. thread'[t] = [thread[t] EXCEPT !.pc = "get"]
      BY <2>1 DEF TypeOK, Goto
    <3> QED BY <1>1, <3>1
  <2>2. ASSUME NEW c \in active, thread' = [thread EXCEPT ![t].pc = "take", ![t].bearer = c]
        PROVE  thread'[t] \in Locals /\ Fits(t, thread'[t])
    <3>1. c \in Cids /\ thread'[t] = [thread[t] EXCEPT !.pc = "take", !.bearer = c]
      BY <2>2 DEF TypeOK
    <3> QED BY <1>1, <3>1
  <2>3. ASSUME NEW c \in active, thread' = [thread EXCEPT ![t].pc = "done", ![t].index = c]
        PROVE  thread'[t] \in Locals /\ Fits(t, thread'[t])
    <3>1. c \in Cids /\ thread'[t] = [thread[t] EXCEPT !.pc = "done", !.index = c]
      BY <2>3 DEF TypeOK
    <3> QED BY <1>1, <3>1
  <2> QED BY <2>1, <2>2, <2>3 DEF Retry
<1>4. ThreadsOK'
  BY <1>2, <1>3, GoesOn
<1> QED BY <1>1, <1>4 DEF TypeOK, ThreadsOK, Retry, pdp, openchannel, globals, outside, SomeCid

LEMMA TakeTypes == ASSUME TypeOK, NEW t \in Threads, Take(t) PROVE TypeOK'
<1>1. thread[t] \in Locals /\ Fits(t, thread[t]) /\ t \in {Setup, Bip}
  BY Places DEF Take, At, SetupPCs
<1>2. Moves(t)
  BY DEF TypeOK, Moves, Take, Goto
<1>3. thread'[t] \in Locals /\ Fits(t, thread'[t])
  <2> USE DEF Fits, PlacesOf, PCs, SetupPCs, WithIndex, ReleasePCs, Locals, SomeCid, Setup, Bip, Release
  <2>1. thread'[t] = [thread[t] EXCEPT !.pc = "reuse"]
    BY DEF Take, TypeOK, Goto
  <2>2. thread'[t] \in Locals
    BY <1>1, <2>1 DEF At, Take
  <2> QED BY <1>1, <2>1, <2>2 DEF At, Take
<1>4. ThreadsOK'
  BY <1>2, <1>3, GoesOn
<1> QED BY <1>1, <1>4 DEF TypeOK, ThreadsOK, Take, pdp, openchannel, globals, outside, SomeCid

LEMMA ReuseTypes == ASSUME TypeOK, NEW t \in Threads, Reuse(t) PROVE TypeOK'
<1>1. thread[t] \in Locals /\ Fits(t, thread[t]) /\ t \in {Setup, Bip}
  BY Places DEF Reuse, At, SetupPCs
<1>2. Moves(t)
  BY DEF TypeOK, Moves, Reuse, Goto, Again
<1>a. thread[t].bearer \in Cids /\ Again(t) \in Locals /\ Fits(t, Again(t))
  BY <1>1, AgainFits DEF Fits, Reuse, At
<1>3. thread'[t] \in Locals /\ Fits(t, thread'[t])
  <2> USE DEF Fits, PlacesOf, PCs, SetupPCs, WithIndex, ReleasePCs, Locals, SomeCid, Setup, Bip, Release
  <2>1. ASSUME thread' = [thread EXCEPT ![t] = [thread[t] EXCEPT !.pc = "done", !.index = thread[t].bearer, !.bearer = NoCid]]
        PROVE  thread'[t] \in Locals /\ Fits(t, thread'[t])
    <3>1. thread'[t] = [thread[t] EXCEPT !.pc = "done", !.index = thread[t].bearer, !.bearer = NoCid]
      BY <2>1 DEF TypeOK, Goto
    <3> QED BY <1>1, <1>a, <3>1
  <2>2. ASSUME NEW l \in BOOLEAN,
               thread' = [thread EXCEPT ![t] = [thread[t] EXCEPT !.pc = "getSecond", !.index = thread[t].bearer, !.bearer = NoCid, !.linked = l]]
        PROVE  thread'[t] \in Locals /\ Fits(t, thread'[t])
    <3>1. thread'[t] = [thread[t] EXCEPT !.pc = "getSecond", !.index = thread[t].bearer, !.bearer = NoCid, !.linked = l]
      BY <2>2 DEF TypeOK, Goto
    <3> QED BY <1>1, <1>a, <3>1
  <2>3. ASSUME thread' = [thread EXCEPT ![t] = [thread[t] EXCEPT !.pc = "get", !.bearer = NoCid]]
        PROVE  thread'[t] \in Locals /\ Fits(t, thread'[t])
    <3>1. thread'[t] = [thread[t] EXCEPT !.pc = "get", !.bearer = NoCid]
      BY <2>3 DEF TypeOK, Goto
    <3> QED BY <1>1, <1>a, <3>1
  <2>4. CASE thread' = [thread EXCEPT ![t] = Again(t)]
    <3>1. thread'[t] = Again(t)
      BY <2>4 DEF TypeOK, Goto
    <3> QED BY <1>1, <1>a, <3>1
  <2>5. ASSUME thread' = [thread EXCEPT ![t] = [thread[t] EXCEPT !.pc = "error", !.bearer = NoCid]]
        PROVE  thread'[t] \in Locals /\ Fits(t, thread'[t])
    <3>1. thread'[t] = [thread[t] EXCEPT !.pc = "error", !.bearer = NoCid]
      BY <2>5 DEF TypeOK, Goto
    <3> QED BY <1>1, <1>a, <3>1
  <2> QED BY <2>1, <2>2, <2>3, <2>4, <2>5, <1>a DEF Reuse
<1>4. ThreadsOK'
  BY <1>2, <1>3, GoesOn
<1>5. UNCHANGED <<secondary, openchannel, pdns, outside>>
  BY Zenon DEF Reuse
<1>6. s_openchannelCid' = s_openchannelCid \/ s_openchannelCid' = thread[t].bearer
  BY Zenon DEF Reuse
<1>7. active' = active \/ active' = active \cup {thread[t].bearer} \/ active' = active \ {thread[t].bearer}
  <2>1. active' \in {active, active \ {thread[t].bearer}} => active' = active \/ active' = active \ {thread[t].bearer}
    OBVIOUS
  <2> QED BY <2>1, Zenon DEF Reuse
<1>8. state' = state \/ state' = [state EXCEPT ![thread[t].bearer] = "IDLE"]
  BY Zenon DEF Reuse
<1>9. \/ cid' = cid \/ cid' = [cid EXCEPT ![thread[t].bearer] = "own"]
      \/ cid' = [cid EXCEPT ![thread[t].bearer] = IF @ = "none" THEN "unusable" ELSE @]
  BY Zenon DEF Reuse
<1>10. state' \in [Cids -> {"IDLE", "BUSY"}] /\ cid' \in [Cids -> {"none", "own", "unusable"}]
  <2>1. state' \in [Cids -> {"IDLE", "BUSY"}]
    BY <1>8 DEF TypeOK
  <2>2. CASE cid' = cid \/ cid' = [cid EXCEPT ![thread[t].bearer] = "own"]
    BY <2>1, <2>2 DEF TypeOK
  <2>3. CASE cid' = [cid EXCEPT ![thread[t].bearer] = IF @ = "none" THEN "unusable" ELSE @]
    BY <1>a, <2>1, <2>3 DEF TypeOK
  <2> QED BY <1>9, <2>1, <2>2, <2>3
<1> QED BY <1>a, <1>4, <1>5, <1>6, <1>7, <1>10 DEF TypeOK, ThreadsOK, SomeCid, openchannel, outside

LEMMA GetTypes == ASSUME TypeOK, NEW t \in Threads, Get(t) PROVE TypeOK'
<1>1. thread[t] \in Locals /\ Fits(t, thread[t]) /\ t \in {Setup, Bip}
  BY Places DEF Get, At, SetupPCs
<1>2. Moves(t)
  BY DEF TypeOK, Moves, Get, Goto
<1>a. free # {} => first \in Cids
  BY FirstIsFree DEF free
<1>3. thread'[t] \in Locals /\ Fits(t, thread'[t])
  <2> USE DEF Fits, PlacesOf, PCs, SetupPCs, WithIndex, ReleasePCs, Locals, SomeCid, Setup, Bip, Release
  <2>1. ASSUME thread' = [thread EXCEPT ![t].pc = "error", ![t].index = NoCid]
        PROVE  thread'[t] \in Locals /\ Fits(t, thread'[t])
    <3>1. thread'[t] = [thread[t] EXCEPT !.pc = "error", !.index = NoCid]
      BY <2>1 DEF TypeOK, Goto
    <3> QED BY <1>1, <1>a, <3>1
  <2>2. ASSUME NEW c \in Cids, thread' = [thread EXCEPT ![t].pc = "activate", ![t].index = c]
        PROVE  thread'[t] \in Locals /\ Fits(t, thread'[t])
    <3>1. thread'[t] = [thread[t] EXCEPT !.pc = "activate", !.index = c]
      BY <2>2 DEF TypeOK, Goto
    <3> QED BY <1>1, <1>a, <3>1
  <2> QED BY <2>1, <2>2, <1>a DEF Get
<1>4. ThreadsOK'
  BY <1>2, <1>3, GoesOn
<1> QED BY <1>1, <1>a, <1>4 DEF TypeOK, ThreadsOK, Get, pdp, openchannel, globals, outside, SomeCid

LEMMA ActivateTypes == ASSUME TypeOK, NEW t \in Threads, Activate(t) PROVE TypeOK'
<1>1. thread[t] \in Locals /\ Fits(t, thread[t]) /\ t \in {Setup, Bip}
  BY Places DEF Activate, At, SetupPCs
<1>2. Moves(t)
  BY DEF TypeOK, Moves, Activate, Goto
<1>a. thread[t].index \in Cids
  BY <1>1 DEF Fits, WithIndex, Activate, At, ReleasePCs
<1>3. thread'[t] \in Locals /\ Fits(t, thread'[t])
  <2> USE DEF Fits, PlacesOf, PCs, SetupPCs, WithIndex, ReleasePCs, Locals, SomeCid, Setup, Bip, Release
  <2>1. CASE Goto(t, "done")
    <3>1. thread'[t] = [thread[t] EXCEPT !.pc = "done"]
      BY <2>1 DEF TypeOK, Goto
    <3> QED BY <1>1, <1>a, <3>1
  <2>2. ASSUME NEW l \in BOOLEAN, thread' = [thread EXCEPT ![t].pc = "getSecond", ![t].linked = l]
        PROVE  thread'[t] \in Locals /\ Fits(t, thread'[t])
    <3>1. thread'[t] = [thread[t] EXCEPT !.pc = "getSecond", !.linked = l]
      BY <2>2 DEF TypeOK, Goto
    <3> QED BY <1>1, <1>a, <3>1
  <2>3. CASE Goto(t, "put")
    <3>1. thread'[t] = [thread[t] EXCEPT !.pc = "put"]
      BY <2>3 DEF TypeOK, Goto
    <3> QED BY <1>1, <1>a, <3>1
  <2> QED BY <2>1, <2>2, <2>3, <1>a DEF Activate
<1>4. ThreadsOK'
  BY <1>2, <1>3, GoesOn
<1> QED BY <1>1, <1>a, <1>4 DEF TypeOK, ThreadsOK, Activate, pdp, openchannel, globals, outside, SomeCid

LEMMA PutBackTypes == ASSUME TypeOK, NEW t \in Threads, PutBack(t) PROVE TypeOK'
<1>1. thread[t] \in Locals /\ Fits(t, thread[t]) /\ t \in {Setup, Bip}
  BY Places DEF PutBack, At, SetupPCs
<1>2. Moves(t)
  BY DEF TypeOK, Moves, PutBack, Goto
<1>a. thread[t].index \in Cids /\ Again(t) \in Locals /\ Fits(t, Again(t))
  BY <1>1, AgainFits DEF Fits, WithIndex, PutBack, At
<1>3. thread'[t] \in Locals /\ Fits(t, thread'[t])
  <2> USE DEF Fits, PlacesOf, PCs, SetupPCs, WithIndex, ReleasePCs, Locals, SomeCid, Setup, Bip, Release
  <2>1. ASSUME NEW next \in {"error", "unusable", "fallback"}, Goto(t, next)
        PROVE  thread'[t] \in Locals /\ Fits(t, thread'[t])
    <3>1. thread'[t] = [thread[t] EXCEPT !.pc = next]
      BY <2>1 DEF TypeOK, Goto
    <3> QED BY <1>1, <1>a, <3>1
  <2>2. ASSUME thread' = [thread EXCEPT ![t] = IF @.tries < MaxRetries THEN Again(t) ELSE [@ EXCEPT !.pc = "done"]]
        PROVE  thread'[t] \in Locals /\ Fits(t, thread'[t])
    <3>1. thread'[t] = IF thread[t].tries < MaxRetries THEN Again(t) ELSE [thread[t] EXCEPT !.pc = "done"]
      BY <2>2 DEF TypeOK, Goto
    <3> QED BY <1>1, <1>a, <3>1
  <2> QED BY <2>1, <2>2, <1>a DEF PutBack
<1>4. ThreadsOK'
  BY <1>2, <1>3, GoesOn
<1> QED BY <1>1, <1>a, <1>4, EntriesPut DEF TypeOK, ThreadsOK, PutBack, pdp, openchannel, globals, outside, SomeCid

LEMMA UnusableTypes == ASSUME TypeOK, NEW t \in Threads, Unusable(t) PROVE TypeOK'
<1>1. thread[t] \in Locals /\ Fits(t, thread[t]) /\ t \in {Setup, Bip}
  BY Places DEF Unusable, At, SetupPCs
<1>2. Moves(t)
  BY DEF TypeOK, Moves, Unusable, Goto
<1>a. thread[t].index \in Cids
  BY <1>1 DEF Fits, WithIndex, Unusable, At, ReleasePCs
<1>3. thread'[t] \in Locals /\ Fits(t, thread'[t])
  <2> USE DEF Fits, PlacesOf, PCs, SetupPCs, WithIndex, ReleasePCs, Locals, SomeCid, Setup, Bip, Release
  <2>1. thread'[t] = [thread[t] EXCEPT !.pc = "retry"]
    BY DEF Unusable, TypeOK, Goto
  <2>2. thread'[t] \in Locals
    BY <1>1, <1>a, <2>1
  <2> QED BY <1>1, <1>a, <2>1, <2>2
<1>4. ThreadsOK'
  BY <1>2, <1>3, GoesOn
<1> QED BY <1>1, <1>a, <1>4 DEF TypeOK, ThreadsOK, Unusable, pdp, openchannel, globals, outside, SomeCid

LEMMA FallbackTypes == ASSUME TypeOK, NEW t \in Threads, Fallback(t) PROVE TypeOK'
<1>1. thread[t] \in Locals /\ Fits(t, thread[t]) /\ t \in {Setup, Bip}
  BY Places DEF Fallback, At, SetupPCs
<1>2. Moves(t)
  BY DEF TypeOK, Moves, Fallback, Goto
<1>a. thread[t].index \in Cids
  BY <1>1 DEF Fits, WithIndex, Fallback, At, ReleasePCs
<1>3. thread'[t] \in Locals /\ Fits(t, thread'[t])
  <2> USE DEF Fits, PlacesOf, PCs, SetupPCs, WithIndex, ReleasePCs, Locals, SomeCid, Setup, Bip, Release
  <2>1. ASSUME thread' = [thread EXCEPT ![t].pc = "getSecond", ![t].linked = FALSE]
        PROVE  thread'[t] \in Locals /\ Fits(t, thread'[t])
    <3>1. thread'[t] = [thread[t] EXCEPT !.pc = "getSecond", !.linked = FALSE]
      BY <2>1 DEF TypeOK, Goto
    <3> QED BY <1>1, <1>a, <3>1
  <2>2. CASE Goto(t, "error")
    <3>1. thread'[t] = [thread[t] EXCEPT !.pc = "error"]
      BY <2>2 DEF TypeOK, Goto
    <3> QED BY <1>1, <1>a, <3>1
  <2> QED BY <2>1, <2>2, <1>a DEF Fallback
<1>4. ThreadsOK'
  BY <1>2, <1>3, GoesOn
<1> QED BY <1>1, <1>a, <1>4 DEF TypeOK, ThreadsOK, Fallback, pdp, openchannel, globals, outside, SomeCid

LEMMA GetSecondTypes == ASSUME TypeOK, NEW t \in Threads, GetSecond(t) PROVE TypeOK'
<1>1. thread[t] \in Locals /\ Fits(t, thread[t]) /\ t \in {Setup, Bip}
  BY Places DEF GetSecond, At, SetupPCs
<1>2. Moves(t)
  BY DEF TypeOK, Moves, GetSecond, Goto
<1>a. thread[t].index \in Cids /\ (free # {} => first \in Cids)
  BY <1>1, FirstIsFree DEF Fits, WithIndex, GetSecond, At, free
<1>3. thread'[t] \in Locals /\ Fits(t, thread'[t])
  <2> USE DEF Fits, PlacesOf, PCs, SetupPCs, WithIndex, ReleasePCs, Locals, SomeCid, Setup, Bip, Release
  <2>1. ASSUME thread' = [thread EXCEPT ![t].pc = "done", ![t].linked = FALSE]
        PROVE  thread'[t] \in Locals /\ Fits(t, thread'[t])
    <3>1. thread'[t] = [thread[t] EXCEPT !.pc = "done", !.linked = FALSE]
      BY <2>1 DEF TypeOK, Goto
    <3> QED BY <1>1, <1>a, <3>1
  <2>2. ASSUME NEW c \in Cids, thread' = [thread EXCEPT ![t].pc = "second", ![t].second = c]
        PROVE  thread'[t] \in Locals /\ Fits(t, thread'[t])
    <3>1. thread'[t] = [thread[t] EXCEPT !.pc = "second", !.second = c]
      BY <2>2 DEF TypeOK, Goto
    <3> QED BY <1>1, <1>a, <3>1
  <2> QED BY <2>1, <2>2, <1>a DEF GetSecond
<1>4. ThreadsOK'
  BY <1>2, <1>3, GoesOn
<1> QED BY <1>1, <1>a, <1>4 DEF TypeOK, ThreadsOK, GetSecond, pdp, openchannel, globals, outside, SomeCid

LEMMA SecondTypes == ASSUME TypeOK, NEW t \in Threads, Second(t) PROVE TypeOK'
<1>1. thread[t] \in Locals /\ Fits(t, thread[t]) /\ t \in {Setup, Bip}
  BY Places DEF Second, At, SetupPCs
<1>2. Moves(t)
  BY DEF TypeOK, Moves, Second, Goto
<1>a. thread[t].index \in Cids /\ thread[t].second \in Cids
  BY <1>1 DEF Fits, WithIndex, Second, At
<1>3. thread'[t] \in Locals /\ Fits(t, thread'[t])
  <2> USE DEF Fits, PlacesOf, PCs, SetupPCs, WithIndex, ReleasePCs, Locals, SomeCid, Setup, Bip, Release
  <2>1. thread'[t] = [thread[t] EXCEPT !.pc = "done", !.second = NoCid, !.linked = FALSE]
    BY DEF Second, TypeOK, Goto
  <2>2. thread'[t] \in Locals
    BY <1>1, <1>a, <2>1
  <2> QED BY <1>1, <1>a, <2>1, <2>2
<1>4. ThreadsOK'
  BY <1>2, <1>3, GoesOn
<1> QED BY <1>1, <1>a, <1>4, EntriesPut DEF TypeOK, ThreadsOK, Second, pdp, openchannel, globals, outside, SomeCid

LEMMA ErrorTypes == ASSUME TypeOK, NEW t \in Threads, Error(t) PROVE TypeOK'
<1>1. thread[t] \in Locals /\ Fits(t, thread[t]) /\ t \in {Setup, Bip}
  BY Places DEF Error, At, SetupPCs
<1>2. Moves(t)
  BY DEF TypeOK, Moves, Error, Goto
<1>3. thread'[t] \in Locals /\ Fits(t, thread'[t])
  <2> USE DEF Fits, PlacesOf, PCs, SetupPCs, WithIndex, ReleasePCs, Locals, SomeCid, Setup, Bip, Release
  <2>1. thread'[t] = [thread[t] EXCEPT !.pc = "tell"]
    BY DEF Error, TypeOK, Goto
  <2>2. thread'[t] \in Locals
    BY <1>1, <2>1
  <2> QED BY <1>1, <2>1, <2>2
<1>4. ThreadsOK'
  BY <1>2, <1>3, GoesOn
<1> QED BY <1>1, <1>4, EntriesPut DEF TypeOK, ThreadsOK, Error, pdp, openchannel, globals, outside, SomeCid

LEMMA LeaveTypes == ASSUME TypeOK, NEW t \in Threads, Leave(t) PROVE TypeOK'
<1>1. thread[t] \in Locals /\ Fits(t, thread[t]) /\ t \in {Release, Bip}
  BY Places DEF Leave, At, ReleasePCs
<1>2. Moves(t)
  BY DEF TypeOK, Moves, Leave, Goto
<1>a. thread[t].index \in Cids
  BY <1>1 DEF Fits, WithIndex, Leave, At, ReleasePCs
<1>3. thread'[t] \in Locals /\ Fits(t, thread'[t])
  <2> USE DEF Fits, PlacesOf, PCs, SetupPCs, WithIndex, ReleasePCs, Locals, SomeCid, Setup, Bip, Release
  <2>1. thread'[t] = [thread[t] EXCEPT !.pc = "store", !.seen = count[thread[t].index]]
    BY DEF Leave, TypeOK, Goto
  <2>2. PICK n \in Nat : n = count[thread[t].index]
    BY <1>a DEF TypeOK
  <2>3. thread'[t] = [thread[t] EXCEPT !.pc = "store", !.seen = n]
    BY <2>1, <2>2
  <2> QED BY <1>1, <1>a, <2>3
<1>4. ThreadsOK'
  BY <1>2, <1>3, GoesOn
<1> QED BY <1>1, <1>a, <1>4 DEF TypeOK, ThreadsOK, Leave, pdp, openchannel, globals, outside, SomeCid

LEMMA LeaveStoreTypes == ASSUME TypeOK, NEW t \in Threads, LeaveStore(t) PROVE TypeOK'
<1>1. thread[t] \in Locals /\ Fits(t, thread[t]) /\ t \in {Release, Bip}
  BY Places DEF LeaveStore, At, ReleasePCs
<1>2. Moves(t)
  BY DEF TypeOK, Moves, LeaveStore, Goto
<1>a. thread[t].index \in Cids /\ thread[t].seen \in Nat /\ \E zero \in Nat : zero = 0
  BY <1>1 DEF Fits, WithIndex, LeaveStore, At, ReleasePCs, Locals
<1>3. thread'[t] \in Locals /\ Fits(t, thread'[t])
  <2> USE DEF Fits, PlacesOf, PCs, SetupPCs, WithIndex, ReleasePCs, Locals, SomeCid, Setup, Bip, Release
  <2>1. ASSUME NEW n \in Nat, thread' = [thread EXCEPT ![t].pc = "last", ![t].seen = n]
        PROVE  thread'[t] \in Locals /\ Fits(t, thread'[t])
    <3>1. thread'[t] = [thread[t] EXCEPT !.pc = "last", !.seen = n]
      BY <2>1 DEF TypeOK, Goto
    <3> QED BY <1>1, <1>a, <3>1
  <2> QED BY <2>1, <1>a DEF LeaveStore
<1>4. ThreadsOK'
  BY <1>2, <1>3, GoesOn
<1> QED BY <1>1, <1>a, <1>4 DEF TypeOK, ThreadsOK, LeaveStore, pdp, openchannel, globals, outside, SomeCid

LEMMA LastTypes == ASSUME TypeOK, NEW t \in Threads, Last(t) PROVE TypeOK'
<1>1. thread[t] \in Locals /\ Fits(t, thread[t]) /\ t \in {Release, Bip}
  BY Places DEF Last, At, ReleasePCs
<1>2. Moves(t)
  BY DEF TypeOK, Moves, Last, Goto
<1>a. thread[t].index \in Cids /\ secondary[thread[t].index] \in SomeCid /\ Rest \in Locals /\ Fits(t, Rest)
  BY <1>1, RestFits DEF Fits, WithIndex, Last, At, ReleasePCs, TypeOK
<1>3. thread'[t] \in Locals /\ Fits(t, thread'[t])
  <2> USE DEF Fits, PlacesOf, PCs, SetupPCs, WithIndex, ReleasePCs, Locals, SomeCid, Setup, Bip, Release
  <2>1. ASSUME thread' = [thread EXCEPT ![t] = Rest]
        PROVE  thread'[t] \in Locals /\ Fits(t, thread'[t])
    <3>1. thread'[t] = Rest
      BY <2>1 DEF TypeOK, Goto
    <3> QED BY <1>1, <1>a, <3>1
  <2>2. ASSUME NEW c \in SomeCid,
               thread' = [thread EXCEPT ![t] = [thread[t] EXCEPT !.pc = "deactivate", !.second = c]]
        PROVE  thread'[t] \in Locals /\ Fits(t, thread'[t])
    <3>1. thread'[t] = [thread[t] EXCEPT !.pc = "deactivate", !.second = c]
      BY <2>2 DEF TypeOK, Goto
    <3> QED BY <1>1, <1>a, <3>1
  <2> QED BY <2>1, <2>2, <1>a DEF Last
<1>4. ThreadsOK'
  BY <1>2, <1>3, GoesOn
<1> QED BY <1>1, <1>a, <1>4 DEF TypeOK, ThreadsOK, Last, pdp, openchannel, globals, outside, SomeCid

LEMMA DeactivateTypes == ASSUME TypeOK, NEW t \in Threads, Deactivate(t) PROVE TypeOK'
<1>1. thread[t] \in Locals /\ Fits(t, thread[t]) /\ t \in {Release, Bip}
  BY Places DEF Deactivate, At, ReleasePCs
<1>2. Moves(t)
  BY DEF TypeOK, Moves, Deactivate, Goto
<1>a. thread[t].index \in Cids
  BY <1>1 DEF Fits, WithIndex, Deactivate, At, ReleasePCs
<1>3. thread'[t] \in Locals /\ Fits(t, thread'[t])
  <2> USE DEF Fits, PlacesOf, PCs, SetupPCs, WithIndex, ReleasePCs, Locals, SomeCid, Setup, Bip, Release
  <2>1. thread'[t] = [thread[t] EXCEPT !.pc = "free"]
    BY DEF Deactivate, TypeOK, Goto
  <2>2. thread'[t] \in Locals
    BY <1>1, <1>a, <2>1
  <2> QED BY <1>1, <1>a, <2>1, <2>2
<1>4. ThreadsOK'
  BY <1>2, <1>3, GoesOn
<1> QED BY <1>1, <1>a, <1>4 DEF TypeOK, ThreadsOK, Deactivate, pdp, openchannel, globals, outside, SomeCid

LEMMA FreeTypes == ASSUME TypeOK, NEW t \in Threads, Free(t) PROVE TypeOK'
<1>1. thread[t] \in Locals /\ Fits(t, thread[t]) /\ t \in {Release, Bip}
  BY Places DEF Free, At, ReleasePCs
<1>2. Moves(t)
  BY DEF TypeOK, Moves, Free, Goto
<1>a. Rest \in Locals /\ Fits(t, Rest)
  BY RestFits
<1>3. thread'[t] \in Locals /\ Fits(t, thread'[t])
  <2> USE DEF Fits, PlacesOf, PCs, SetupPCs, WithIndex, ReleasePCs, Locals, SomeCid, Setup, Bip, Release
  <2>1. thread'[t] = Rest
    BY DEF Free, TypeOK, Goto
  <2>2. thread'[t] \in Locals
    BY <1>1, <1>a, <2>1
  <2> QED BY <1>1, <1>a, <2>1, <2>2
<1>4. ThreadsOK'
  BY <1>2, <1>3, GoesOn
<1> QED BY <1>1, <1>a, <1>4, EntriesPut DEF TypeOK, ThreadsOK, Free, pdp, openchannel, globals, outside, SomeCid

\* where a set-up ends
LEMMA Returns ==
  ASSUME NEW t \in {Setup, Bip}
  PROVE  /\ Returned(t) \in Locals /\ Fits(t, Returned(t))
         /\ IF t = Bip THEN Returned(t) = [Rest EXCEPT !.pc = "result"] ELSE Returned(t) = Rest
<1>1. CASE t = Bip
  <2>1. Returned(t) = [Rest EXCEPT !.pc = "result"]
    BY <1>1 DEF Returned
  <2>2. Returned(t) \in Locals
    BY <2>1, RestFits DEF Locals, PCs, BipPCs
  <2>3. Returned(t).pc = "result"
    BY <2>1, RestFits DEF Locals
  <2> QED BY <1>1, <2>1, <2>2, <2>3 DEF Fits, PlacesOf, BipPCs, WithIndex, ReleasePCs, Setup, Bip, Release
<1>2. CASE t # Bip
  <2>1. Returned(t) = [Rest EXCEPT !.pc = "rest"]
    BY <1>2 DEF Returned
  <2>2. Rest.pc = "rest"
    BY DEF Rest
  <2>3. Returned(t) = Rest
    BY <2>1, <2>2, RestFits DEF Locals
  <2> QED BY <1>2, <2>3, RestFits
<1> QED BY <1>1, <1>2

LEMMA SignalTypes ==
  ASSUME TypeOK, NEW t \in Threads, Done(t) \/ Tell(t)
  PROVE  TypeOK'
<1>1. thread[t] \in Locals /\ Fits(t, thread[t]) /\ t \in {Setup, Bip}
  BY Places DEF Done, Tell, At, SetupPCs
<1> DEFINE listed == [thread[t] EXCEPT !.pc = "list", !.tries = 0]
<1>2. CASE Done(t)
  <2>1. thread[t].index \in Cids
    BY <1>1, <1>2 DEF Done, At, Fits, WithIndex
  <2>2. PICK n \in Nat : n = 0
    OBVIOUS
  <2>3. [thread[t] EXCEPT !.pc = "list", !.tries = n] \in Locals
    BY <1>1 DEF Locals, PCs, SetupPCs
  <2>4. Fits(t, [thread[t] EXCEPT !.pc = "list", !.tries = n])
    BY <1>1, <2>1 DEF Fits, PlacesOf, SetupPCs, WithIndex, Locals, Setup, Bip, Release
  <2>5. ThreadsOK'
    BY <1>2, <2>2, <2>3, <2>4, WaiterMoves DEF Done
  <2> QED BY <1>2, <2>1, <2>5 DEF TypeOK, ThreadsOK, Done, usable, globals, outside, SomeCid
<1>3. CASE Tell(t)
  <2>3. ThreadsOK'
    BY <1>1, <1>3, Returns, WaiterMoves DEF Tell
  <2> QED BY <1>3, <2>3 DEF TypeOK, ThreadsOK, Tell, usable, globals, outside
<1> QED BY <1>2, <1>3

LEMMA ListTypes == ASSUME TypeOK, NEW t \in Threads, List(t) PROVE TypeOK'
<1>1. thread[t] \in Locals /\ Fits(t, thread[t]) /\ t \in {Setup, Bip}
  BY Places DEF List, At, SetupPCs
<1>4. ThreadsOK'
  BY <1>1, Returns, GoesOn DEF List, Moves, TypeOK
<1>5. client' \in [Cids -> Nat]
  BY DEF List, TypeOK
<1> QED BY <1>4, <1>5, EntriesPut DEF TypeOK, ThreadsOK, List, pdp

LEMMA OutsideTypes ==
  ASSUME TypeOK, (\E c \in Cids : NetworkDrops(c)) \/ ReadCEND \/ UNCHANGED vars
  PROVE  TypeOK'
<1>1. CASE \E c \in Cids : NetworkDrops(c)
  BY <1>1 DEF NetworkDrops, TypeOK, Event, pdp, openchannel, globals
<1>2. CASE ReadCEND
  <2> DEFINE c == Head(lines)
  <2>1. c \in Cids /\ lines' \in Seq(Cids)
    BY <1>2 DEF ReadCEND, TypeOK
  <2>2. ThreadsOK'
    <3>1. CASE UNCHANGED thread
      BY <3>1 DEF TypeOK, ThreadsOK
    <3>2. CASE thread' = [thread EXCEPT ![Bip] = Rest]
      BY <3>2, RestFits DEF TypeOK, ThreadsOK, Threads
    <3> QED BY <1>2, <3>1, <3>2 DEF ReadCEND, TypeOK
  <2>3. /\ state' \in [Cids -> {"IDLE", "BUSY"}] /\ cid' \in [Cids -> {"none", "own", "unusable"}]
        /\ secondary' \in [Cids -> SomeCid] /\ count' \in [Cids -> Nat] /\ pdpState' \in [Cids -> BOOLEAN]
    <3>1. CASE putPDP({c, secondary[c]} \ {NoCid})
      BY <3>1, EntriesPut
    <3>2. CASE UNCHANGED <<pdp, pdpState>> /\ count' \in {count, [count EXCEPT ![c] = 0]}
      BY <3>2 DEF TypeOK, pdp
    <3> QED BY <1>2, <3>1, <3>2 DEF ReadCEND, pdp, openchannel
  <2>4. channel' \in [Cids -> {"CLOSE", "OPEN", "REUSE"}]
    BY <1>2 DEF ReadCEND, TypeOK, openchannel
  <2> QED BY <1>2, <2>1, <2>2, <2>3, <2>4 DEF ReadCEND, TypeOK, ThreadsOK
<1>3. CASE UNCHANGED vars
  BY <1>3 DEF TypeOK, vars, pdp, openchannel, globals, outside
<1> QED BY <1>1, <1>2, <1>3

LEMMA ClientSetsUpTypes == ASSUME TypeOK, ClientSetsUp PROVE TypeOK'
<1>1. thread[Setup] \in Locals /\ Fits(Setup, thread[Setup]) /\ Setup \in Threads
  BY Places DEF ClientSetsUp, At, Threads
<1>2. Moves(Setup)
  BY DEF TypeOK, Moves, ClientSetsUp, Goto
<1>3. thread'[Setup] \in Locals /\ Fits(Setup, thread'[Setup])
  <2> USE DEF Fits, PlacesOf, PCs, SetupPCs, BipPCs, WithIndex, ReleasePCs, Locals, SomeCid, Setup, Bip, Release
  <2>1. thread'[Setup] = [thread[Setup] EXCEPT !.pc = "retry"]
    BY <1>1 DEF ClientSetsUp, TypeOK, Goto
  <2>2. thread'[Setup] \in Locals
    BY <1>1, <2>1
  <2> QED BY <1>1, <2>1, <2>2
<1>4. ThreadsOK'
  BY <1>1, <1>2, <1>3, GoesOn
<1> QED BY <1>1, <1>4 DEF TypeOK, ThreadsOK, ClientSetsUp, pdp, openchannel, globals, outside, SomeCid, Event

LEMMA ClientReleasesTypes == ASSUME TypeOK, NEW c \in Cids, ClientReleases(c) PROVE TypeOK'
<1>1. thread[Release] \in Locals /\ Fits(Release, thread[Release]) /\ Release \in Threads
  BY Places DEF ClientReleases, At, Threads
<1>2. Moves(Release)
  BY DEF TypeOK, Moves, ClientReleases, Goto
<1>a. Rest \in Locals
  BY RestFits
<1>3. thread'[Release] \in Locals /\ Fits(Release, thread'[Release])
  <2> USE DEF Fits, PlacesOf, PCs, SetupPCs, BipPCs, WithIndex, ReleasePCs, Locals, SomeCid, Setup, Bip, Release
  <2>1. thread'[Release] = [Rest EXCEPT !.pc = "leave", !.index = c]
    BY <1>1 DEF ClientReleases, TypeOK, Goto
  <2>2. thread'[Release] \in Locals
    BY <1>1, <1>a, <2>1
  <2> QED BY <1>1, <1>a, <2>1, <2>2
<1>4. ThreadsOK'
  BY <1>1, <1>2, <1>3, GoesOn
<1> QED BY <1>1, <1>a, <1>4 DEF TypeOK, ThreadsOK, ClientReleases, pdp, openchannel, globals, outside, SomeCid

LEMMA BipOpensTypes == ASSUME TypeOK, BipOpens PROVE TypeOK'
<1>1. thread[Bip] \in Locals /\ Fits(Bip, thread[Bip]) /\ Bip \in Threads
  BY Places DEF BipOpens, At, Threads
<1>2. Moves(Bip)
  BY DEF TypeOK, Moves, BipOpens, Goto
<1>3. thread'[Bip] \in Locals /\ Fits(Bip, thread'[Bip])
  <2> USE DEF Fits, PlacesOf, PCs, SetupPCs, BipPCs, WithIndex, ReleasePCs, Locals, SomeCid, Setup, Bip, Release
  <2>1. thread'[Bip] = [thread[Bip] EXCEPT !.pc = "look"]
    BY <1>1 DEF BipOpens, TypeOK, Goto
  <2>2. thread'[Bip] \in Locals
    BY <1>1, <2>1
  <2> QED BY <1>1, <2>1, <2>2
<1>4. ThreadsOK'
  BY <1>1, <1>2, <1>3, GoesOn
<1> QED BY <1>1, <1>4 DEF TypeOK, ThreadsOK, BipOpens, pdp, openchannel, globals, outside, SomeCid, Event

LEMMA BipWaitsTypes == ASSUME TypeOK, BipWaits PROVE TypeOK'
<1>1. thread[Bip] \in Locals /\ Fits(Bip, thread[Bip]) /\ Bip \in Threads
  BY Places DEF BipWaits, At, Threads
<1>2. Moves(Bip)
  BY DEF TypeOK, Moves, BipWaits, Goto
<1>a. thread[Bip].index \in Cids
  BY <1>1 DEF Fits, WithIndex, BipWaits, At, ReleasePCs
<1>3. thread'[Bip] \in Locals /\ Fits(Bip, thread'[Bip])
  <2> USE DEF Fits, PlacesOf, PCs, SetupPCs, BipPCs, WithIndex, ReleasePCs, Locals, SomeCid, Setup, Bip, Release
  <2>1. thread'[Bip] = [thread[Bip] EXCEPT !.pc = "waiting"]
    BY <1>1 DEF BipWaits, TypeOK, Goto
  <2>2. thread'[Bip] \in Locals
    BY <1>1, <1>a, <2>1
  <2> QED BY <1>1, <1>a, <2>1, <2>2
<1>4. ThreadsOK'
  BY <1>1, <1>2, <1>3, GoesOn
<1> QED BY <1>1, <1>a, <1>4 DEF TypeOK, ThreadsOK, BipWaits, pdp, openchannel, globals, outside, SomeCid

LEMMA BipSharesTypes == ASSUME TypeOK, BipShares PROVE TypeOK'
<1>1. thread[Bip] \in Locals /\ Fits(Bip, thread[Bip]) /\ Bip \in Threads
  BY Places DEF BipShares, At, Threads
<1>2. Moves(Bip)
  BY DEF TypeOK, Moves, BipShares, Goto
<1>a. thread[Bip].index \in Cids /\ count[thread[Bip].index] \in Nat
  BY <1>1 DEF Fits, WithIndex, BipShares, At, TypeOK
<1>3. thread'[Bip] \in Locals /\ Fits(Bip, thread'[Bip])
  <2> USE DEF Fits, PlacesOf, PCs, SetupPCs, BipPCs, WithIndex, ReleasePCs, Locals, SomeCid, Setup, Bip, Release
  <2>1. thread'[Bip] = [thread[Bip] EXCEPT !.pc = "shared", !.seen = count[thread[Bip].index]]
    BY <1>1 DEF BipShares, TypeOK, Goto
  <2>2. thread'[Bip] \in Locals
    BY <1>1, <1>a, <2>1
  <2> QED BY <1>1, <1>a, <2>1, <2>2
<1>4. ThreadsOK'
  BY <1>1, <1>2, <1>3, GoesOn
<1> QED BY <1>1, <1>a, <1>4 DEF TypeOK, ThreadsOK, BipShares, pdp, openchannel, globals, outside, SomeCid

LEMMA BipSharedTypes == ASSUME TypeOK, BipShared PROVE TypeOK'
<1>1. thread[Bip] \in Locals /\ Fits(Bip, thread[Bip]) /\ Bip \in Threads
  BY Places DEF BipShared, At, Threads
<1>2. Moves(Bip)
  BY DEF TypeOK, Moves, BipShared, Goto
<1>a. thread[Bip].index \in Cids /\ thread[Bip].seen \in Nat /\ \E zero \in Nat : zero = 0
  BY <1>1 DEF Fits, WithIndex, BipShared, At, Locals
<1>3. thread'[Bip] \in Locals /\ Fits(Bip, thread'[Bip])
  <2> USE DEF Fits, PlacesOf, PCs, SetupPCs, BipPCs, WithIndex, ReleasePCs, Locals, SomeCid, Setup, Bip, Release
  <2>1. ASSUME NEW n \in Nat, thread' = [thread EXCEPT ![Bip].pc = "open", ![Bip].seen = n]
        PROVE  thread'[Bip] \in Locals /\ Fits(Bip, thread'[Bip])
    <3>1. thread'[Bip] = [thread[Bip] EXCEPT !.pc = "open", !.seen = n]
      BY <1>1, <2>1 DEF TypeOK, Goto
    <3> QED BY <1>1, <1>a, <3>1
  <2> QED BY <2>1, <1>a DEF BipShared
<1>4. ThreadsOK'
  BY <1>1, <1>2, <1>3, GoesOn
<1> QED BY <1>1, <1>a, <1>4 DEF TypeOK, ThreadsOK, BipShared, pdp, openchannel, globals, outside, SomeCid

LEMMA BipClosesTypes == ASSUME TypeOK, BipCloses PROVE TypeOK'
<1>1. thread[Bip] \in Locals /\ Fits(Bip, thread[Bip]) /\ Bip \in Threads
  BY Places DEF BipCloses, At, Threads
<1>2. Moves(Bip)
  BY DEF TypeOK, Moves, BipCloses, Goto
<1>a. thread[Bip].index \in Cids
  BY <1>1 DEF Fits, WithIndex, BipCloses, At, ReleasePCs
<1>3. thread'[Bip] \in Locals /\ Fits(Bip, thread'[Bip])
  <2> USE DEF Fits, PlacesOf, PCs, SetupPCs, BipPCs, WithIndex, ReleasePCs, Locals, SomeCid, Setup, Bip, Release
  <2>1. thread'[Bip] = [thread[Bip] EXCEPT !.pc = "leave"]
    BY <1>1 DEF BipCloses, TypeOK, Goto
  <2>2. thread'[Bip] \in Locals
    BY <1>1, <1>a, <2>1
  <2> QED BY <1>1, <1>a, <2>1, <2>2
<1>4. ThreadsOK'
  BY <1>1, <1>2, <1>3, GoesOn
<1> QED BY <1>1, <1>a, <1>4 DEF TypeOK, ThreadsOK, BipCloses, pdp, openchannel, globals, outside, SomeCid

LEMMA BipLooksTypes == ASSUME TypeOK, BipLooks PROVE TypeOK'
<1>1. thread[Bip] \in Locals /\ Fits(Bip, thread[Bip]) /\ Bip \in Threads
  BY Places DEF BipLooks, At, Threads
<1>2. Moves(Bip)
  BY DEF TypeOK, Moves, BipLooks, Goto
<1>a. pdns \subseteq Cids
  BY DEF TypeOK
<1>3. thread'[Bip] \in Locals /\ Fits(Bip, thread'[Bip])
  <2> USE DEF Fits, PlacesOf, PCs, SetupPCs, BipPCs, WithIndex, ReleasePCs, Locals, SomeCid, Setup, Bip, Release
  <2>1. ASSUME NEW c \in Cids, NEW place \in {"share", "lock"},
               thread' = [thread EXCEPT ![Bip].pc = place, ![Bip].index = c]
        PROVE  thread'[Bip] \in Locals /\ Fits(Bip, thread'[Bip])
    <3>1. thread'[Bip] = [thread[Bip] EXCEPT !.pc = place, !.index = c]
      BY <1>1, <2>1 DEF TypeOK, Goto
    <3> QED BY <1>1, <1>a, <3>1
  <2>2. CASE Goto(Bip, "retry")
    <3>1. thread'[Bip] = [thread[Bip] EXCEPT !.pc = "retry"]
      BY <1>1, <2>2 DEF TypeOK, Goto
    <3> QED BY <1>1, <1>a, <3>1
  <2> QED BY <2>1, <2>2, <1>a DEF BipLooks
<1>4. ThreadsOK'
  BY <1>1, <1>2, <1>3, GoesOn
<1> QED BY <1>1, <1>a, <1>4 DEF TypeOK, ThreadsOK, BipLooks, pdp, openchannel, globals, outside, SomeCid

LEMMA BipSetUpTypes == ASSUME TypeOK, BipSetUp PROVE TypeOK'
<1>1. thread[Bip] \in Locals /\ Fits(Bip, thread[Bip]) /\ Bip \in Threads
  BY Places DEF BipSetUp, At, Threads
<1>2. Moves(Bip)
  BY DEF TypeOK, Moves, BipSetUp, Goto
<1>a. Rest \in Locals /\ Fits(Bip, Rest) /\ s_openchannelCid \in SomeCid
  BY RestFits DEF TypeOK
<1>3. thread'[Bip] \in Locals /\ Fits(Bip, thread'[Bip])
  <2> USE DEF Fits, PlacesOf, PCs, SetupPCs, BipPCs, WithIndex, ReleasePCs, Locals, SomeCid, Setup, Bip, Release
  <2>1. ASSUME thread' = [thread EXCEPT ![Bip] = Rest]
        PROVE  thread'[Bip] \in Locals /\ Fits(Bip, thread'[Bip])
    <3>1. thread'[Bip] = Rest
      BY <1>1, <2>1 DEF TypeOK, Goto
    <3> QED BY <1>1, <1>a, <3>1
  <2>2. ASSUME NEW c \in Cids, thread' = [thread EXCEPT ![Bip] = [Rest EXCEPT !.pc = "open", !.index = c]]
        PROVE  thread'[Bip] \in Locals /\ Fits(Bip, thread'[Bip])
    <3>1. thread'[Bip] = [Rest EXCEPT !.pc = "open", !.index = c]
      BY <1>1, <2>2 DEF TypeOK, Goto
    <3> QED BY <1>1, <1>a, <3>1
  <2> QED BY <2>1, <2>2, <1>a DEF BipSetUp
<1>4. ThreadsOK'
  BY <1>1, <1>2, <1>3, GoesOn
<1> QED BY <1>1, <1>a, <1>4 DEF TypeOK, ThreadsOK, BipSetUp, pdp, openchannel, globals, outside, SomeCid

LEMMA InitTypes == Init => TypeOK
<1> SUFFICES ASSUME Init PROVE TypeOK
  OBVIOUS
<1>1. active \subseteq Cids
  BY CallsAssumption DEF Init
<1>2. \A t \in Threads : thread[t] = Rest
  BY DEF Init
<1>3. thread \in [Threads -> Locals] /\ \A t \in Threads : Fits(t, thread[t])
  BY <1>2, RestFits DEF Init
<1>4. /\ cid \in [Cids -> {"none", "own", "unusable"}]
      /\ channel \in [Cids -> {"CLOSE", "OPEN", "REUSE"}]
      /\ count \in [Cids -> Nat] /\ client \in [Cids -> Nat] /\ events \in Nat
  BY DEF Init
<1>5. lines \in Seq(Cids)
  BY DEF Init
<1> QED BY <1>1, <1>3, <1>4, <1>5 DEF Init, TypeOK, SomeCid

LEMMA TypeStep == TypeOK /\ [Next]_vars => TypeOK'
<1> SUFFICES ASSUME TypeOK, [Next]_vars PROVE TypeOK'
  OBVIOUS
<1>1. CASE \E t \in Threads : Step(t)
  BY <1>1, RetryTypes, TakeTypes, ReuseTypes, GetTypes, ActivateTypes, PutBackTypes, UnusableTypes,
     FallbackTypes, GetSecondTypes, SecondTypes, SignalTypes, ListTypes, ErrorTypes, LeaveTypes,
     LeaveStoreTypes, LastTypes, DeactivateTypes, FreeTypes DEF Step
<1>2. CASE ClientSetsUp \/ \E c \in Cids : ClientReleases(c)
  BY <1>2, ClientSetsUpTypes, ClientReleasesTypes
<1>3. CASE BipOpens \/ BipLooks \/ BipWaits \/ BipShares \/ BipShared \/ BipSetUp \/ BipCloses
  BY <1>3, BipOpensTypes, BipLooksTypes, BipWaitsTypes, BipSharesTypes, BipSharedTypes,
     BipSetUpTypes, BipClosesTypes
<1> QED BY <1>1, <1>2, <1>3, OutsideTypes DEF Next

-----------------------------------------------------------------------------
(* How a step at the table moves the threads. *)

\* where a step at the table may lead
AtTablePCs == SetupPCs \cup ReleasePCs
EndPCs == AtTablePCs \cup {"rest", "result"}

(* The answers to the AT+CGDATA of Reuse, one by one. *)
ReuseUp(t, next) ==
  LET c == thread[t].bearer IN
  /\ cid' = [cid EXCEPT ![c] = "own"]
  /\ s_openchannelCid' = c
  /\ active' = active \cup {c}
  /\ thread' = [thread EXCEPT ![t] = next]
  /\ UNCHANGED state

ReuseFails(t, next) ==
  LET c == thread[t].bearer IN
  /\ cid' \in {cid, [cid EXCEPT ![c] = IF @ = "none" THEN "unusable" ELSE @]}
  /\ state' = [state EXCEPT ![c] = "IDLE"]
  /\ thread' = [thread EXCEPT ![t] = next]
  /\ UNCHANGED s_openchannelCid
  /\ active' \in {active, active \ {c}}

ReuseDone(t) == [thread[t] EXCEPT !.pc = "done", !.index = thread[t].bearer, !.bearer = NoCid]
ReuseSecond(t, linked) == [thread[t] EXCEPT !.pc = "getSecond", !.index = thread[t].bearer, !.bearer = NoCid,
                                            !.linked = linked]
ReuseGet(t) == [thread[t] EXCEPT !.pc = "get", !.bearer = NoCid]
ReuseError(t) == [thread[t] EXCEPT !.pc = "error", !.bearer = NoCid]

LEMMA ReuseGoes ==
  ASSUME NEW t \in Threads, thread[t] \in Locals
  PROVE  /\ ReuseDone(t).pc = "done" /\ ReuseDone(t).index = thread[t].bearer
         /\ \A l \in BOOLEAN : /\ ReuseSecond(t, l).pc = "getSecond"
                               /\ ReuseSecond(t, l).index = thread[t].bearer
                               /\ ReuseSecond(t, l).linked = l
         /\ ReuseGet(t).pc = "get" /\ ReuseGet(t).index = thread[t].index
         /\ ReuseError(t).pc = "error" /\ ReuseError(t).index = thread[t].index
  BY DEF ReuseDone, ReuseSecond, ReuseGet, ReuseError, Locals

LEMMA ReuseAnswers ==
  ASSUME NEW t \in Threads, Reuse(t)
  PROVE  /\ At(t, "reuse") /\ UNCHANGED <<secondary, openchannel, pdns, outside, happened>>
         /\ \/ ReuseUp(t, ReuseDone(t))
            \/ \E linked \in BOOLEAN : ReuseUp(t, ReuseSecond(t, linked))
            \/ ReuseFails(t, ReuseGet(t))
            \/ ReuseFails(t, Again(t))
            \/ ReuseFails(t, ReuseError(t))
<1>1. At(t, "reuse") /\ UNCHANGED <<secondary, openchannel, pdns, outside, happened>>
  BY Zenon DEF Reuse
<1> DEFINE c == thread[t].bearer
           up == /\ cid' = [cid EXCEPT ![c] = "own"]
                 /\ s_openchannelCid' = c
                 /\ active' = active \cup {c}
                 /\ \/ thread' = [thread EXCEPT ![t] = [thread[t] EXCEPT !.pc = "done", !.index = c, !.bearer = NoCid]]
                    \/ \E linked \in BOOLEAN : thread' = [thread EXCEPT ![t] = [thread[t] EXCEPT !.pc = "getSecond", !.index = c, !.bearer = NoCid, !.linked = linked]]
                 /\ UNCHANGED state
           unusable ==
                 /\ cid' = [cid EXCEPT ![c] = IF @ = "none" THEN "unusable" ELSE @]
                 /\ state' = [state EXCEPT ![c] = "IDLE"]
                 /\ thread' = [thread EXCEPT ![t] = [thread[t] EXCEPT !.pc = "get", !.bearer = NoCid]]
                 /\ UNCHANGED <<s_openchannelCid, active>>
           again ==
                 /\ state' = [state EXCEPT ![c] = "IDLE"]
                 /\ thread' = [thread EXCEPT ![t] = Again(t)]
                 /\ UNCHANGED <<cid, s_openchannelCid, active>>
           fails ==
                 /\ state' = [state EXCEPT ![c] = "IDLE"]
                 /\ active' \in {active, active \ {c}}
                 /\ thread' = [thread EXCEPT ![t] = [thread[t] EXCEPT !.pc = "error", !.bearer = NoCid]]
                 /\ UNCHANGED <<cid, s_openchannelCid>>
<1>2. up \/ unusable \/ again \/ fails
  BY Zenon DEF Reuse
<1>3. CASE up
  BY <1>1, <1>3, Zenon DEF ReuseUp, ReuseDone, ReuseSecond
<1>4. CASE unusable
  BY <1>1, <1>4, Zenon DEF ReuseFails, ReuseGet
<1>5. CASE again
  BY <1>1, <1>5, Zenon DEF ReuseFails
<1>6. CASE fails
  BY <1>1, <1>6, Zenon DEF ReuseFails, ReuseError
<1> HIDE DEF up, unusable, again, fails
<1> QED BY <1>2, <1>3, <1>4, <1>5, <1>6

LEMMA AgainGoes ==
  ASSUME NEW t \in Threads, thread[t] \in Locals
  PROVE  /\ Again(t).pc \in {"retry", "get"} /\ Again(t).bearer = NoCid
         /\ Again(t).index = thread[t].index /\ Again(t).second = thread[t].second
  BY DEF Again, Locals

LEMMA StepShape ==
  ASSUME TypeOK, NEW t \in Threads, Step(t)
  PROVE  /\ thread[t].pc \in AtTablePCs /\ thread'[t].pc \in EndPCs
         /\ \A u \in Threads \ {t} :
              \/ thread'[u] = thread[u]
              \/ At(u, "waiting") /\ thread'[u] = [thread[u] EXCEPT !.pc = "share"]
         /\ \A x \in happened : x \in happened'
         /\ channel' = channel /\ lines' = lines
         /\ thread'[t].pc = "store" => Leave(t)
<1> DEFINE Goal == /\ thread[t].pc \in AtTablePCs /\ thread'[t].pc \in EndPCs
                   /\ \A u \in Threads \ {t} :
                        \/ thread'[u] = thread[u]
                        \/ At(u, "waiting") /\ thread'[u] = [thread[u] EXCEPT !.pc = "share"]
                   /\ \A x \in happened : x \in happened'
                   /\ channel' = channel /\ lines' = lines
                   /\ thread'[t].pc = "store" => Leave(t)
<1>0. thread \in [Threads -> Locals] /\ thread[t] \in Locals
  BY DEF TypeOK
<1>a. Again(t).pc \in {"retry", "get"}
  BY <1>0, AgainGoes
<1> USE <1>0 DEF Goal, AtTablePCs, EndPCs, SetupPCs, ReleasePCs, At, Goto, Locals, openchannel, outside
<1>1. CASE Retry(t)
  BY <1>1 DEF Retry
<1>2. CASE Take(t)
  BY <1>2 DEF Take
<1>3. CASE Reuse(t)
  <2>1. ASSUME NEW r, r.pc \in EndPCs \ {"store"}, ReuseUp(t, r) \/ ReuseFails(t, r) PROVE Goal
    BY <1>3, <2>1, ReuseAnswers DEF ReuseUp, ReuseFails
  <2>2. LET places == EndPCs \ {"store"} IN
        /\ ReuseDone(t).pc \in places /\ \A l \in BOOLEAN : ReuseSecond(t, l).pc \in places
        /\ ReuseGet(t).pc \in places /\ Again(t).pc \in places /\ ReuseError(t).pc \in places
    BY <1>0, <1>a, ReuseGoes
  <2>3. \/ ReuseUp(t, ReuseDone(t))
        \/ \E linked \in BOOLEAN : ReuseUp(t, ReuseSecond(t, linked))
        \/ ReuseFails(t, ReuseGet(t)) \/ ReuseFails(t, Again(t)) \/ ReuseFails(t, ReuseError(t))
    BY <1>3, ReuseAnswers, Zenon
  <2>4. PICK r : r.pc \in EndPCs \ {"store"} /\ (ReuseUp(t, r) \/ ReuseFails(t, r))
    BY <2>2, <2>3, Zenon
  <2> QED BY <2>1, <2>4, Zenon
<1>4. CASE Get(t)
  BY <1>4 DEF Get
<1>5. CASE Activate(t)
  BY <1>5 DEF Activate
<1>6. CASE PutBack(t)
  BY <1>6, <1>a DEF PutBack
<1>7. CASE Unusable(t)
  BY <1>7 DEF Unusable
<1>8. CASE Fallback(t)
  BY <1>8 DEF Fallback, after
<1>9. CASE GetSecond(t)
  BY <1>9 DEF GetSecond
<1>10. CASE Second(t)
  BY <1>10 DEF Second, after
<1>11. CASE Done(t)
  BY <1>11 DEF Done, SignalAndGo
<1>12. CASE List(t)
  BY <1>12 DEF List, Returned, Rest, after
<1>13. CASE Error(t)
  BY <1>13 DEF Error
<1>14. CASE Tell(t)
  BY <1>14 DEF Tell, SignalAndGo, Returned, Rest
<1>15. CASE Leave(t)
  BY <1>15 DEF Leave
<1>16. CASE LeaveStore(t)
  BY <1>16 DEF LeaveStore
<1>17. CASE Last(t)
  BY <1>17 DEF Last, Rest
<1>18. CASE Deactivate(t)
  BY <1>18 DEF Deactivate
<1>19. CASE Free(t)
  BY <1>19 DEF Free, Rest
<1> QED BY <1>1, <1>2, <1>3, <1>4, <1>5, <1>6, <1>7, <1>8, <1>9, <1>10, <1>11, <1>12, <1>13, <1>14, <1>15, <1>16, <1>17, <1>18, <1>19 DEF Step

-----------------------------------------------------------------------------
(* The waiter. *)

LEMMA PutForgets ==
  ASSUME TypeOK, NEW cs, putPDP(cs) PROVE \A c \in Cids : pdpState'[c] => pdpState[c]
  BY DEF TypeOK, putPDP

LEMMA OnlySignalsAnnounce ==
  ASSUME TypeOK, NEW t \in Threads, Step(t), ~ Done(t), ~ Tell(t)
  PROVE  \A c \in Cids : pdpState'[c] => pdpState[c]
<1> USE PutForgets DEF openchannel
<1>1. CASE Retry(t)
  BY <1>1 DEF Retry
<1>2. CASE Take(t)
  BY <1>2 DEF Take
<1>3. CASE Reuse(t)
  BY <1>3, Zenon DEF Reuse
<1>4. CASE Get(t)
  BY <1>4 DEF Get
<1>5. CASE Activate(t)
  BY <1>5 DEF Activate
<1>6. CASE PutBack(t)
  BY <1>6 DEF PutBack
<1>7. CASE Unusable(t)
  BY <1>7 DEF Unusable
<1>8. CASE Fallback(t)
  BY <1>8 DEF Fallback
<1>9. CASE GetSecond(t)
  BY <1>9 DEF GetSecond
<1>10. CASE Second(t)
  BY <1>10 DEF Second
<1>11. CASE List(t)
  BY <1>11 DEF List
<1>12. CASE Error(t)
  BY <1>12 DEF Error
<1>13. CASE Leave(t)
  BY <1>13 DEF Leave
<1>14. CASE LeaveStore(t)
  BY <1>14 DEF LeaveStore
<1>15. CASE Last(t)
  BY <1>15 DEF Last
<1>16. CASE Deactivate(t)
  BY <1>16 DEF Deactivate
<1>17. CASE Free(t)
  BY <1>17 DEF Free
<1> QED BY <1>1, <1>2, <1>3, <1>4, <1>5, <1>6, <1>7, <1>8, <1>9, <1>10, <1>11, <1>12, <1>13, <1>14, <1>15, <1>16, <1>17 DEF Step

LEMMA SignalIsMissed ==
  ASSUME TypeOK, NEW t \in Threads, Done(t) \/ Tell(t)
  PROVE  /\ thread'[Bip].pc \notin {"lock", "waiting"} \/ "missed" \in happened'
<1>1. thread[t].pc \in {"done", "tell"}
  BY DEF Done, Tell, At
<1>2. PICK next : SignalAndGo(t, next) /\ next.pc \in {"list", "rest", "result"}
  <2>1. CASE Done(t)
    <3>1. [thread[t] EXCEPT !.pc = "list", !.tries = 0].pc = "list"
      BY DEF TypeOK, Locals
    <3> QED BY <2>1, <3>1 DEF Done
  <2>2. CASE Tell(t)
    <3>1. Returned(t).pc \in {"rest", "result"}
      BY DEF Returned, Rest
    <3> QED BY <2>2, <3>1 DEF Tell
  <2> QED BY <2>1, <2>2
<1>3. CASE t = Bip
  BY <1>2, <1>3 DEF SignalAndGo
<1>4. CASE t # Bip /\ At(Bip, "waiting")
  BY <1>2, <1>4 DEF SignalAndGo, Threads, TypeOK, Locals, At
<1>5. CASE t # Bip /\ ~ At(Bip, "waiting")
  <2>1. thread'[Bip] = thread[Bip]
    BY <1>2, <1>5 DEF SignalAndGo, Threads
  <2>2. At(Bip, "lock") => "missed" \in happened'
    BY <1>2 DEF SignalAndGo
  <2> QED BY <1>5, <2>1, <2>2 DEF At
<1> QED BY <1>3, <1>4, <1>5

LEMMA LookedStep == TypeOK /\ LookedBefore /\ [Next]_vars => LookedBefore'
<1> SUFFICES ASSUME TypeOK, LookedBefore, [Next]_vars,
                    thread'[Bip].pc \in {"lock", "waiting"}, "missed" \notin happened'
             PROVE  ~ pdpState'[thread'[Bip].index]
  BY DEF LookedBefore
<1>1. ASSUME thread[Bip].pc \in {"lock", "waiting"}, thread'[Bip].index = thread[Bip].index,
             "missed" \in happened => "missed" \in happened',
             \A c \in Cids : pdpState'[c] => pdpState[c]
      PROVE  ~ pdpState'[thread'[Bip].index]
  <2>1. thread[Bip].index \in Cids
    BY <1>1, Places DEF Fits, WithIndex, Threads
  <2> QED BY <1>1, <2>1 DEF LookedBefore
<1>2. ASSUME NEW t \in Threads, Step(t) PROVE ~ pdpState'[thread'[Bip].index]
  <2>1. ~ Done(t) /\ ~ Tell(t)
    BY <1>2, SignalIsMissed
  <2>2. t # Bip
    BY <1>2, StepShape DEF EndPCs, AtTablePCs, SetupPCs, ReleasePCs
  <2>3. thread'[Bip] = thread[Bip]
    <3>1. thread'[Bip] = thread[Bip] \/ thread'[Bip] = [thread[Bip] EXCEPT !.pc = "share"]
      BY <1>2, <2>2, StepShape DEF Threads
    <3>2. [thread[Bip] EXCEPT !.pc = "share"].pc = "share"
      BY DEF TypeOK, Locals, Threads
    <3> QED BY <3>1, <3>2
  <2> QED BY <1>1, <1>2, <2>1, <2>3, StepShape, OnlySignalsAnnounce
<1>4. thread[Bip] \in Locals /\ Bip \in Threads /\ thread \in [Threads -> Locals]
  BY DEF TypeOK, Threads
<1>3. CASE ClientSetsUp \/ \E c \in Cids : ClientReleases(c)
  <2>2. thread'[Bip] = thread[Bip]
    <3>1. CASE ClientSetsUp
      BY <1>4, <3>1 DEF ClientSetsUp, Goto, Setup, Bip
    <3>2. ASSUME NEW c \in Cids, ClientReleases(c) PROVE thread'[Bip] = thread[Bip]
      <4>1. PICK r : thread' = [thread EXCEPT ![Release] = r]
        BY <3>2, Zenon DEF ClientReleases
      <4> QED BY <1>4, <4>1 DEF Release, Bip
    <3> QED BY <1>3, <3>1, <3>2
  <2>4. UNCHANGED <<count, pdpState, channel>> /\ happened' = overlap
    <3>1. CASE ClientSetsUp
      BY <3>1 DEF ClientSetsUp, openchannel
    <3>2. ASSUME NEW c \in Cids, ClientReleases(c)
          PROVE  UNCHANGED <<count, pdpState, channel>> /\ happened' = overlap
      BY <3>2, Zenon DEF ClientReleases, openchannel
    <3> QED BY <1>3, <3>1, <3>2
  <2>3. "missed" \in happened => "missed" \in happened'
    BY <2>4 DEF overlap
  <2> QED BY <1>1, <2>2, <2>3, <2>4
<1>5. CASE BipLooks
  <2>1. ASSUME NEW c \in pdns, NEW place, ~ pdpState[c] \/ place = "share",
               thread' = [thread EXCEPT ![Bip].pc = place, ![Bip].index = c]
        PROVE  ~ pdpState'[thread'[Bip].index]
    <3>1. thread'[Bip].pc = place /\ thread'[Bip].index = c
      BY <1>4, <2>1 DEF Locals
    <3> QED BY <1>5, <2>1, <3>1 DEF BipLooks, openchannel
  <2>2. ~ Goto(Bip, "retry")
    <3>1. [thread[Bip] EXCEPT !.pc = "retry"].pc = "retry"
      BY <1>4 DEF Locals
    <3> QED BY <1>4, <3>1 DEF Goto
  <2> QED BY <1>5, <2>1, <2>2 DEF BipLooks
<1>6. CASE BipWaits
  <2>1. thread[Bip].pc = "lock" /\ thread'[Bip].index = thread[Bip].index
    BY <1>4, <1>6 DEF BipWaits, At, Goto, Locals
  <2> QED BY <1>1, <1>6, <2>1 DEF BipWaits, openchannel
<1>7. CASE BipOpens \/ BipShares \/ BipShared \/ BipCloses
  BY <1>4, <1>7 DEF BipOpens, BipShares, BipShared, BipCloses, Goto, Locals
<1>8. CASE BipSetUp
  <2>1. ASSUME NEW c PROVE [Rest EXCEPT !.pc = "open", !.index = c].pc = "open" /\ Rest.pc = "rest"
    BY DEF Rest
  <2>2. thread'[Bip].pc \in {"open", "rest"}
    BY <1>4, <1>8, <2>1 DEF BipSetUp
  <2> QED BY <2>2
<1>9. CASE \E c \in Cids : NetworkDrops(c)
  BY <1>1, <1>9 DEF NetworkDrops, openchannel, after
<1>10. CASE ReadCEND
  <2>1. thread'[Bip] = thread[Bip]
    BY <1>4, <1>10 DEF ReadCEND, Rest
  <2>2. \A c \in Cids : pdpState'[c] => pdpState[c]
    BY <1>10, PutForgets DEF ReadCEND, openchannel
  <2>3. "missed" \in happened => "missed" \in happened'
    BY <1>10 DEF ReadCEND, after
  <2> QED BY <1>1, <2>1, <2>2, <2>3
<1>11. CASE UNCHANGED vars
  BY <1>1, <1>11 DEF vars, openchannel
<1> QED BY <1>2, <1>3, <1>5, <1>6, <1>7, <1>8, <1>9, <1>10, <1>11 DEF Next

-----------------------------------------------------------------------------
(* One at a time. *)

Starts == ClientSetsUp \/ (\E c \in Cids : ClientReleases(c)) \/ BipOpens \/ BipCloses

LEMMA StartsAlone ==
  ASSUME Starts, "overlap" \notin happened'
  PROVE  happened' = happened /\ \A t \in Threads : ~ busy(t)
<1>1. happened' = overlap
  <2>1. ASSUME NEW c \in Cids, ClientReleases(c) PROVE happened' = overlap
    BY <2>1, Zenon DEF ClientReleases
  <2>2. ClientSetsUp \/ BipOpens \/ BipCloses => happened' = overlap
    BY DEF ClientSetsUp, BipOpens, BipCloses
  <2> QED BY <2>1, <2>2 DEF Starts
<1> QED BY <1>1 DEF overlap

LEMMA HappenedKept ==
  TypeOK /\ [Next]_vars => \A x \in happened : x \in happened' \/ "overlap" \in happened'
<1> SUFFICES ASSUME TypeOK, [Next]_vars, NEW x \in happened, "overlap" \notin happened' PROVE x \in happened'
  OBVIOUS
<1>1. ASSUME NEW t \in Threads, Step(t) PROVE x \in happened'
  BY <1>1, StepShape
<1>2. CASE Starts
  BY <1>2, StartsAlone
<1>3. CASE BipLooks \/ BipWaits \/ BipShares \/ BipShared \/ BipSetUp
  BY <1>3 DEF BipLooks, BipWaits, BipShares, BipShared, BipSetUp, after
<1>4. ASSUME NEW c \in Cids, NetworkDrops(c) PROVE x \in happened'
  BY <1>4 DEF NetworkDrops, after
<1>5. CASE ReadCEND
  BY <1>5 DEF ReadCEND, after
<1>6. CASE UNCHANGED vars
  BY <1>6 DEF vars
<1> QED BY <1>1, <1>2, <1>3, <1>4, <1>5, <1>6 DEF Next, Starts

LEMMA UnlessKept ==
  ASSUME TypeOK, [Next]_vars, NEW E, "overlap" \in E, Unless(E)' PROVE Unless(E)
  BY HappenedKept DEF Unless

LEMMA OneStep == TypeOK /\ OneAtTable /\ [Next]_vars => OneAtTable'
<1> SUFFICES ASSUME TypeOK, OneAtTable, [Next]_vars, Unless({"overlap"})'
             PROVE  \A t, u \in Threads : busy(t)' /\ busy(u)' => t = u
  BY DEF OneAtTable
<1>1. \A t, u \in Threads : busy(t) /\ busy(u) => t = u
  BY UnlessKept DEF OneAtTable
<1>2. "overlap" \notin happened'
  BY DEF Unless
<1>3. ASSUME \A t \in Threads : busy(t)' => busy(t)
      PROVE  \A t, u \in Threads : busy(t)' /\ busy(u)' => t = u
  BY <1>1, <1>3
<1>4. thread \in [Threads -> Locals] /\ Bip \in Threads /\ Setup \in Threads /\ Release \in Threads
  BY DEF TypeOK, Threads
<1>5. ASSUME NEW s \in Threads, \A t \in Threads : ~ busy(t), \A t \in Threads \ {s} : thread'[t] = thread[t]
      PROVE  \A t, u \in Threads : busy(t)' /\ busy(u)' => t = u
  BY <1>5 DEF busy
<1>6. ASSUME NEW t \in Threads, Step(t) PROVE \A u \in Threads : busy(u)' => busy(u)
  <2>1. busy(t)
    BY <1>6, StepShape DEF busy, AtTablePCs, SetupPCs, ReleasePCs
  <2>2. ASSUME NEW u \in Threads \ {t}, busy(u)' PROVE busy(u)
    BY <1>6, <2>2, StepShape DEF busy, At
  <2> QED BY <2>1, <2>2
<1>7. CASE Starts
  <2>1. \E s \in Threads : \A t \in Threads \ {s} : thread'[t] = thread[t]
    <3>1. ASSUME NEW c \in Cids, ClientReleases(c)
          PROVE  \E r : thread' = [thread EXCEPT ![Release] = r]
      BY <3>1, Zenon DEF ClientReleases
    <3>2. CASE ClientSetsUp
      BY <1>4, <3>2 DEF ClientSetsUp, Goto
    <3>3. CASE BipOpens \/ BipCloses
      BY <1>4, <3>3 DEF BipOpens, BipCloses, Goto
    <3> QED BY <1>4, <1>7, <3>1, <3>2, <3>3 DEF Starts
  <2> QED BY <1>2, <1>5, <1>7, <2>1, StartsAlone
<1>8. CASE BipLooks \/ BipWaits \/ BipShares \/ BipShared
  <2>1. busy(Bip)
    BY <1>8 DEF BipLooks, BipWaits, BipShares, BipShared, At, busy
  <2>2. \A t \in Threads \ {Bip} : thread'[t] = thread[t]
    BY <1>4, <1>8 DEF BipLooks, BipWaits, BipShares, BipShared, Goto
  <2> QED BY <1>3, <2>1, <2>2 DEF busy
<1>9. CASE BipSetUp
  <2>1. busy(Bip)
    BY <1>9 DEF BipSetUp, At, busy
  <2>2. PICK r : thread' = [thread EXCEPT ![Bip] = r]
    BY <1>9, Zenon DEF BipSetUp
  <2> QED BY <1>3, <1>4, <2>1, <2>2 DEF busy
<1>10. CASE \E c \in Cids : NetworkDrops(c)
  BY <1>3, <1>10 DEF NetworkDrops, busy
<1>11. CASE ReadCEND
  BY <1>3, <1>4, <1>11 DEF ReadCEND, busy, Rest
<1>12. CASE UNCHANGED vars
  BY <1>3, <1>12 DEF vars, busy
<1> QED BY <1>3, <1>6, <1>7, <1>8, <1>9, <1>10, <1>11, <1>12 DEF Next, Starts

-----------------------------------------------------------------------------
(* The count of users, and pdpState. *)

LEMMA Alone ==
  ASSUME TypeOK, OneAtTable, Unless({"overlap"}), NEW t \in Threads, busy(t)
  PROVE  \A u \in Threads \ {t} : thread[u].pc \in {"rest", "open"}
  BY DEF OneAtTable, busy

LEMMA AloneStep ==
  ASSUME TypeOK, OneAtTable, Unless({"overlap"}), NEW t \in Threads, Step(t)
  PROVE  /\ \A u \in Threads \ {t} : thread[u].pc \in {"rest", "open"} /\ thread'[u] = thread[u]
         /\ thread[t].pc \in AtTablePCs /\ thread'[t].pc \in EndPCs
<1>1. busy(t)
  BY StepShape DEF busy, AtTablePCs, SetupPCs, ReleasePCs
<1> QED BY <1>1, Alone, StepShape DEF At

\* without pdpState there are no users
Announced == \A c \in Cids : ~ pdpState[c] => count[c] = 0

LEMMA PutCounts == ASSUME Announced, NEW cs, putPDP(cs) PROVE Announced'
  BY DEF Announced, putPDP

LEMMA AnnouncedStep ==
  ASSUME TypeOK, Announced, NEW t \in Threads, Step(t),
         At(t, "store") => thread[t].seen = count[thread[t].index]
  PROVE  Announced'
<1> USE PutCounts DEF openchannel
<1>1. CASE Retry(t)
  BY <1>1 DEF Retry, Announced
<1>2. CASE Take(t)
  BY <1>2 DEF Take, Announced
<1>3. CASE Reuse(t)
  BY <1>3, Zenon DEF Reuse, Announced
<1>4. CASE Get(t)
  BY <1>4 DEF Get, Announced
<1>5. CASE Activate(t)
  BY <1>5 DEF Activate, Announced
<1>6. CASE PutBack(t)
  BY <1>6 DEF PutBack, Announced
<1>7. CASE Unusable(t)
  BY <1>7 DEF Unusable, Announced
<1>8. CASE Fallback(t)
  BY <1>8 DEF Fallback, Announced
<1>9. CASE GetSecond(t)
  BY <1>9 DEF GetSecond, Announced
<1>10. CASE Second(t)
  BY <1>10, PutCounts DEF Second, Announced
<1>11. CASE Done(t)
  BY <1>11 DEF Done, TypeOK, Announced
<1>12. CASE List(t)
  BY <1>12 DEF List, Announced
<1>13. CASE Error(t)
  BY <1>13 DEF Error, Announced
<1>14. CASE Tell(t)
  BY <1>14 DEF Tell, TypeOK, Announced
<1>15. CASE Leave(t)
  BY <1>15 DEF Leave, Announced
<1>16. CASE LeaveStore(t)
  <2>1. thread[t].index \in Cids /\ thread[t].seen = count[thread[t].index]
    BY <1>16, Places DEF LeaveStore, At, Fits, WithIndex, ReleasePCs
  <2> QED BY <1>16, <2>1 DEF LeaveStore, Announced, TypeOK
<1>17. CASE Last(t)
  BY <1>17 DEF Last, Announced
<1>18. CASE Deactivate(t)
  BY <1>18 DEF Deactivate, Announced
<1>19. CASE Free(t)
  BY <1>19 DEF Free, Announced
<1> QED BY <1>1, <1>2, <1>3, <1>4, <1>5, <1>6, <1>7, <1>8, <1>9, <1>10, <1>11, <1>12, <1>13, <1>14, <1>15, <1>16, <1>17, <1>18, <1>19 DEF Step

SeenIs(t) == thread[t].pc \in {"store", "shared"} => thread[t].seen = count[thread[t].index]

LEMMA StoreSees ==
  ASSUME TypeOK, NEW t \in Threads, Step(t), thread'[t].pc = "store"
  PROVE  thread'[t].seen = count'[thread'[t].index]
<1>1. Leave(t)
  BY StepShape
<1> QED BY <1>1 DEF Leave, TypeOK, Locals, openchannel

LEMMA CounterStep == TypeOK /\ OneAtTable /\ Counter /\ [Next]_vars => Counter'
<1> SUFFICES ASSUME TypeOK, OneAtTable, Counter, [Next]_vars, Unless({"overlap", "dropped"})'
             PROVE  /\ lines' = <<>> /\ Announced'
                    /\ thread'[Bip].pc \in {"share", "shared"} => pdpState'[thread'[Bip].index]
                    /\ \A t \in Threads : SeenIs(t)'
  BY DEF Counter, Announced, SeenIs
<1>1. Unless({"overlap", "dropped"}) /\ Unless({"overlap"})
  BY UnlessKept DEF Unless
<1>2. /\ lines = <<>> /\ Announced
      /\ thread[Bip].pc \in {"share", "shared"} => pdpState[thread[Bip].index]
      /\ \A t \in Threads : SeenIs(t)
  BY <1>1 DEF Counter, Announced, SeenIs
<1>3. thread \in [Threads -> Locals] /\ Bip \in Threads /\ Setup \in Threads /\ Release \in Threads
  BY DEF TypeOK, Threads
<1>4. "overlap" \notin happened' /\ "dropped" \notin happened'
  BY DEF Unless
<1> DEFINE Goal == /\ lines' = <<>> /\ Announced'
                   /\ thread'[Bip].pc \in {"share", "shared"} => pdpState'[thread'[Bip].index]
                   /\ \A t \in Threads : SeenIs(t)'
<1>5. ASSUME NEW t \in Threads, Step(t) PROVE Goal
  <2>1. /\ \A u \in Threads \ {t} : thread[u].pc \in {"rest", "open"} /\ thread'[u] = thread[u]
        /\ thread'[t].pc \in EndPCs
    BY <1>1, <1>5, AloneStep
  <2>2. Announced'
    BY <1>2, <1>5, AnnouncedStep DEF At, SeenIs
  <2>3. thread'[Bip].pc \notin {"share", "shared"}
    BY <1>3, <2>1 DEF EndPCs, AtTablePCs, SetupPCs, ReleasePCs
  <2>4. SeenIs(t)'
    BY <1>5, <2>1, StoreSees DEF SeenIs, EndPCs, AtTablePCs, SetupPCs, ReleasePCs
  <2>5. \A u \in Threads \ {t} : SeenIs(u)'
    BY <2>1 DEF SeenIs
  <2> QED BY <1>2, <1>5, <2>2, <2>3, <2>4, <2>5, StepShape
<1>6. ASSUME Starts, NEW s \in Threads, \A t \in Threads \ {s} : thread'[t] = thread[t],
             thread'[s].pc \notin {"share", "shared", "store"},
             UNCHANGED <<count, pdpState, lines>>
      PROVE  Goal
  <2>1. \A t \in Threads : ~ busy(t)
    BY <1>4, <1>6, StartsAlone
  <2>2. \A t \in Threads : thread'[t].pc \notin {"share", "shared", "store"}
    BY <1>6, <2>1 DEF busy
  <2> QED BY <1>2, <1>3, <1>6, <2>2 DEF SeenIs, Announced
<1>7. CASE ClientSetsUp
  BY <1>3, <1>6, <1>7 DEF ClientSetsUp, Goto, Starts, openchannel, Locals
<1>8. ASSUME NEW c \in Cids, ClientReleases(c) PROVE Goal
  <2>1. PICK r : thread' = [thread EXCEPT ![Release] = r] /\ r.pc = "leave"
    <3>1. [Rest EXCEPT !.pc = "leave", !.index = c].pc = "leave"
      BY DEF Rest
    <3> QED BY <1>8, <3>1, Zenon DEF ClientReleases
  <2>2. UNCHANGED <<count, pdpState, lines>>
    BY <1>8, Zenon DEF ClientReleases, openchannel
  <2>3. thread'[Release].pc = "leave" /\ \A t \in Threads \ {Release} : thread'[t] = thread[t]
    BY <1>3, <2>1
  <2> QED BY <1>3, <1>6, <1>8, <2>2, <2>3 DEF Starts
<1>9. CASE BipOpens \/ BipCloses
  <2>1. \A t \in Threads \ {Bip} : thread'[t] = thread[t]
    BY <1>3, <1>9 DEF BipOpens, BipCloses, Goto
  <2>2. thread'[Bip].pc \in {"look", "leave"}
    BY <1>3, <1>9 DEF BipOpens, BipCloses, Goto, Locals
  <2> QED BY <1>3, <1>6, <1>9, <2>1, <2>2 DEF BipOpens, BipCloses, Starts, openchannel, outside
<1>10. ASSUME busy(Bip), \A t \in Threads \ {Bip} : thread'[t] = thread[t]
       PROVE  \A t \in Threads \ {Bip} : SeenIs(t)'
  <2>1. \A t \in Threads \ {Bip} : thread[t].pc \in {"rest", "open"}
    BY <1>1, <1>3, <1>10, Alone
  <2> QED BY <1>10, <2>1 DEF SeenIs
<1>11. CASE BipLooks
  <2>1. busy(Bip) /\ \A t \in Threads \ {Bip} : thread'[t] = thread[t]
    BY <1>3, <1>11 DEF BipLooks, At, busy, Goto
  <2>2. UNCHANGED <<count, pdpState, lines>>
    BY <1>11 DEF BipLooks, openchannel, outside
  <2>3. CASE Goto(Bip, "retry")
    <3>1. thread'[Bip].pc = "retry"
      BY <1>3, <2>3 DEF Goto, Locals
    <3> QED BY <1>2, <1>3, <1>10, <2>1, <2>2, <3>1 DEF SeenIs, Announced
  <2>4. ASSUME NEW c, NEW place \in {"share", "lock"}, pdpState[c] \/ place = "lock",
               thread' = [thread EXCEPT ![Bip].pc = place, ![Bip].index = c] PROVE Goal
    <3>1. thread'[Bip].pc = place /\ thread'[Bip].index = c
      BY <1>3, <2>4 DEF Locals
    <3> QED BY <1>2, <1>3, <1>10, <2>1, <2>2, <2>4, <3>1 DEF SeenIs, Announced
  <2> QED BY <1>11, <2>3, <2>4 DEF BipLooks
<1>12. CASE BipWaits
  <2>1. busy(Bip) /\ \A t \in Threads \ {Bip} : thread'[t] = thread[t]
    BY <1>3, <1>12 DEF BipWaits, At, busy, Goto
  <2>2. UNCHANGED <<count, pdpState, lines>> /\ thread'[Bip].pc = "waiting"
    BY <1>3, <1>12 DEF BipWaits, openchannel, outside, Goto, Locals
  <2> QED BY <1>2, <1>3, <1>10, <2>1, <2>2 DEF SeenIs, Announced
<1>13. CASE BipShares
  <2>1. busy(Bip) /\ \A t \in Threads \ {Bip} : thread'[t] = thread[t]
    BY <1>3, <1>13 DEF BipShares, At, busy
  <2>2. /\ UNCHANGED <<count, pdpState, lines>> /\ thread[Bip].pc = "share"
        /\ thread'[Bip].index = thread[Bip].index /\ thread'[Bip].seen = count[thread[Bip].index]
    BY <1>3, <1>13 DEF BipShares, At, outside, Locals
  <2> QED BY <1>2, <1>3, <1>10, <2>1, <2>2 DEF SeenIs, Announced
<1>14. CASE BipShared
  <2>1. busy(Bip) /\ \A t \in Threads \ {Bip} : thread'[t] = thread[t]
    BY <1>3, <1>14 DEF BipShared, At, busy
  <2>2. /\ UNCHANGED <<pdpState, lines>> /\ thread[Bip].pc = "shared" /\ thread'[Bip].pc = "open"
        /\ count' = [count EXCEPT ![thread[Bip].index] = thread[Bip].seen + 1]
    BY <1>3, <1>14 DEF BipShared, At, outside, Locals
  <2>3. Announced'
    BY <1>2, <2>2 DEF Announced, TypeOK
  <2> QED BY <1>2, <1>3, <1>10, <2>1, <2>2, <2>3 DEF SeenIs
<1>15. CASE BipSetUp
  <2>1. PICK r : thread' = [thread EXCEPT ![Bip] = r] /\ r.pc \in {"rest", "open"}
    <3>1. Rest.pc = "rest" /\ \A c : [Rest EXCEPT !.pc = "open", !.index = c].pc = "open"
      BY DEF Rest
    <3> QED BY <1>15, <3>1 DEF BipSetUp
  <2>2. busy(Bip) /\ thread'[Bip].pc \in {"rest", "open"} /\ \A t \in Threads \ {Bip} : thread'[t] = thread[t]
    BY <1>3, <1>15, <2>1 DEF BipSetUp, At, busy
  <2>3. UNCHANGED <<count, pdpState, lines>>
    BY <1>15 DEF BipSetUp, outside
  <2> QED BY <1>2, <1>3, <1>10, <2>2, <2>3 DEF SeenIs, Announced
<1>16. ASSUME NEW c \in Cids, NetworkDrops(c) PROVE Goal
  BY <1>4, <1>16 DEF NetworkDrops, after
<1>17. ~ ReadCEND
  BY <1>2 DEF ReadCEND
<1>18. CASE UNCHANGED vars
  BY <1>2, <1>18 DEF vars, openchannel, outside, SeenIs, Announced
<1> QED BY <1>5, <1>7, <1>8, <1>9, <1>11, <1>12, <1>13, <1>14, <1>15, <1>16, <1>17, <1>18 DEF Next

-----------------------------------------------------------------------------
(* The table, while one thread is at it. *)

OwingPCs == {"leave", "store", "list"}

LEMMA NoCidIsNone == NoCid \notin Cids /\ Cids \subseteq Int
  BY CallsAssumption DEF NoCid

\* the thread t makes a step and no other is at the table
AtTable(t) ==
  /\ thread[t].pc \in AtTablePCs /\ thread'[t].pc \in EndPCs
  /\ \A u \in Threads \ {t} : thread[u].pc \in {"rest", "open"} /\ thread'[u] = thread[u]
  /\ channel' = channel

LEMMA UsersKept ==
  ASSUME TypeOK, NEW t \in Threads, AtTable(t)
  PROVE  /\ UNCHANGED client => \A c \in Cids : users(c)' = users(c)
         /\ t = Bip => \A c \in Cids : users(c) = client[c]
<1>1. CASE t = Bip
  <2>1. thread[Bip].pc # "open" /\ thread'[Bip].pc # "open"
    BY <1>1 DEF AtTable, AtTablePCs, EndPCs, SetupPCs, ReleasePCs
  <2> QED BY <2>1 DEF users, At, TypeOK
<1>2. CASE t # Bip
  <2>1. thread'[Bip] = thread[Bip]
    BY <1>2 DEF AtTable, Threads
  <2> QED BY <1>2, <2>1 DEF users, At
<1> QED BY <1>1, <1>2

LEMMA OwedAtTable ==
  ASSUME NEW t \in Threads, AtTable(t)
  PROVE  \A c : /\ Owed(c) = IF thread[t].pc \in OwingPCs /\ thread[t].index = c THEN 1 ELSE 0
                /\ Owed(c)' = IF thread'[t].pc \in OwingPCs /\ thread'[t].index = c THEN 1 ELSE 0
  BY DEF AtTable, Owed, OwingPCs

LEMMA CountedAtTable ==
  ASSUME NEW t \in Threads, AtTable(t), NEW c \in Cids
  PROVE  /\ Counted(c) <=> count[c] = users(c) + Owed(c)
         /\ thread'[t].pc # "result" => (Counted(c)' <=> count'[c] = users(c)' + Owed(c)')
<1>1. thread[Bip].pc # "result"
  BY DEF AtTable, AtTablePCs, SetupPCs, ReleasePCs, Threads
<1>2. thread'[t].pc # "result" => thread'[Bip].pc # "result"
  BY DEF AtTable, Threads
<1> QED BY <1>1, <1>2 DEF Counted, At

LEMMA CountedKept ==
  ASSUME TypeOK, NEW t \in Threads, AtTable(t), UNCHANGED <<count, client>>, \A c \in Cids : Counted(c),
         thread[t].pc \notin OwingPCs, thread'[t].pc \notin OwingPCs,
         thread'[t].pc = "result" => s_openchannelCid' = NoCid
  PROVE  \A c \in Cids : Counted(c)'
<1> SUFFICES ASSUME NEW c \in Cids PROVE Counted(c)'
  OBVIOUS
<1>1. users(c)' = users(c) /\ Owed(c) = 0 /\ Owed(c)' = 0
  BY UsersKept, OwedAtTable
<1>2. count'[c] = users(c)' + Owed(c)'
  BY <1>1, CountedAtTable
<1>3. c # NoCid
  BY NoCidIsNone
<1> QED BY <1>2, <1>3, CountedAtTable DEF Counted

LEMMA LinksKept ==
  ASSUME UNCHANGED <<secondary, count>>, \A c \in Cids : users(c)' = users(c), \A c \in Cids : Links(c),
         \A c \in Cids : cid[c] = "own" => cid'[c] = "own",
         \A c \in Cids : state'[c] = "IDLE" => secondary[c] = NoCid
  PROVE  \A c \in Cids : Links(c)'
  BY DEF Links

LEMMA LinksPut ==
  ASSUME TypeOK, NEW cs \in SUBSET Cids, putPDP(cs), \A c \in cs : secondary[c] \in cs \cup {NoCid},
         \A c \in cs : users(c) = 0, \A c \in Cids : users(c)' = users(c), \A c \in Cids : Links(c)
  PROVE  \A c \in Cids : Links(c)'
<1> SUFFICES ASSUME NEW c \in Cids PROVE Links(c)'
  OBVIOUS
<1>1. CASE c \in cs
  BY <1>1 DEF Links, putPDP
<1>2. CASE c \notin cs
  <2>1. c # NoCid /\ c \notin {secondary[x] : x \in cs}
    BY <1>2, NoCidIsNone
  <2>2. cid'[c] = cid[c] /\ secondary'[c] = secondary[c] /\ state'[c] = state[c] /\ count'[c] = count[c]
    BY <1>2, <2>1 DEF putPDP
  <2>3. ASSUME secondary[c] # NoCid
        PROVE  /\ secondary[c] \in Cids \ cs /\ secondary'[secondary[c]] = c
               /\ count'[secondary[c]] = count[secondary[c]]
    <3>1. secondary[c] \in Cids /\ secondary[secondary[c]] = c
      BY <2>3 DEF TypeOK, SomeCid, Links
    <3>2. secondary[c] \notin cs
      BY <1>2, <2>1, <3>1
    <3>3. secondary[c] \notin {secondary[x] : x \in cs}
      BY <2>3, <3>1, <3>2
    <3> QED BY <3>1, <3>2, <3>3 DEF putPDP
  <2> QED BY <2>2, <2>3 DEF Links
<1> QED BY <1>1, <1>2

LEMMA CountedPut ==
  ASSUME TypeOK, NEW t \in Threads, AtTable(t), NEW cs \in SUBSET Cids, putPDP(cs), UNCHANGED client,
         \A c \in cs : users(c) = 0, \A c \in Cids : Counted(c),
         thread[t].pc \in OwingPCs => thread[t].index \in cs, thread'[t].pc \notin OwingPCs,
         thread'[t].pc = "result" => s_openchannelCid' \in cs
  PROVE  \A c \in Cids : Counted(c)'
<1> SUFFICES ASSUME NEW c \in Cids PROVE Counted(c)'
  OBVIOUS
<1>1. users(c)' = users(c) /\ Owed(c)' = 0 /\ (c \notin cs => Owed(c) = 0)
  BY UsersKept, OwedAtTable
<1>2. CASE c \in cs
  <2>1. count'[c] = 0 /\ state'[c] = "IDLE" /\ users(c)' = 0
    BY <1>1, <1>2 DEF putPDP
  <2> QED BY <1>1, <2>1 DEF Counted
<1>3. CASE c \notin cs
  <2>1. count'[c] = users(c)' + Owed(c)'
    BY <1>1, <1>3, CountedAtTable DEF putPDP
  <2>2. ~ (At(Bip, "result")' /\ s_openchannelCid' = c)
    BY <1>3 DEF AtTable, Threads, At
  <2> QED BY <2>1, <2>2 DEF Counted, At
<1> QED BY <1>2, <1>3

EarlyPCs == {"look", "retry", "take", "reuse", "get", "activate", "put", "unusable", "fallback", "error", "tell"}

LEMMA CardKept ==
  ASSUME NEW t \in Threads, AtTable(t), CardHas,
         t = Bip /\ thread'[Bip].pc \in EarlyPCs => s_openchannelCid' = NoCid,
         thread'[t].pc = "result" =>
           (s_openchannelCid' # NoCid /\ state'[s_openchannelCid'] = "BUSY" => cid'[s_openchannelCid'] = "own")
  PROVE  CardHas'
<1>1. CASE t # Bip
  BY <1>1 DEF AtTable, CardHas, Threads
<1>2. CASE t = Bip
  BY <1>2 DEF AtTable, CardHas, EarlyPCs, AtTablePCs, EndPCs, SetupPCs, ReleasePCs
<1> QED BY <1>1, <1>2

TablesOf(t) ==
  /\ SetupHas(t) /\ CardHas
  /\ \A c \in Cids : Counted(c)
  /\ \A c \in Cids : Links(c)

LEMMA RetryTables ==
  ASSUME TypeOK, NEW t \in Threads, AtTable(t), TablesOf(t), Retry(t)
  PROVE  TablesOf(t)'
<1>1. thread[t] \in Locals /\ thread \in [Threads -> Locals] /\ thread[t].pc = "retry" /\ thread[t].index \in SomeCid
  BY Places DEF TypeOK, Retry, At
<1>2. UNCHANGED <<state, cid, secondary, count, pdpState, channel, s_openchannelCid, active, client>>
  BY DEF Retry, pdp, openchannel, outside
<1>3. (thread[t].index # NoCid => cid[thread[t].index] # "own") /\ (t = Bip => s_openchannelCid = NoCid)
  BY <1>1 DEF TablesOf, SetupHas, CardHas
<1>4. /\ thread'[t].pc \in {"get", "take", "done"}
      /\ thread'[t].pc = "get" => thread'[t].index = thread[t].index
      /\ thread'[t].pc = "take" => /\ thread'[t].index = thread[t].index
                                   /\ thread'[t].bearer \in Cids /\ state[thread'[t].bearer] = "IDLE"
      /\ thread'[t].pc = "done" => /\ thread'[t].index \in active
                                   /\ state[thread'[t].index] = "BUSY" /\ channel[thread'[t].index] # "CLOSE"
  <2>1. CASE Goto(t, "get")
    BY <1>1, <2>1 DEF Goto, Locals
  <2>2. ASSUME NEW c \in active, state[c] = "IDLE", thread' = [thread EXCEPT ![t].pc = "take", ![t].bearer = c]
        PROVE  thread'[t].pc = "take" /\ thread'[t].bearer = c /\ thread'[t].index = thread[t].index
    BY <1>1, <2>2 DEF Locals
  <2>3. ASSUME NEW c \in active, thread' = [thread EXCEPT ![t].pc = "done", ![t].index = c]
        PROVE  thread'[t].pc = "done" /\ thread'[t].index = c
    BY <1>1, <2>3 DEF Locals
  <2> QED BY <2>1, <2>2, <2>3 DEF Retry, TypeOK
<1>5. thread'[t].pc = "done" => LET c == thread'[t].index IN
        /\ c \in Cids /\ cid[c] = "own"
        /\ secondary[c] # NoCid => count[secondary[c]] = 0
  <2> SUFFICES ASSUME NEW c \in Cids, thread'[t].pc = "done", thread'[t].index = c
               PROVE  cid[c] = "own" /\ (secondary[c] # NoCid => count[secondary[c]] = 0)
    BY <1>4 DEF TypeOK
  <2>1. thread[Bip].pc \in {"shared", "open"} /\ thread[Bip].index = c
    BY <1>4 DEF TablesOf, CardHas
  <2>2. thread[Bip].pc = "open"
    BY <1>1, <2>1 DEF AtTable, Threads
  <2>3. users(c) > 0 /\ users(c) \in Nat
    BY <2>1, <2>2 DEF users, At, TypeOK
  <2>4. cid[c] = "own"
    BY <2>3 DEF TablesOf, Links
  <2>5. Owed(c) = 0
    BY <1>1, OwedAtTable DEF OwingPCs
  <2>6. count[c] > 0
    BY <2>3, <2>5, CountedAtTable DEF TablesOf, TypeOK
  <2> QED BY <2>4, <2>6 DEF TablesOf, Links
<1>6. SetupHas(t)'
  BY <1>1, <1>2, <1>3, <1>4, <1>5 DEF SetupHas, ReleasePCs, TablesOf, Links
<1>7. CardHas'
  BY <1>2, <1>3, <1>4, CardKept DEF TablesOf
<1>8. \A c \in Cids : Counted(c)'
  BY <1>1, <1>2, <1>4, CountedKept DEF TablesOf, OwingPCs
<1>9. \A c \in Cids : Links(c)'
  <2>1. \A c \in Cids : users(c)' = users(c)
    BY <1>2, UsersKept
  <2> QED BY <1>2, <2>1, LinksKept DEF TablesOf, Links
<1> QED BY <1>6, <1>7, <1>8, <1>9 DEF TablesOf

LEMMA TakeTables ==
  ASSUME TypeOK, NEW t \in Threads, AtTable(t), TablesOf(t), Take(t)
  PROVE  TablesOf(t)'
<1>1. /\ thread[t] \in Locals /\ thread \in [Threads -> Locals] /\ thread[t].pc = "take"
      /\ thread[t].bearer \in Cids
  BY Places DEF TypeOK, Take, At, Fits
<1>2. UNCHANGED <<cid, secondary, count, s_openchannelCid, client>>
  BY DEF Take, openchannel, globals, outside
<1>3. /\ thread'[t].pc = "reuse" /\ thread'[t].index = thread[t].index
      /\ thread'[t].bearer = thread[t].bearer
  BY <1>1 DEF Take, Goto, Locals
<1>4. /\ state' = [state EXCEPT ![thread[t].bearer] = "BUSY"] /\ state'[thread[t].bearer] = "BUSY"
  BY <1>1 DEF Take, TypeOK
<1>5. SetupHas(t)'
  BY <1>1, <1>2, <1>3, <1>4 DEF SetupHas, ReleasePCs, TablesOf
<1>6. CardHas'
  BY <1>1, <1>2, <1>3, CardKept DEF TablesOf, CardHas
<1>7. \A c \in Cids : Counted(c)'
  BY <1>1, <1>2, <1>3, CountedKept DEF TablesOf, OwingPCs
<1>8. \A c \in Cids : Links(c)'
  <2>1. \A c \in Cids : users(c)' = users(c)
    BY <1>2, UsersKept
  <2>2. \A c \in Cids : state'[c] = "IDLE" => secondary[c] = NoCid
    BY <1>4 DEF TypeOK, TablesOf, Links
  <2> QED BY <1>2, <2>1, <2>2, LinksKept DEF TablesOf
<1> QED BY <1>5, <1>6, <1>7, <1>8 DEF TablesOf

LEMMA ReuseTables ==
  ASSUME TypeOK, NEW t \in Threads, AtTable(t), TablesOf(t), Reuse(t)
  PROVE  TablesOf(t)'
<1>1. /\ thread[t] \in Locals /\ thread \in [Threads -> Locals] /\ thread[t].pc = "reuse"
      /\ thread[t].bearer \in Cids /\ thread[t].index \in SomeCid
  BY Places, ReuseAnswers DEF TypeOK, At, Fits
<1> DEFINE b == thread[t].bearer
           i == thread[t].index
<1>2. UNCHANGED <<secondary, count, client>>
  BY ReuseAnswers, Zenon DEF openchannel, outside
<1>3. /\ i # NoCid => cid[i] # "own"
      /\ t = Bip => s_openchannelCid = NoCid
      /\ secondary[b] = NoCid /\ state[b] = "BUSY"
  BY <1>1 DEF TablesOf, SetupHas, CardHas
<1>4. \A c \in Cids : users(c)' = users(c)
  BY <1>2, UsersKept
<1>5. ASSUME NEW next \in Locals, ReuseUp(t, next), next.pc \in {"done", "getSecond"}, next.index = b
      PROVE  TablesOf(t)'
  <2>1. /\ thread'[t] = next
        /\ cid' = [cid EXCEPT ![b] = "own"] /\ active' = active \cup {b} /\ UNCHANGED state
    BY <1>1, <1>5 DEF ReuseUp
  <2>2. SetupHas(t)'
    BY <1>1, <1>2, <1>3, <1>5, <2>1 DEF SetupHas, ReleasePCs, TypeOK
  <2>3. CardHas'
    BY <1>5, <2>1, CardKept DEF TablesOf, EarlyPCs
  <2>4. \A c \in Cids : Counted(c)'
    BY <1>1, <1>2, <1>5, <2>1, CountedKept DEF TablesOf, OwingPCs
  <2>5. /\ \A c \in Cids : cid[c] = "own" => cid'[c] = "own"
        /\ \A c \in Cids : state'[c] = "IDLE" => secondary[c] = NoCid
    BY <1>1, <2>1 DEF TypeOK, TablesOf, Links
  <2>6. \A c \in Cids : Links(c)'
    BY <1>2, <1>4, <2>5, LinksKept DEF TablesOf
  <2> QED BY <2>2, <2>3, <2>4, <2>6 DEF TablesOf
<1>6. ASSUME NEW next \in Locals, ReuseFails(t, next), next.pc \in {"get", "retry", "error"}, next.index = i
      PROVE  TablesOf(t)'
  <2>1. /\ thread'[t] = next
        /\ state' = [state EXCEPT ![b] = "IDLE"]
        /\ UNCHANGED s_openchannelCid
    BY <1>1, <1>6 DEF ReuseFails
  <2>2. \A c \in Cids : cid[c] = "own" <=> cid'[c] = "own"
    BY <1>1, <1>6 DEF ReuseFails, TypeOK
  <2>3. i # NoCid => i \in Cids
    BY <1>1 DEF SomeCid
  <2>4. SetupHas(t)'
    BY <1>3, <1>6, <2>1, <2>2, <2>3 DEF SetupHas, ReleasePCs
  <2>5. CardHas'
    BY <1>3, <1>6, <2>1, CardKept DEF TablesOf
  <2>6. \A c \in Cids : Counted(c)'
    BY <1>1, <1>2, <1>6, <2>1, CountedKept DEF TablesOf, OwingPCs
  <2>7. \A c \in Cids : state'[c] = "IDLE" => secondary[c] = NoCid
    BY <1>1, <1>3, <2>1 DEF TypeOK, TablesOf, Links
  <2>8. \A c \in Cids : Links(c)'
    BY <1>2, <1>4, <2>2, <2>7, LinksKept DEF TablesOf
  <2> QED BY <2>4, <2>5, <2>6, <2>8 DEF TablesOf
<1>7. /\ ReuseDone(t) \in Locals /\ \A l \in BOOLEAN : ReuseSecond(t, l) \in Locals
      /\ ReuseGet(t) \in Locals /\ ReuseError(t) \in Locals
  <2> USE DEF Locals, PCs, SetupPCs, SomeCid
  <2>1. ReuseDone(t) \in Locals
    BY <1>1 DEF ReuseDone
  <2>2. ASSUME NEW l \in BOOLEAN PROVE ReuseSecond(t, l) \in Locals
    BY <1>1 DEF ReuseSecond
  <2>3. ReuseGet(t) \in Locals
    BY <1>1 DEF ReuseGet
  <2>4. ReuseError(t) \in Locals
    BY <1>1 DEF ReuseError
  <2> QED BY <2>1, <2>2, <2>3, <2>4
<1>8. Again(t) \in Locals
  BY <1>1, AgainFits, Places DEF SetupPCs
<1>9. /\ ReuseDone(t).pc = "done" /\ ReuseDone(t).index = b
      /\ \A l \in BOOLEAN : ReuseSecond(t, l).pc = "getSecond" /\ ReuseSecond(t, l).index = b
      /\ ReuseGet(t).pc = "get" /\ ReuseGet(t).index = i
      /\ ReuseError(t).pc = "error" /\ ReuseError(t).index = i
      /\ Again(t).pc \in {"get", "retry"} /\ Again(t).index = i
  BY <1>1, ReuseGoes, AgainGoes
<1>10. CASE ReuseUp(t, ReuseDone(t))
  BY <1>5, <1>7, <1>9, <1>10
<1>11. ASSUME NEW l \in BOOLEAN, ReuseUp(t, ReuseSecond(t, l)) PROVE TablesOf(t)'
  BY <1>5, <1>7, <1>9, <1>11
<1>12. CASE ReuseFails(t, ReuseGet(t)) \/ ReuseFails(t, Again(t)) \/ ReuseFails(t, ReuseError(t))
  BY <1>6, <1>7, <1>8, <1>9, <1>12
<1> QED BY <1>10, <1>11, <1>12, ReuseAnswers, Zenon

LEMMA GetTables ==
  ASSUME TypeOK, NEW t \in Threads, AtTable(t), TablesOf(t), Get(t)
  PROVE  TablesOf(t)'
<1>1. thread[t] \in Locals /\ thread \in [Threads -> Locals] /\ thread[t].pc = "get"
  BY Places DEF TypeOK, Get, At
<1>2. UNCHANGED <<cid, secondary, count, s_openchannelCid, client>>
  BY DEF Get, openchannel, globals, outside
<1>3. free # {} => first \in Cids /\ cid[first] = "none"
  BY FirstIsFree DEF free
<1>4. IF free = {} THEN thread'[t].pc = "error" /\ thread'[t].index = NoCid /\ UNCHANGED state
      ELSE /\ thread'[t].pc = "activate" /\ thread'[t].index = first
           /\ state' = [state EXCEPT ![first] = "BUSY"] /\ state'[first] = "BUSY"
  BY <1>1, <1>3 DEF Get, Locals, TypeOK
<1>5. SetupHas(t)'
  BY <1>2, <1>3, <1>4 DEF SetupHas, ReleasePCs
<1>6. CardHas'
  BY <1>1, <1>2, <1>4, CardKept DEF TablesOf, CardHas
<1>7. \A c \in Cids : Counted(c)'
  BY <1>1, <1>2, <1>4, CountedKept DEF TablesOf, OwingPCs
<1>8. \A c \in Cids : Links(c)'
  <2>1. \A c \in Cids : users(c)' = users(c)
    BY <1>2, UsersKept
  <2>2. \A c \in Cids : state'[c] = "IDLE" => secondary[c] = NoCid
    BY <1>3, <1>4 DEF TypeOK, TablesOf, Links
  <2> QED BY <1>2, <2>1, <2>2, LinksKept DEF TablesOf
<1> QED BY <1>5, <1>6, <1>7, <1>8 DEF TablesOf

LEMMA ActivateTables ==
  ASSUME TypeOK, NEW t \in Threads, AtTable(t), TablesOf(t), Activate(t)
  PROVE  TablesOf(t)'
<1> DEFINE c == thread[t].index
<1>1. /\ thread[t] \in Locals /\ thread \in [Threads -> Locals] /\ thread[t].pc = "activate" /\ c \in Cids
  BY Places DEF TypeOK, Activate, At, Fits, WithIndex
<1>2. UNCHANGED <<state, secondary, count, s_openchannelCid, client>>
  BY DEF Activate, pdp, outside
<1>3. /\ cid[c] # "own" /\ state[c] = "BUSY" /\ secondary[c] = NoCid /\ c # NoCid
      /\ t = Bip => s_openchannelCid = NoCid
  BY <1>1, NoCidIsNone DEF TablesOf, SetupHas, CardHas, Links
<1>4. /\ thread'[t].index = c
      /\ \/ /\ thread'[t].pc \in {"done", "getSecond"}
            /\ cid' = [cid EXCEPT ![c] = "own"] /\ active' = active \cup {c}
         \/ /\ thread'[t].pc = "put" /\ UNCHANGED cid /\ active' = active \ {c}
  BY <1>1 DEF Activate, Goto, Locals, pdp
<1>5. SetupHas(t)'
  BY <1>1, <1>2, <1>3, <1>4 DEF SetupHas, ReleasePCs, TypeOK
<1>6. CardHas'
  BY <1>2, <1>3, <1>4, CardKept DEF TablesOf
<1>7. \A x \in Cids : Counted(x)'
  BY <1>1, <1>2, <1>4, CountedKept DEF TablesOf, OwingPCs
<1>8. \A x \in Cids : Links(x)'
  <2>1. \A x \in Cids : users(x)' = users(x)
    BY <1>2, UsersKept
  <2>2. \A x \in Cids : cid[x] = "own" => cid'[x] = "own"
    BY <1>1, <1>4 DEF TypeOK
  <2>3. \A x \in Cids : state'[x] = "IDLE" => secondary[x] = NoCid
    BY <1>2 DEF TablesOf, Links
  <2> QED BY <1>2, <2>1, <2>2, <2>3, LinksKept DEF TablesOf
<1> QED BY <1>5, <1>6, <1>7, <1>8 DEF TablesOf

\* a context without a cid of its own is put back
LEMMA PutUnused ==
  ASSUME TypeOK, NEW t \in Threads, AtTable(t), TablesOf(t), NEW c \in Cids, cid[c] # "own", putPDP({c}),
         UNCHANGED client, thread[t].pc \in OwingPCs => thread[t].index = c, thread'[t].pc \notin OwingPCs,
         thread'[t].pc = "result" => s_openchannelCid' = c
  PROVE  /\ \A x \in Cids : Counted(x)'
         /\ \A x \in Cids : Links(x)'
         /\ \A x \in Cids \ {c} : /\ secondary'[x] = secondary[x] /\ cid'[x] = cid[x]
                                  /\ state'[x] = state[x] /\ count'[x] = count[x]
         /\ cid'[c] = "none" /\ secondary'[c] = NoCid /\ state'[c] = "IDLE" /\ count'[c] = 0
         /\ users(c) = 0 /\ secondary[c] = NoCid
<1>1. users(c) = 0 /\ secondary[c] = NoCid
  BY DEF TablesOf, Links
<1>2. \A x \in Cids : users(x)' = users(x)
  BY UsersKept
<1>3. \A x \in Cids : Links(x)'
  <2>1. {c} \in SUBSET Cids /\ \A x \in {c} : secondary[x] \in {c} \cup {NoCid} /\ users(x) = 0
    BY <1>1
  <2> QED BY <1>2, <2>1, LinksPut DEF TablesOf
<1>4. \A x \in Cids : Counted(x)'
  <2>1. {c} \in SUBSET Cids /\ \A x \in {c} : users(x) = 0
    BY <1>1
  <2> QED BY <2>1, CountedPut DEF TablesOf
<1>5. c # NoCid /\ {secondary[x] : x \in {c}} = {NoCid} /\ NoCid \notin Cids
  BY <1>1, NoCidIsNone
<1>6. \A x \in Cids \ {c} : /\ secondary'[x] = secondary[x] /\ cid'[x] = cid[x]
                            /\ state'[x] = state[x] /\ count'[x] = count[x]
  BY <1>5 DEF putPDP
<1>7. cid'[c] = "none" /\ secondary'[c] = NoCid /\ state'[c] = "IDLE" /\ count'[c] = 0
  BY DEF putPDP
<1> QED BY <1>1, <1>3, <1>4, <1>6, <1>7

LEMMA PutBackTables ==
  ASSUME TypeOK, NEW t \in Threads, AtTable(t), TablesOf(t), PutBack(t)
  PROVE  TablesOf(t)'
<1> DEFINE c == thread[t].index
<1>1. /\ thread[t] \in Locals /\ thread \in [Threads -> Locals] /\ thread[t].pc = "put" /\ c \in Cids
  BY Places DEF TypeOK, PutBack, At, Fits, WithIndex
<1>2. UNCHANGED <<s_openchannelCid, active, client>> /\ putPDP({c})
  BY DEF PutBack, globals, outside
<1>3. /\ cid[c] # "own" /\ c \notin active
      /\ t = Bip => s_openchannelCid = NoCid
  BY <1>1, NoCidIsNone DEF TablesOf, SetupHas, CardHas
<1>4. /\ thread'[t].index = c
      /\ thread'[t].pc \in {"error", "unusable", "fallback", "retry", "get", "done"}
  <2>1. ASSUME NEW next, Goto(t, next) PROVE thread'[t].index = c /\ thread'[t].pc = next
    BY <1>1, <2>1 DEF Goto, Locals
  <2>2. Again(t).pc \in {"get", "retry"} /\ Again(t).index = c
    BY <1>1, AgainGoes
  <2>3. [thread[t] EXCEPT !.pc = "done"].pc = "done" /\ [thread[t] EXCEPT !.pc = "done"].index = c
    BY <1>1 DEF Locals
  <2>4. CASE \E next \in {"error", "unusable", "fallback"} : Goto(t, next)
    BY <2>1, <2>4
  <2>5. CASE thread' = [thread EXCEPT ![t] = IF @.tries < MaxRetries THEN Again(t) ELSE [@ EXCEPT !.pc = "done"]]
    BY <1>1, <2>2, <2>3, <2>5
  <2> QED BY <2>4, <2>5 DEF PutBack
<1>5. /\ \A x \in Cids : Counted(x)'
      /\ \A x \in Cids : Links(x)'
      /\ cid'[c] = "none" /\ secondary'[c] = NoCid
  BY <1>1, <1>2, <1>3, <1>4, PutUnused DEF OwingPCs
<1>6. SetupHas(t)'
  BY <1>1, <1>2, <1>3, <1>4, <1>5 DEF SetupHas, ReleasePCs
<1>7. CardHas'
  BY <1>2, <1>3, <1>4, CardKept DEF TablesOf
<1> QED BY <1>5, <1>6, <1>7 DEF TablesOf

LEMMA UnusableTables ==
  ASSUME TypeOK, NEW t \in Threads, AtTable(t), TablesOf(t), Unusable(t)
  PROVE  TablesOf(t)'
<1> DEFINE c == thread[t].index
<1>1. /\ thread[t] \in Locals /\ thread \in [Threads -> Locals] /\ thread[t].pc = "unusable" /\ c \in Cids
  BY Places DEF TypeOK, Unusable, At, Fits, WithIndex
<1>2. UNCHANGED <<state, secondary, count, s_openchannelCid, client>>
  BY DEF Unusable, openchannel, globals, outside
<1>3. \A x \in Cids : cid[x] = "own" <=> cid'[x] = "own"
  BY <1>1 DEF Unusable, TypeOK
<1>4. thread'[t].pc = "retry" /\ thread'[t].index = c
  BY <1>1 DEF Unusable, Goto, Locals
<1>5. SetupHas(t)'
  BY <1>1, <1>3, <1>4 DEF SetupHas, ReleasePCs, TablesOf
<1>6. CardHas'
  BY <1>1, <1>2, <1>4, CardKept DEF TablesOf, CardHas
<1>7. \A x \in Cids : Counted(x)'
  BY <1>1, <1>2, <1>4, CountedKept DEF TablesOf, OwingPCs
<1>8. \A x \in Cids : Links(x)'
  <2>1. \A x \in Cids : users(x)' = users(x)
    BY <1>2, UsersKept
  <2> QED BY <1>2, <1>3, <2>1, LinksKept DEF TablesOf, Links
<1> QED BY <1>5, <1>6, <1>7, <1>8 DEF TablesOf

LEMMA FallbackTables ==
  ASSUME TypeOK, NEW t \in Threads, AtTable(t), TablesOf(t), Fallback(t)
  PROVE  TablesOf(t)'
<1> DEFINE c == thread[t].index
<1>1. /\ thread[t] \in Locals /\ thread \in [Threads -> Locals] /\ thread[t].pc = "fallback" /\ c \in Cids
  BY Places DEF TypeOK, Fallback, At, Fits, WithIndex
<1>2. UNCHANGED <<state, secondary, count, s_openchannelCid, client>>
  BY DEF Fallback, openchannel, globals, outside
<1>3. /\ cid[c] # "own" /\ secondary[c] = NoCid
      /\ t = Bip => s_openchannelCid = NoCid
  BY <1>1, NoCidIsNone DEF TablesOf, SetupHas, CardHas, Links
<1>4. /\ thread'[t].index = c
      /\ \/ /\ thread'[t].pc = "getSecond" /\ ~ thread'[t].linked
            /\ cid' = [cid EXCEPT ![c] = "own"] /\ active' = active \cup {c}
         \/ thread'[t].pc = "error" /\ UNCHANGED cid
  BY <1>1 DEF Fallback, Goto, Locals
<1>5. SetupHas(t)'
  BY <1>1, <1>2, <1>3, <1>4 DEF SetupHas, ReleasePCs, TypeOK
<1>6. CardHas'
  BY <1>2, <1>3, <1>4, CardKept DEF TablesOf
<1>7. \A x \in Cids : Counted(x)'
  BY <1>1, <1>2, <1>4, CountedKept DEF TablesOf, OwingPCs
<1>8. \A x \in Cids : Links(x)'
  <2>1. \A x \in Cids : users(x)' = users(x)
    BY <1>2, UsersKept
  <2>2. \A x \in Cids : cid[x] = "own" => cid'[x] = "own"
    BY <1>1, <1>4 DEF TypeOK
  <2>3. \A x \in Cids : state'[x] = "IDLE" => secondary[x] = NoCid
    BY <1>2 DEF TablesOf, Links
  <2> QED BY <1>2, <2>1, <2>2, <2>3, LinksKept DEF TablesOf
<1> QED BY <1>5, <1>6, <1>7, <1>8 DEF TablesOf

LEMMA GetSecondTables ==
  ASSUME TypeOK, NEW t \in Threads, AtTable(t), TablesOf(t), GetSecond(t)
  PROVE  TablesOf(t)'
<1> DEFINE c == thread[t].index
<1>1. /\ thread[t] \in Locals /\ thread \in [Threads -> Locals] /\ thread[t].pc = "getSecond" /\ c \in Cids
  BY Places DEF TypeOK, GetSecond, At, Fits, WithIndex
<1>2. UNCHANGED <<cid, secondary, count, s_openchannelCid, active, client>>
  BY DEF GetSecond, openchannel, globals, outside
<1>3. /\ cid[c] = "own" /\ secondary[c] = NoCid /\ c \in active
      /\ thread[t].linked => state[c] = "BUSY"
  BY <1>1 DEF TablesOf, SetupHas
<1>4. free # {} => first \in Cids /\ cid[first] = "none"
  BY FirstIsFree DEF free
<1>5. /\ thread'[t].index = c
      /\ IF free = {} THEN thread'[t].pc = "done" /\ UNCHANGED state
         ELSE /\ thread'[t].pc = "second" /\ thread'[t].second = first /\ thread'[t].linked = thread[t].linked
              /\ state' = [state EXCEPT ![first] = "BUSY"]
  BY <1>1 DEF GetSecond, Locals
<1>6. /\ free # {} => state'[first] = "BUSY"
      /\ \A x \in Cids : state[x] = "BUSY" => state'[x] = "BUSY"
      /\ \A x \in Cids : state'[x] = "IDLE" => state[x] = "IDLE"
  BY <1>4, <1>5 DEF TypeOK
<1>7. SetupHas(t)'
  BY <1>1, <1>2, <1>3, <1>4, <1>5, <1>6 DEF SetupHas, ReleasePCs
<1>8. CardHas'
  BY <1>5, CardKept DEF TablesOf, EarlyPCs
<1>9. \A x \in Cids : Counted(x)'
  BY <1>1, <1>2, <1>5, CountedKept DEF TablesOf, OwingPCs
<1>10. \A x \in Cids : Links(x)'
  <2>1. \A x \in Cids : users(x)' = users(x)
    BY <1>2, UsersKept
  <2> QED BY <1>2, <1>6, <2>1, LinksKept DEF TablesOf, Links
<1> QED BY <1>7, <1>8, <1>9, <1>10 DEF TablesOf

LEMMA SecondTables ==
  ASSUME TypeOK, NEW t \in Threads, AtTable(t), TablesOf(t), Second(t)
  PROVE  TablesOf(t)'
<1> DEFINE c == thread[t].index
           d == thread[t].second
<1>1. /\ thread[t] \in Locals /\ thread \in [Threads -> Locals] /\ thread[t].pc = "second"
      /\ c \in Cids /\ d \in Cids
  BY Places DEF TypeOK, Second, At, Fits, WithIndex
<1>2. UNCHANGED <<s_openchannelCid, client>>
  BY DEF Second, outside
<1>3. /\ cid[c] = "own" /\ secondary[c] = NoCid /\ c \in active /\ c # d /\ cid[d] # "own" /\ state[d] = "BUSY"
      /\ thread[t].linked => state[c] = "BUSY"
  BY <1>1 DEF TablesOf, SetupHas
<1>4. thread'[t].index = c /\ thread'[t].pc = "done"
  BY <1>1 DEF Second, Locals
<1>5. CardHas'
  BY <1>4, CardKept DEF TablesOf, EarlyPCs
<1>6. \A x \in Cids : users(x)' = users(x)
  BY <1>2, UsersKept
<1>7. CASE putPDP({d}) /\ active' = active \ {d}
  <2>1. /\ \A x \in Cids : Counted(x)'
        /\ \A x \in Cids : Links(x)'
        /\ cid'[c] = "own" /\ secondary'[c] = NoCid
    <3>1. thread[t].pc \notin OwingPCs /\ thread'[t].pc \notin OwingPCs /\ thread'[t].pc # "result"
      BY <1>1, <1>4 DEF OwingPCs
    <3>2. /\ \A x \in Cids : Counted(x)'
          /\ \A x \in Cids : Links(x)'
          /\ \A x \in Cids \ {d} : cid'[x] = cid[x] /\ secondary'[x] = secondary[x]
      BY <1>1, <1>2, <1>3, <1>7, <3>1, PutUnused
    <3> QED BY <1>1, <1>3, <3>2
  <2>2. SetupHas(t)'
    BY <1>3, <1>4, <1>7, <2>1 DEF SetupHas, ReleasePCs
  <2> QED BY <1>5, <2>1, <2>2 DEF TablesOf
<1>8. users(d) = 0 /\ secondary[d] = NoCid /\ count[d] = 0
  <2>1. users(d) = 0 /\ secondary[d] = NoCid
    BY <1>1, <1>3 DEF TablesOf, Links
  <2>2. Owed(d) = 0
    BY <1>1, OwedAtTable DEF OwingPCs
  <2> QED BY <1>1, <2>1, <2>2, CountedAtTable DEF TablesOf
<1>9. CASE /\ active' = active \cup {d} /\ UNCHANGED <<state, count, secondary>>
           /\ cid' = [cid EXCEPT ![d] = "own"]
  <2>1. cid'[c] = "own" /\ secondary'[c] = NoCid /\ \A x \in Cids : cid[x] = "own" => cid'[x] = "own"
    BY <1>1, <1>3, <1>9 DEF TypeOK
  <2>2. SetupHas(t)'
    BY <1>3, <1>4, <1>9, <2>1 DEF SetupHas, ReleasePCs
  <2>3. \A x \in Cids : Counted(x)'
    BY <1>1, <1>2, <1>4, <1>9, CountedKept DEF TablesOf, OwingPCs
  <2>4. \A x \in Cids : Links(x)'
    BY <1>6, <1>9, <2>1, LinksKept DEF TablesOf, Links
  <2> QED BY <1>5, <2>2, <2>3, <2>4 DEF TablesOf
<1>10. CASE /\ active' = active \cup {d} /\ UNCHANGED <<state, count>> /\ thread[t].linked
            /\ cid' = [cid EXCEPT ![c] = "own", ![d] = "own"]
            /\ secondary' = [secondary EXCEPT ![c] = d, ![d] = c]
  <2>1. /\ cid'[c] = "own" /\ cid'[d] = "own" /\ secondary'[c] = d /\ secondary'[d] = c
        /\ \A x \in Cids : cid[x] = "own" => cid'[x] = "own"
        /\ \A x \in Cids \ {c, d} : secondary'[x] = secondary[x]
    BY <1>1, <1>3, <1>10 DEF TypeOK
  <2>2. SetupHas(t)'
    <3>1. c \in active' /\ cid'[c] = "own" /\ count'[secondary'[c]] = 0
      BY <1>3, <1>8, <1>10, <2>1
    <3> QED BY <1>4, <3>1 DEF SetupHas, ReleasePCs
  <2>3. \A x \in Cids : Counted(x)'
    BY <1>1, <1>2, <1>4, <1>10, CountedKept DEF TablesOf, OwingPCs
  <2>4. ASSUME NEW x \in Cids PROVE Links(x)'
    <3>1. CASE x = c
      <4>1. state'[c] = "BUSY" /\ count'[d] = 0
        BY <1>3, <1>8, <1>10
      <4> QED BY <1>3, <2>1, <3>1, <4>1 DEF Links
    <3>3. CASE x = d
      <4>1. state'[d] = "BUSY" /\ count'[d] = 0
        BY <1>3, <1>8, <1>10
      <4> QED BY <1>3, <2>1, <3>3, <4>1 DEF Links
    <3>2. CASE x \notin {c, d}
      <4>1. Links(x) /\ Links(c) /\ Links(d)
        BY <1>1 DEF TablesOf
      <4>2. x # NoCid
        BY NoCidIsNone
      <4>3. secondary[x] \notin {c, d}
        BY <1>3, <1>8, <4>1, <4>2, <1>1, NoCidIsNone DEF Links
      <4>4. secondary[x] # NoCid => secondary[x] \in Cids \ {c, d}
        BY <4>3 DEF TypeOK, SomeCid
      <4> QED BY <1>6, <1>10, <2>1, <3>2, <4>1, <4>3, <4>4 DEF Links
    <3> QED BY <3>1, <3>2, <3>3
  <2> QED BY <1>5, <2>2, <2>3, <2>4 DEF TablesOf
<1> QED BY <1>7, <1>9, <1>10 DEF Second

LEMMA ErrorTables ==
  ASSUME TypeOK, NEW t \in Threads, AtTable(t), TablesOf(t), Error(t)
  PROVE  TablesOf(t)'
<1> DEFINE c == thread[t].index
<1>1. /\ thread[t] \in Locals /\ thread \in [Threads -> Locals] /\ thread[t].pc = "error" /\ c \in SomeCid
  BY Places DEF TypeOK, Error, At
<1>2. UNCHANGED <<s_openchannelCid, active, client>>
  BY DEF Error, globals, outside
<1>3. thread'[t].pc = "tell"
  BY <1>1 DEF Error, Goto, Locals
<1>4. SetupHas(t)'
  BY <1>3 DEF SetupHas, ReleasePCs
<1>5. CardHas'
  BY <1>1, <1>2, <1>3, CardKept DEF TablesOf, CardHas
<1>6. CASE c = NoCid
  <2>1. UNCHANGED <<state, cid, secondary, count>>
    BY <1>6 DEF Error, pdp
  <2>2. \A x \in Cids : Counted(x)'
    BY <1>1, <1>2, <1>3, <2>1, CountedKept DEF TablesOf, OwingPCs
  <2>3. \A x \in Cids : users(x)' = users(x)
    BY <1>2, UsersKept
  <2>4. \A x \in Cids : Links(x)'
    BY <2>1, <2>3, LinksKept DEF TablesOf, Links
  <2> QED BY <1>4, <1>5, <2>2, <2>4 DEF TablesOf
<1>7. CASE c # NoCid
  <2>1. c \in Cids /\ cid[c] # "own" /\ secondary[c] = NoCid
    BY <1>1, <1>7 DEF TablesOf, SetupHas, SomeCid, Links
  <2>2. {c, secondary[c]} \ {NoCid} = {c}
    BY <1>7, <2>1
  <2>3. putPDP({c})
    BY <1>7, <2>2 DEF Error
  <2>4. (\A x \in Cids : Counted(x)') /\ \A x \in Cids : Links(x)'
    BY <1>1, <1>2, <1>3, <2>1, <2>3, PutUnused DEF OwingPCs
  <2> QED BY <1>4, <1>5, <2>4 DEF TablesOf
<1> QED BY <1>6, <1>7

LEMMA TellTables ==
  ASSUME TypeOK, NEW t \in Threads, AtTable(t), TablesOf(t), Tell(t)
  PROVE  TablesOf(t)'
<1>1. /\ thread[t] \in Locals /\ thread[t].pc = "tell" /\ t \in {Setup, Bip}
  BY Places DEF Tell, At, SetupPCs
<1>2. UNCHANGED <<state, secondary, count, s_openchannelCid, client>>
  BY DEF Tell, globals, outside
<1>3. thread'[t] = Returned(t)
  BY DEF Tell, SignalAndGo
<1>4. IF t = Bip THEN thread'[t].pc = "result" ELSE thread'[t].pc = "rest"
  BY <1>1, <1>3, Returns DEF Rest
<1>5. \A x \in Cids : cid[x] = "own" => cid'[x] = "own"
  BY DEF Tell, usable
<1>6. t = Bip => s_openchannelCid = NoCid
  BY <1>1 DEF TablesOf, CardHas
<1>7. SetupHas(t)'
  BY <1>4 DEF SetupHas, ReleasePCs
<1>8. CardHas'
  BY <1>2, <1>4, <1>6, CardKept DEF TablesOf, EarlyPCs
<1>9. \A x \in Cids : Counted(x)'
  BY <1>1, <1>2, <1>4, <1>6, CountedKept DEF TablesOf, OwingPCs
<1>10. \A x \in Cids : Links(x)'
  <2>1. \A x \in Cids : users(x)' = users(x)
    BY <1>2, UsersKept
  <2> QED BY <1>2, <1>5, <2>1, LinksKept DEF TablesOf, Links
<1> QED BY <1>7, <1>8, <1>9, <1>10 DEF TablesOf

LEMMA DoneTables ==
  ASSUME TypeOK, NEW t \in Threads, AtTable(t), TablesOf(t), Done(t)
  PROVE  TablesOf(t)'
<1> DEFINE c == thread[t].index
<1>1. /\ thread[t] \in Locals /\ thread[t].pc = "done" /\ c \in Cids
  BY Places DEF Done, At, Fits, WithIndex
<1>2. UNCHANGED <<state, secondary, active, client>> /\ s_openchannelCid' = c
  BY DEF Done, outside
<1>3. thread'[t].pc = "list" /\ thread'[t].index = c
  BY <1>1 DEF Done, SignalAndGo, Locals
<1>4. \A x \in Cids : cid[x] = "own" <=> cid'[x] = "own"
  BY DEF Done, usable
<1>5. /\ c \in active <=> cid[c] = "own"
      /\ secondary[c] # NoCid => count[secondary[c]] = 0
  BY <1>1 DEF TablesOf, SetupHas
<1>6. count'[c] = count[c] + 1 /\ \A x \in Cids \ {c} : count'[x] = count[x]
  BY <1>1 DEF Done, TypeOK
<1>7. SetupHas(t)'
  BY <1>1, <1>2, <1>3, <1>4, <1>5 DEF SetupHas, ReleasePCs
<1>8. CardHas'
  BY <1>3, CardKept DEF TablesOf, EarlyPCs
<1>9. \A x \in Cids : users(x)' = users(x)
  BY <1>2, UsersKept
<1>10. ASSUME NEW x \in Cids PROVE Counted(x)'
  <2>1. Owed(x) = 0 /\ Owed(x)' = (IF x = c THEN 1 ELSE 0)
    BY <1>1, <1>3, OwedAtTable DEF OwingPCs
  <2>2. count[x] = users(x)
    BY <2>1, CountedAtTable DEF TablesOf, users, TypeOK
  <2>3. count'[x] = users(x)' + Owed(x)'
    BY <1>6, <1>9, <2>1, <2>2 DEF TypeOK
  <2> QED BY <1>3, <2>3, CountedAtTable
<1>11. ASSUME NEW x \in Cids PROVE Links(x)'
  <2>1. Links(x) /\ Links(c)
    BY <1>1 DEF TablesOf
  <2>2. users(x)' = users(x)
    BY <1>9
  <2>3. secondary[x] # NoCid => secondary[x] \in Cids
    BY DEF TypeOK, SomeCid
  <2>4. ASSUME secondary[x] # NoCid PROVE count'[x] = 0 \/ count'[secondary[x]] = 0
    <3>1. /\ secondary[x] \in Cids /\ secondary[x] # x /\ secondary[secondary[x]] = x
          /\ count[x] = 0 \/ count[secondary[x]] = 0
      BY <2>1, <2>3, <2>4 DEF Links
    <3>2. CASE x = c
      BY <1>5, <1>6, <2>4, <3>1, <3>2
    <3>3. CASE secondary[x] = c
      <4>1. secondary[c] = x /\ x # c /\ x # NoCid
        BY <3>1, <3>3, NoCidIsNone
      <4> QED BY <1>5, <1>6, <4>1
    <3>4. CASE x # c /\ secondary[x] # c
      BY <1>6, <3>1, <3>4
    <3> QED BY <3>2, <3>3, <3>4
  <2> QED BY <1>2, <1>4, <2>1, <2>2, <2>4 DEF Links
<1> QED BY <1>7, <1>8, <1>10, <1>11 DEF TablesOf

LEMMA ListTables ==
  ASSUME TypeOK, NEW t \in Threads, AtTable(t), TablesOf(t), List(t), Unless({"overlap", "unread"})'
  PROVE  TablesOf(t)'
<1> DEFINE c == thread[t].index
<1>1. /\ thread[t] \in Locals /\ thread \in [Threads -> Locals] /\ thread[t].pc = "list"
      /\ t \in {Setup, Bip} /\ c \in Cids /\ c # NoCid
  BY Places, NoCidIsNone DEF TypeOK, List, At, Fits, WithIndex, SetupPCs
<1>2. UNCHANGED s_openchannelCid /\ s_openchannelCid = c
  BY <1>1 DEF List, TablesOf, SetupHas
<1>3. IF c \in active
      THEN /\ client' = IF t = Setup THEN [client EXCEPT ![c] = @ + 1] ELSE client
           /\ UNCHANGED <<state, cid, secondary, count>>
      ELSE putPDP({c, secondary[c]} \ {NoCid}) /\ UNCHANGED client
  <2>1. happened' # after("unread")
    BY DEF Unless, after
  <2> QED BY <2>1 DEF List, pdp
<1>4. thread'[t] = Returned(t)
  BY <1>1 DEF List
<1>5. IF t = Bip THEN thread'[t].pc = "result" ELSE thread'[t].pc = "rest"
  BY <1>1, <1>4, Returns DEF Rest
<1>6. SetupHas(t)'
  BY <1>5 DEF SetupHas, ReleasePCs
<1>7. c \in active <=> cid[c] = "own"
  BY <1>1 DEF TablesOf, SetupHas
<1>8. CASE c \notin active
  <2>1. secondary[c] = NoCid
    BY <1>1, <1>7, <1>8 DEF TablesOf, Links
  <2>2. {c, secondary[c]} \ {NoCid} = {c}
    BY <1>1, <2>1
  <2>3. putPDP({c}) /\ UNCHANGED client
    BY <1>3, <1>8, <2>2
  <2>4. /\ \A x \in Cids : Counted(x)'
        /\ \A x \in Cids : Links(x)'
        /\ state'[c] = "IDLE"
    BY <1>1, <1>2, <1>5, <1>7, <1>8, <2>3, PutUnused DEF OwingPCs
  <2>5. CardHas'
    BY <1>2, <1>5, <2>4, CardKept DEF TablesOf, EarlyPCs
  <2> QED BY <1>6, <2>4, <2>5 DEF TablesOf
<1>9. CASE c \in active
  <2>1. UNCHANGED <<state, cid, secondary, count>> /\ cid[c] = "own"
    BY <1>3, <1>7, <1>9
  <2>2. CardHas'
    BY <1>2, <1>5, <2>1, CardKept DEF TablesOf, EarlyPCs
  <2>3. client' = IF t = Setup THEN [client EXCEPT ![c] = @ + 1] ELSE client
    BY <1>3, <1>9
  <2>4. ASSUME NEW x \in Cids
        PROVE users(x)' = IF t = Setup /\ x = c THEN users(x) + 1 ELSE users(x)
    <3>1. CASE t = Setup
      <4>1. thread'[Bip] = thread[Bip]
        BY <3>1 DEF AtTable, Threads, Setup, Bip
      <4>2. client'[x] = IF x = c THEN client[x] + 1 ELSE client[x]
        BY <1>1, <2>3, <3>1 DEF TypeOK
      <4> QED BY <3>1, <4>1, <4>2 DEF users, At, TypeOK
    <3>2. CASE t # Setup
      BY <2>3, <3>2, UsersKept
    <3> QED BY <3>1, <3>2
  <2>5. ASSUME NEW x \in Cids PROVE Counted(x)'
    <3>1. Owed(x) = (IF x = c THEN 1 ELSE 0) /\ Owed(x)' = 0
      BY <1>1, <1>5, OwedAtTable DEF OwingPCs
    <3>2. count[x] = users(x) + Owed(x)
      BY CountedAtTable DEF TablesOf
    <3>3. CASE t = Setup
      <4>1. count'[x] = users(x)' + Owed(x)'
        BY <2>1, <2>4, <3>1, <3>2, <3>3 DEF users, TypeOK
      <4> QED BY <1>5, <3>3, <4>1, CountedAtTable DEF Setup, Bip
    <3>4. CASE t = Bip
      <4>1. At(Bip, "result")'
        BY <1>5, <3>4 DEF At
      <4>2. users(x)' = users(x) /\ count'[x] = count[x] /\ s_openchannelCid' = c
        BY <1>2, <2>1, <2>4, <3>4 DEF Setup, Bip
      <4>3. x # c => Owed(x)' = 0 /\ count'[x] = users(x)' + Owed(x)'
        BY <3>1, <3>2, <4>2 DEF users, TypeOK
      <4>4. x = c => count'[x] = users(x)' + 1
        BY <3>1, <3>2, <4>2
      <4> QED BY <4>1, <4>2, <4>3, <4>4 DEF Counted, At
    <3> QED BY <1>1, <3>3, <3>4
  <2>6. ASSUME NEW x \in Cids PROVE Links(x)'
    <3>1. Links(x)
      BY DEF TablesOf
    <3> QED BY <2>1, <2>4, <3>1 DEF Links
  <2> QED BY <1>6, <2>2, <2>5, <2>6 DEF TablesOf
<1> QED BY <1>8, <1>9

LEMMA LeaveTables ==
  ASSUME TypeOK, NEW t \in Threads, AtTable(t), TablesOf(t), Leave(t)
  PROVE  TablesOf(t)'
<1> DEFINE c == thread[t].index
<1>1. /\ thread[t] \in Locals /\ thread \in [Threads -> Locals] /\ thread[t].pc = "leave" /\ c \in Cids
  BY Places DEF TypeOK, Leave, At, Fits, WithIndex, ReleasePCs
<1>2. UNCHANGED <<state, cid, secondary, count, s_openchannelCid, client>>
  BY DEF Leave, pdp, openchannel, globals, outside
<1>3. thread'[t].pc = "store" /\ thread'[t].index = c
  BY <1>1 DEF Leave, Locals
<1>4. SetupHas(t)'
  BY <1>1, <1>2, <1>3 DEF SetupHas, ReleasePCs, TablesOf
<1>5. CardHas'
  BY <1>3, CardKept DEF TablesOf, EarlyPCs
<1>6. \A x \in Cids : users(x)' = users(x)
  BY <1>2, UsersKept
<1>7. ASSUME NEW x \in Cids PROVE Counted(x)'
  <2>1. Owed(x)' = Owed(x)
    BY <1>1, <1>3, OwedAtTable DEF OwingPCs
  <2>2. count[x] = users(x) + Owed(x)
    BY CountedAtTable DEF TablesOf
  <2> QED BY <1>2, <1>3, <1>6, <2>1, <2>2, CountedAtTable
<1>8. \A x \in Cids : Links(x)'
  BY <1>2, <1>6, LinksKept DEF TablesOf, Links
<1> QED BY <1>4, <1>5, <1>7, <1>8 DEF TablesOf

LEMMA LeaveStoreTables ==
  ASSUME TypeOK, NEW t \in Threads, AtTable(t), TablesOf(t), LeaveStore(t), SeenIs(t)
  PROVE  TablesOf(t)'
<1> DEFINE c == thread[t].index
<1>1. /\ thread[t] \in Locals /\ thread \in [Threads -> Locals] /\ thread[t].pc = "store" /\ c \in Cids
      /\ thread[t].seen = count[c]
  BY Places DEF TypeOK, LeaveStore, At, Fits, WithIndex, ReleasePCs, SeenIs
<1>2. UNCHANGED <<state, cid, secondary, s_openchannelCid, client>>
  BY DEF LeaveStore, pdp, globals, outside
<1>3. thread'[t].pc = "last" /\ thread'[t].index = c
  BY <1>1 DEF LeaveStore, Locals
<1>4. \A x \in Cids : users(x)' = users(x) /\ users(x) \in Nat
  BY <1>2, UsersKept DEF users, TypeOK
<1>5. /\ count[c] = users(c) + 1
      /\ \A x \in Cids \ {c} : count[x] = users(x)
  <2>1. \A x \in Cids : Owed(x) = (IF x = c THEN 1 ELSE 0) /\ count[x] = users(x) + Owed(x)
    BY <1>1, OwedAtTable, CountedAtTable DEF OwingPCs, TablesOf
  <2> QED BY <1>1, <1>4, <2>1
<1>6. /\ count'[c] = users(c)
      /\ \A x \in Cids \ {c} : count'[x] = count[x]
  BY <1>1, <1>4, <1>5 DEF LeaveStore, TypeOK
<1>7. secondary[c] # NoCid => secondary[c] \in Cids \ {c} /\ count[secondary[c]] = 0
  <2>1. secondary[c] \in SomeCid /\ (secondary[c] # NoCid => secondary[c] # c)
    BY <1>1 DEF TablesOf, Links, TypeOK
  <2>2. secondary[c] # NoCid => count[secondary[c]] = 0
    BY <1>1 DEF TablesOf, SetupHas, ReleasePCs
  <2> QED BY <2>1, <2>2 DEF SomeCid
<1>8. SetupHas(t)'
  <2>1. secondary'[c] # NoCid => count'[secondary'[c]] = 0
    BY <1>2, <1>6, <1>7
  <2> QED BY <1>3, <2>1 DEF SetupHas, ReleasePCs
<1>9. CardHas'
  BY <1>3, CardKept DEF TablesOf, EarlyPCs
<1>10. ASSUME NEW x \in Cids PROVE Counted(x)'
  <2>1. Owed(x)' = 0
    BY <1>3, OwedAtTable DEF OwingPCs
  <2>2. count'[x] = users(x)' + Owed(x)'
    BY <1>4, <1>5, <1>6, <2>1
  <2> QED BY <1>3, <2>2, CountedAtTable
<1>11. ASSUME NEW x \in Cids PROVE Links(x)'
  <2>1. \A y \in Cids : count[y] = 0 => count'[y] = 0
    BY <1>4, <1>5, <1>6
  <2>2. secondary[x] # NoCid => secondary[x] \in Cids
    BY DEF TypeOK, SomeCid
  <2>3. Links(x)
    BY DEF TablesOf
  <2> QED BY <1>2, <1>4, <2>1, <2>2, <2>3 DEF Links
<1> QED BY <1>8, <1>9, <1>10, <1>11 DEF TablesOf

LEMMA LastTables ==
  ASSUME TypeOK, NEW t \in Threads, AtTable(t), TablesOf(t), Last(t)
  PROVE  TablesOf(t)'
<1> DEFINE c == thread[t].index
<1>1. /\ thread[t] \in Locals /\ thread \in [Threads -> Locals] /\ thread[t].pc = "last" /\ c \in Cids
  BY Places DEF TypeOK, Last, At, Fits, WithIndex, ReleasePCs
<1>2. UNCHANGED <<state, cid, secondary, count, s_openchannelCid, client>>
  BY DEF Last, pdp, openchannel, globals, outside
<1>3. \/ thread'[t].pc = "rest"
      \/ /\ thread'[t].pc = "deactivate" /\ thread'[t].index = c /\ thread'[t].second = secondary[c]
         /\ count[c] = 0
  <2>1. CASE state[c] = "IDLE" \/ count[c] # 0
    BY <1>1, <2>1 DEF Last, Rest
  <2>2. CASE ~ (state[c] = "IDLE" \/ count[c] # 0)
    BY <1>1, <2>2 DEF Last, Locals
  <2> QED BY <2>1, <2>2
<1>4. secondary[c] # NoCid => count[secondary[c]] = 0
  BY <1>1 DEF TablesOf, SetupHas, ReleasePCs
<1>5. SetupHas(t)'
  BY <1>2, <1>3, <1>4 DEF SetupHas, ReleasePCs
<1>6. CardHas'
  BY <1>3, CardKept DEF TablesOf, EarlyPCs
<1>7. \A x \in Cids : Counted(x)'
  BY <1>1, <1>2, <1>3, CountedKept DEF TablesOf, OwingPCs
<1>8. \A x \in Cids : Links(x)'
  <2>1. \A x \in Cids : users(x)' = users(x)
    BY <1>2, UsersKept
  <2> QED BY <1>2, <2>1, LinksKept DEF TablesOf, Links
<1> QED BY <1>5, <1>6, <1>7, <1>8 DEF TablesOf

LEMMA DeactivateTables ==
  ASSUME TypeOK, NEW t \in Threads, AtTable(t), TablesOf(t), Deactivate(t)
  PROVE  TablesOf(t)'
<1> DEFINE c == thread[t].index
<1>1. /\ thread[t] \in Locals /\ thread \in [Threads -> Locals] /\ thread[t].pc = "deactivate" /\ c \in Cids
  BY Places DEF TypeOK, Deactivate, At, Fits, WithIndex, ReleasePCs
<1>2. UNCHANGED <<state, cid, secondary, count, s_openchannelCid, client>>
  BY DEF Deactivate, pdp, openchannel, globals, outside
<1>3. thread'[t].pc = "free" /\ thread'[t].index = c /\ thread'[t].second = thread[t].second
  BY <1>1 DEF Deactivate, Goto, Locals
<1>4. SetupHas(t)'
  BY <1>1, <1>2, <1>3 DEF SetupHas, ReleasePCs, TablesOf
<1>5. CardHas'
  BY <1>3, CardKept DEF TablesOf, EarlyPCs
<1>6. \A x \in Cids : Counted(x)'
  BY <1>1, <1>2, <1>3, CountedKept DEF TablesOf, OwingPCs
<1>7. \A x \in Cids : Links(x)'
  <2>1. \A x \in Cids : users(x)' = users(x)
    BY <1>2, UsersKept
  <2> QED BY <1>2, <2>1, LinksKept DEF TablesOf, Links
<1> QED BY <1>4, <1>5, <1>6, <1>7 DEF TablesOf

LEMMA FreeTables ==
  ASSUME TypeOK, NEW t \in Threads, AtTable(t), TablesOf(t), Free(t)
  PROVE  TablesOf(t)'
<1> DEFINE c == thread[t].index
           d == thread[t].second
           cs == {c, d} \ {NoCid}
<1>1. /\ thread[t] \in Locals /\ thread \in [Threads -> Locals] /\ thread[t].pc = "free"
      /\ c \in Cids /\ d \in SomeCid
  BY Places DEF TypeOK, Free, At, Fits, WithIndex, ReleasePCs
<1>2. UNCHANGED <<s_openchannelCid, client>> /\ putPDP(cs)
  BY DEF Free, globals, outside
<1>3. thread'[t].pc = "rest"
  BY <1>1 DEF Free, Rest
<1>4. count[c] = 0 /\ d = secondary[c] /\ (d # NoCid => count[d] = 0)
  BY <1>1 DEF TablesOf, SetupHas, ReleasePCs
<1>5. cs \in SUBSET Cids
  BY <1>1 DEF SomeCid
<1>6. ASSUME NEW x \in cs PROVE users(x) = 0 /\ secondary[x] \in cs \cup {NoCid}
  <2>1. x \in Cids /\ count[x] = 0
    BY <1>4, <1>5
  <2>2. Owed(x) = 0
    BY <1>1, OwedAtTable DEF OwingPCs
  <2>3. count[x] = users(x) + Owed(x) /\ users(x) \in Nat
    BY <2>1, CountedAtTable DEF TablesOf, users, TypeOK
  <2>4. secondary[x] \in cs \cup {NoCid}
    <3>1. CASE x = c
      BY <1>4, <3>1
    <3>2. CASE x = d /\ d # NoCid
      BY <1>1, <1>4, <3>2 DEF TablesOf, Links
    <3> QED BY <3>1, <3>2
  <2> QED BY <2>1, <2>2, <2>3, <2>4
<1>7. \A x \in Cids : Counted(x)'
  <2>1. thread[t].pc \notin OwingPCs /\ thread'[t].pc \notin OwingPCs /\ thread'[t].pc # "result"
    BY <1>1, <1>3 DEF OwingPCs
  <2> QED BY <1>2, <1>5, <1>6, <2>1, CountedPut DEF TablesOf
<1>8. \A x \in Cids : Links(x)'
  <2>1. \A x \in Cids : users(x)' = users(x)
    BY <1>2, UsersKept
  <2> QED BY <1>2, <1>5, <1>6, <2>1, LinksPut DEF TablesOf
<1>9. SetupHas(t)'
  BY <1>3 DEF SetupHas, ReleasePCs
<1>10. CardHas'
  BY <1>3, CardKept DEF TablesOf, EarlyPCs
<1> QED BY <1>7, <1>8, <1>9, <1>10 DEF TablesOf

\* the table, whoever is at it
TablesHold ==
  /\ \A t \in Threads : SetupHas(t)
  /\ CardHas
  /\ \A c \in Cids : Counted(c)
  /\ \A c \in Cids : Links(c)

LEMMA StepTables ==
  ASSUME TypeOK, OneAtTable, Counter, TablesHold, NEW t \in Threads, Step(t), [Next]_vars,
         Unless(CountExcuses)'
  PROVE  TablesHold'
<1>1. Unless({"overlap"}) /\ Unless({"overlap", "dropped"}) /\ Unless({"overlap", "unread"})'
  <2>1. Unless(CountExcuses)
    BY UnlessKept DEF CountExcuses
  <2> QED BY <2>1 DEF Unless, CountExcuses
<1>2. AtTable(t)
  BY <1>1, AloneStep, StepShape DEF AtTable
<1>3. TablesOf(t) /\ SeenIs(t)
  BY <1>1 DEF TablesHold, TablesOf, Counter, SeenIs
<1>4. TablesOf(t)'
  BY <1>1, <1>2, <1>3, RetryTables, TakeTables, ReuseTables, GetTables, ActivateTables, PutBackTables,
     UnusableTables, FallbackTables, GetSecondTables, SecondTables, DoneTables, ListTables,
     ErrorTables, TellTables, LeaveTables, LeaveStoreTables, LastTables, DeactivateTables,
     FreeTables DEF Step
<1>5. \A u \in Threads \ {t} : SetupHas(u)'
  <2>1. \A u \in Threads \ {t} : thread'[u].pc \in {"rest", "open"}
    BY <1>2 DEF AtTable
  <2> QED BY <2>1 DEF SetupHas, ReleasePCs
<1> QED BY <1>4, <1>5 DEF TablesHold, TablesOf

LEMMA QuietTable ==
  ASSUME TypeOK, TablesHold, \A t \in Threads : ~ busy(t)
  PROVE  \A c \in Cids : count[c] = users(c) /\ users(c) \in Nat
<1> SUFFICES ASSUME NEW c \in Cids PROVE count[c] = users(c) /\ users(c) \in Nat
  OBVIOUS
<1>1. Owed(c) = 0
  BY DEF Owed, busy
<1>2. ~ At(Bip, "result")
  BY DEF busy, At, Threads
<1>3. users(c) \in Nat
  BY DEF users, TypeOK
<1> QED BY <1>1, <1>2, <1>3 DEF TablesHold, Counted

LEMMA ClientSetsUpTables ==
  ASSUME TypeOK, TablesHold, ClientSetsUp, \A t \in Threads : ~ busy(t)
  PROVE  TablesHold'
<1>1. /\ thread \in [Threads -> Locals] /\ Setup \in Threads /\ Bip \in Threads /\ Bip # Setup
      /\ thread[Setup] = Rest
  BY DEF TypeOK, Threads, ClientSetsUp, At, Fits, Setup, Bip
<1>2. UNCHANGED <<state, cid, secondary, count, pdpState, channel, s_openchannelCid, active, client>>
  BY DEF ClientSetsUp, pdp, openchannel, globals
<1>3. /\ thread'[Setup].pc = "retry" /\ thread'[Setup].index = NoCid
      /\ \A t \in Threads \ {Setup} : thread'[t] = thread[t] /\ thread[t].pc \in {"rest", "open"}
  BY <1>1 DEF ClientSetsUp, Goto, busy, Rest
<1>4. \A t \in Threads : SetupHas(t)'
  BY <1>3 DEF SetupHas, ReleasePCs
<1>5. \A x \in Cids : users(x)' = users(x)
  BY <1>1, <1>2, <1>3 DEF users, At
<1>6. CardHas'
  BY <1>1, <1>2, <1>3 DEF CardHas, TablesHold
<1>7. ASSUME NEW x \in Cids PROVE Counted(x)'
  <2>1. Owed(x)' = 0
    BY <1>3 DEF Owed
  <2>2. ~ At(Bip, "result")'
    BY <1>1, <1>3 DEF At
  <2> QED BY <1>2, <1>5, <2>1, <2>2, QuietTable DEF Counted
<1>8. \A x \in Cids : Links(x)'
  BY <1>2, <1>5, LinksKept DEF TablesHold, Links
<1> QED BY <1>4, <1>6, <1>7, <1>8 DEF TablesHold

\* a user leaves a context
LEMMA LeavesTables ==
  ASSUME TypeOK, TablesHold, \A t \in Threads : ~ busy(t), NEW t \in Threads, NEW c \in Cids,
         users(c) > 0, \A x \in Cids : users(x)' = (IF x = c THEN users(x) - 1 ELSE users(x)),
         thread'[t].pc = "leave", thread'[t].index = c,
         \A u \in Threads \ {t} : thread'[u] = thread[u],
         UNCHANGED <<state, cid, secondary, count, s_openchannelCid>>,
         \A x \in Cids : channel'[x] # "CLOSE" => thread'[Bip].pc = "open" /\ thread'[Bip].index = x
  PROVE  TablesHold'
<1>1. \A u \in Threads \ {t} : thread'[u].pc \in {"rest", "open"}
  BY DEF busy
<1>2. \A x \in Cids : count[x] = users(x) /\ users(x) \in Nat
  BY QuietTable
<1>3. ASSUME NEW u \in Threads PROVE SetupHas(u)'
  <2>1. secondary[c] # NoCid => count[secondary[c]] = 0
    BY <1>2 DEF TablesHold, Links
  <2> QED BY <1>1, <2>1 DEF SetupHas, ReleasePCs
<1>4. CardHas'
  <2>1. thread'[Bip].pc \in {"rest", "open", "leave"}
    BY <1>1 DEF Threads
  <2> QED BY <2>1 DEF CardHas
<1>5. ASSUME NEW x \in Cids PROVE Counted(x)'
  <2>1. Owed(x)' = IF x = c THEN 1 ELSE 0
    BY <1>1 DEF Owed
  <2>2. ~ At(Bip, "result")'
    BY <1>1 DEF At, Threads
  <2>3. count'[x] = users(x)' + Owed(x)'
    BY <1>2, <2>1
  <2> QED BY <2>2, <2>3 DEF Counted
<1>6. ASSUME NEW x \in Cids PROVE Links(x)'
  <2>1. Links(x)
    BY DEF TablesHold
  <2>2. users(x) = 0 => users(x)' = 0
    OBVIOUS
  <2> QED BY <2>1, <2>2 DEF Links
<1> QED BY <1>3, <1>4, <1>5, <1>6 DEF TablesHold

LEMMA ClientReleasesTables ==
  ASSUME TypeOK, TablesHold, NEW c \in Cids, ClientReleases(c), \A t \in Threads : ~ busy(t)
  PROVE  TablesHold'
<1>1. thread \in [Threads -> Locals] /\ Release \in Threads /\ Bip \in Threads /\ Bip # Release
  BY DEF TypeOK, Threads, Release, Bip
<1>2. UNCHANGED <<state, cid, secondary, count, channel, s_openchannelCid>>
  BY Zenon DEF ClientReleases, pdp, openchannel, globals
<1> DEFINE r == [Rest EXCEPT !.pc = "leave", !.index = c]
<1>3. /\ client[c] > 0 /\ client' = [client EXCEPT ![c] = @ - 1]
      /\ thread' = [thread EXCEPT ![Release] = r]
  BY Zenon DEF ClientReleases
<1>4. r.pc = "leave" /\ r.index = c
  BY DEF Rest
<1> HIDE DEF r
<1>5. /\ thread'[Release].pc = "leave" /\ thread'[Release].index = c
      /\ \A t \in Threads \ {Release} : thread'[t] = thread[t]
  BY <1>1, <1>3, <1>4
<1>6. ASSUME NEW x \in Cids PROVE users(x)' = (IF x = c THEN users(x) - 1 ELSE users(x))
  <2>1. thread'[Bip] = thread[Bip]
    BY <1>1, <1>5
  <2>2. client'[x] = (IF x = c THEN client[x] - 1 ELSE client[x]) /\ client[x] \in Nat
    BY <1>3 DEF TypeOK
  <2> QED BY <2>1, <2>2 DEF users, At
<1>7. users(c) > 0
  BY <1>3 DEF users, TypeOK
<1>8. \A x \in Cids : channel'[x] # "CLOSE" => thread'[Bip].pc = "open" /\ thread'[Bip].index = x
  BY <1>1, <1>2, <1>5 DEF TablesHold, CardHas, busy
<1> QED BY <1>1, <1>2, <1>5, <1>6, <1>7, <1>8, LeavesTables

LEMMA BipClosesTables ==
  ASSUME TypeOK, TablesHold, BipCloses, \A t \in Threads : ~ busy(t)
  PROVE  TablesHold'
<1> DEFINE c == thread[Bip].index
<1>1. /\ thread \in [Threads -> Locals] /\ Bip \in Threads /\ thread[Bip].pc = "open" /\ c \in Cids
  BY Places DEF TypeOK, Threads, BipCloses, At, Fits, WithIndex
<1>2. UNCHANGED <<state, cid, secondary, count, s_openchannelCid, client>>
  BY DEF BipCloses, pdp, globals, outside
<1>3. /\ thread'[Bip].pc = "leave" /\ thread'[Bip].index = c
      /\ \A t \in Threads \ {Bip} : thread'[t] = thread[t]
  BY <1>1 DEF BipCloses, Goto, Locals
<1>4. /\ users(c) > 0
      /\ \A x \in Cids : users(x)' = (IF x = c THEN users(x) - 1 ELSE users(x))
  BY <1>1, <1>2, <1>3 DEF users, At, TypeOK
<1>5. ASSUME NEW x \in Cids PROVE channel'[x] = "CLOSE"
  BY <1>1 DEF BipCloses, TablesHold, CardHas, TypeOK
<1> QED BY <1>1, <1>2, <1>3, <1>4, <1>5, LeavesTables

LEMMA BipOpensTables ==
  ASSUME TypeOK, TablesHold, BipOpens, \A t \in Threads : ~ busy(t)
  PROVE  TablesHold'
<1>1. /\ thread \in [Threads -> Locals] /\ Bip \in Threads /\ thread[Bip] = Rest
  BY DEF TypeOK, Threads, BipOpens, At, Fits
<1>2. UNCHANGED <<state, cid, secondary, count, channel, client>> /\ s_openchannelCid' = NoCid
  BY DEF BipOpens, pdp, openchannel
<1>3. /\ thread[Bip].pc = "rest" /\ thread'[Bip].pc = "look" /\ thread'[Bip].index = NoCid
      /\ \A t \in Threads \ {Bip} : thread'[t] = thread[t] /\ thread[t].pc \in {"rest", "open"}
  BY <1>1 DEF BipOpens, Goto, busy, Rest
<1>4. \A t \in Threads : SetupHas(t)'
  BY <1>3 DEF SetupHas, ReleasePCs
<1>5. \A x \in Cids : users(x)' = users(x)
  BY <1>1, <1>2, <1>3 DEF users, At
<1>6. CardHas'
  BY <1>1, <1>2, <1>3 DEF CardHas, TablesHold
<1>7. ASSUME NEW x \in Cids PROVE Counted(x)'
  <2>1. Owed(x)' = 0
    BY <1>3 DEF Owed
  <2>2. ~ At(Bip, "result")'
    BY <1>1, <1>3 DEF At
  <2> QED BY <1>2, <1>5, <2>1, <2>2, QuietTable DEF Counted
<1>8. \A x \in Cids : Links(x)'
  BY <1>2, <1>5, LinksKept DEF TablesHold, Links
<1> QED BY <1>4, <1>6, <1>7, <1>8 DEF TablesHold

\* the card goes on towards a context that it shares
LEMMA CardLooks ==
  ASSUME TypeOK, TablesHold, UNCHANGED <<state, cid, secondary, count, s_openchannelCid, client>>,
         \A u \in Threads \ {Bip} : thread[u].pc \in {"rest", "open"} /\ thread'[u] = thread[u],
         thread[Bip].pc \in {"look", "lock", "share"},
         thread'[Bip].pc \in {"retry", "lock", "waiting", "share", "shared"}
  PROVE  /\ \A c \in Cids : Counted(c)'
         /\ \A c \in Cids : Links(c)'
         /\ \A c \in Cids : users(c)' = users(c)
<1>1. \A c \in Cids : users(c)' = users(c)
  BY DEF users, At
<1>2. ASSUME NEW c \in Cids PROVE Counted(c)'
  <2>1. Owed(c) = 0 /\ Owed(c)' = 0
    BY DEF Owed
  <2>2. Counted(c)
    BY DEF TablesHold
  <2> QED BY <1>1, <2>1, <2>2 DEF Counted, At
<1>3. \A c \in Cids : Links(c)'
  BY <1>1, LinksKept DEF TablesHold, Links
<1> QED BY <1>1, <1>2, <1>3

LEMMA CardSharesTables ==
  ASSUME TypeOK, TablesHold, BipLooks \/ BipWaits \/ BipShares, Unless(CountExcuses)',
         \A u \in Threads \ {Bip} : thread[u].pc \in {"rest", "open"}
  PROVE  TablesHold'
<1>1. /\ thread \in [Threads -> Locals] /\ Bip \in Threads /\ thread[Bip] \in Locals
  BY DEF TypeOK, Threads
<1>2. UNCHANGED <<state, cid, secondary, count, s_openchannelCid, client>>
  BY DEF BipLooks, BipWaits, BipShares, pdp, openchannel, globals, outside
<1>3. \A u \in Threads \ {Bip} : thread'[u] = thread[u]
  BY <1>1 DEF BipLooks, BipWaits, BipShares, Goto
<1>4. CASE BipLooks
  <2>1. thread[Bip].pc = "look" /\ UNCHANGED channel
    BY <1>4 DEF BipLooks, At, openchannel
  <2>2. \/ thread'[Bip].pc = "retry" /\ thread'[Bip].index = thread[Bip].index
        \/ thread'[Bip].pc \in {"share", "lock"}
    <3>1. CASE Goto(Bip, "retry")
      BY <1>1, <3>1 DEF Goto, Locals
    <3>2. ASSUME NEW c, NEW place \in {"share", "lock"},
                 thread' = [thread EXCEPT ![Bip].pc = place, ![Bip].index = c]
          PROVE  thread'[Bip].pc \in {"share", "lock"}
      BY <1>1, <3>2 DEF Locals
    <3> QED BY <1>4, <3>1, <3>2 DEF BipLooks
  <2>3. SetupHas(Bip)'
    BY <1>1, <1>2, <2>1, <2>2 DEF SetupHas, ReleasePCs, TablesHold
  <2>4. CardHas'
    BY <1>2, <2>1, <2>2 DEF CardHas, TablesHold
  <2>5. \A u \in Threads \ {Bip} : SetupHas(u)'
    BY <1>3 DEF SetupHas, ReleasePCs
  <2> QED BY <1>2, <1>3, <2>1, <2>2, <2>3, <2>4, <2>5, CardLooks DEF TablesHold
<1>5. CASE BipWaits
  <2>1. thread[Bip].pc = "lock" /\ UNCHANGED channel /\ thread'[Bip].pc = "waiting"
    BY <1>1, <1>5 DEF BipWaits, At, Goto, openchannel, Locals
  <2>2. CardHas'
    BY <1>2, <2>1 DEF CardHas, TablesHold
  <2>3. \A u \in Threads : SetupHas(u)'
    BY <1>3, <2>1 DEF SetupHas, ReleasePCs
  <2> QED BY <1>2, <1>3, <2>1, <2>2, <2>3, CardLooks DEF TablesHold
<1>6. CASE BipShares
  <2>1. /\ thread[Bip].pc = "share" /\ thread'[Bip].pc = "shared"
        /\ thread'[Bip].index = thread[Bip].index /\ thread[Bip].index \in Cids
    BY <1>1, <1>6, Places DEF BipShares, At, Locals, Fits, WithIndex
  <2>2. users(thread[Bip].index) > 0
    <3>1. usersOf(thread[Bip].index) # 0
      BY <1>6 DEF BipShares, Unless, CountExcuses, after
    <3>2. users(thread[Bip].index) \in Nat
      BY <2>1 DEF users, TypeOK
    <3> QED BY <3>1, <3>2, UsersCount
  <2>3. /\ \A c \in Cids : Counted(c)'
        /\ \A c \in Cids : Links(c)'
        /\ \A c \in Cids : users(c)' = users(c)
    BY <1>2, <1>3, <2>1, CardLooks
  <2>4. CardHas'
    <3>1. PICK c \in Cids : c = thread[Bip].index
      BY <2>1
    <3>2. users(c)' > 0 /\ thread'[Bip].index = c
      BY <2>1, <2>2, <2>3, <3>1
    <3>3. client'[c] > 0
      BY <1>2, <2>1, <3>2 DEF users, At, TypeOK
    <3>4. \A x \in Cids : channel'[x] # "CLOSE" => x = c
      BY <1>6, <2>1, <3>1 DEF BipShares, TypeOK, TablesHold, CardHas
    <3> QED BY <2>1, <3>2, <3>3, <3>4 DEF CardHas, users, At
  <2>5. \A u \in Threads : SetupHas(u)'
    BY <1>3, <2>1 DEF SetupHas, ReleasePCs
  <2> QED BY <2>3, <2>4, <2>5 DEF TablesHold
<1> QED BY <1>4, <1>5, <1>6

\* the card has a context
LEMMA CardOpensTables ==
  ASSUME TypeOK, TablesHold, UNCHANGED <<state, cid, secondary, s_openchannelCid, client>>,
         \A u \in Threads \ {Bip} : thread[u].pc \in {"rest", "open"} /\ thread'[u] = thread[u],
         thread[Bip].pc \in {"shared", "result"}, thread'[Bip].pc = "open",
         NEW c \in Cids, thread'[Bip].index = c, cid[c] = "own",
         count'[c] = users(c) + 1, \A x \in Cids \ {c} : count'[x] = count[x],
         count[c] > 0, thread[Bip].pc = "result" => s_openchannelCid = c,
         \A x \in Cids : channel'[x] # "CLOSE" => x = c
  PROVE  TablesHold'
<1>1. \A x \in Cids : users(x)' = (IF x = c THEN users(x) + 1 ELSE users(x)) /\ users(x) \in Nat
  BY DEF users, At, TypeOK
<1>2. \A u \in Threads : SetupHas(u)'
  BY DEF SetupHas, ReleasePCs
<1>3. CardHas'
  BY DEF CardHas
<1>4. ASSUME NEW x \in Cids PROVE Counted(x)'
  <2>1. Owed(x)' = 0 /\ Owed(x) = 0
    BY DEF Owed
  <2>2. ~ At(Bip, "result")'
    BY DEF At
  <2>3. CASE x = c
    BY <1>1, <2>1, <2>2, <2>3 DEF Counted
  <2>4. CASE x # c
    <3>1. count[x] = users(x) + Owed(x)
      BY <2>4 DEF TablesHold, Counted, At
    <3> QED BY <1>1, <2>1, <2>2, <2>4, <3>1 DEF Counted
  <2> QED BY <2>3, <2>4
<1>5. ASSUME NEW x \in Cids PROVE Links(x)'
  <2>1. Links(x)
    BY DEF TablesHold
  <2>2. secondary[x] # NoCid => secondary[x] \in Cids
    BY DEF TypeOK, SomeCid
  <2>3. \A y \in Cids : count[y] = 0 => count'[y] = 0
    OBVIOUS
  <2> QED BY <1>1, <2>1, <2>2, <2>3 DEF Links
<1> QED BY <1>2, <1>3, <1>4, <1>5 DEF TablesHold

LEMMA BipSharedTables ==
  ASSUME TypeOK, TablesHold, BipShared, SeenIs(Bip),
         \A u \in Threads \ {Bip} : thread[u].pc \in {"rest", "open"}
  PROVE  TablesHold'
<1> DEFINE c == thread[Bip].index
<1>1. /\ thread \in [Threads -> Locals] /\ Bip \in Threads /\ thread[Bip] \in Locals
      /\ thread[Bip].pc = "shared" /\ c \in Cids /\ thread[Bip].seen = count[c]
  BY Places DEF TypeOK, Threads, BipShared, At, Fits, WithIndex, SeenIs
<1>2. UNCHANGED <<state, cid, secondary, channel, s_openchannelCid, client>>
  BY DEF BipShared, pdp, globals, outside
<1>3. /\ \A u \in Threads \ {Bip} : thread'[u] = thread[u]
      /\ thread'[Bip].pc = "open" /\ thread'[Bip].index = c
  BY <1>1 DEF BipShared, Locals
<1>4. users(c) > 0 /\ count[c] = users(c)
  <2>1. Owed(c) = 0
    BY <1>1 DEF Owed
  <2>2. users(c) \in Nat
    BY <1>1 DEF users, TypeOK
  <2>3. Counted(c)
    BY <1>1 DEF TablesHold
  <2> QED BY <1>1, <2>1, <2>2, <2>3 DEF TablesHold, Counted, CardHas, At
<1>5. cid[c] = "own"
  BY <1>1, <1>4 DEF TablesHold, Links
<1>6. count'[c] = users(c) + 1 /\ \A x \in Cids \ {c} : count'[x] = count[x]
  BY <1>1, <1>4 DEF BipShared, TypeOK
<1>7. \A x \in Cids : channel'[x] # "CLOSE" => x = c
  BY <1>2 DEF TablesHold, CardHas
<1> QED BY <1>1, <1>2, <1>3, <1>4, <1>5, <1>6, <1>7, CardOpensTables

LEMMA BipSetUpTables ==
  ASSUME TypeOK, TablesHold, BipSetUp, Unless(CountExcuses)',
         \A u \in Threads \ {Bip} : thread[u].pc \in {"rest", "open"}
  PROVE  TablesHold'
<1> DEFINE c == s_openchannelCid
<1>1. /\ thread \in [Threads -> Locals] /\ Bip \in Threads /\ thread[Bip].pc = "result" /\ c \in SomeCid
  BY DEF TypeOK, Threads, BipSetUp, At
<1>2. UNCHANGED <<state, cid, secondary, count, s_openchannelCid, client>>
  BY DEF BipSetUp, pdp, globals, outside
<1>3. CASE c = NoCid
  <2>1. /\ \A u \in Threads \ {Bip} : thread'[u] = thread[u]
        /\ thread'[Bip].pc = "rest" /\ UNCHANGED channel
    BY <1>1, <1>3 DEF BipSetUp, Rest
  <2>2. \A u \in Threads : SetupHas(u)'
    BY <2>1 DEF SetupHas, ReleasePCs
  <2>3. CardHas'
    BY <1>1, <1>2, <2>1 DEF CardHas, TablesHold
  <2>4. \A x \in Cids : users(x)' = users(x)
    BY <1>1, <1>2, <2>1 DEF users, At
  <2>5. ASSUME NEW x \in Cids PROVE Counted(x)'
    <3>1. x # c /\ Counted(x)
      BY <1>3, NoCidIsNone DEF TablesHold
    <3>2. Owed(x)' = 0 /\ Owed(x) = 0
      BY <1>1, <2>1 DEF Owed
    <3> QED BY <1>2, <2>1, <2>4, <3>1, <3>2 DEF Counted, At
  <2>6. \A x \in Cids : Links(x)'
    BY <1>2, <2>4, LinksKept DEF TablesHold, Links
  <2> QED BY <2>2, <2>3, <2>5, <2>6 DEF TablesHold
<1>4. CASE c # NoCid
  <2>1. c \in Cids
    BY <1>1, <1>4 DEF SomeCid
  <2> DEFINE r == [Rest EXCEPT !.pc = "open", !.index = c]
  <2>2. r.pc = "open" /\ r.index = c
    BY DEF Rest
  <2>3. thread' = [thread EXCEPT ![Bip] = r] /\ channel' = [channel EXCEPT ![c] = "OPEN"]
    BY <1>4, Zenon DEF BipSetUp
  <2>4. state[c] = "BUSY"
    <3>1. state[c] # "IDLE"
      BY <1>4 DEF BipSetUp, Unless, CountExcuses, after
    <3> QED BY <2>1, <3>1 DEF TypeOK
  <2> HIDE DEF r
  <2>5. /\ \A u \in Threads \ {Bip} : thread'[u] = thread[u]
        /\ thread'[Bip].pc = "open" /\ thread'[Bip].index = c
    BY <1>1, <2>2, <2>3
  <2>6. count[c] = users(c) + 1 /\ cid[c] = "own" /\ users(c) \in Nat
    BY <1>1, <1>4, <2>1, <2>4 DEF TablesHold, Counted, CardHas, At, users, TypeOK
  <2>7. \A x \in Cids : channel'[x] # "CLOSE" => x = c
    BY <1>1, <2>3 DEF TablesHold, CardHas, TypeOK
  <2> QED BY <1>1, <1>2, <2>1, <2>5, <2>6, <2>7, CardOpensTables
<1> QED BY <1>3, <1>4

LEMMA TablesStep == TypeOK /\ OneAtTable /\ Counter /\ Tables /\ [Next]_vars => Tables'
<1> SUFFICES ASSUME TypeOK, OneAtTable, Counter, Tables, [Next]_vars, Unless(CountExcuses)'
             PROVE  TablesHold'
  BY DEF Tables, TablesHold
<1>1. Unless(CountExcuses)
  BY UnlessKept DEF CountExcuses
<1>2. /\ Unless({"overlap"}) /\ Unless({"overlap", "dropped"})
      /\ "overlap" \notin happened' /\ "dropped" \notin happened'
  BY <1>1 DEF Unless, CountExcuses
<1>3. TablesHold
  BY <1>1 DEF Tables, TablesHold
<1>4. \A t \in Threads : SeenIs(t)
  BY <1>2 DEF Counter, SeenIs
<1>5. ASSUME NEW t \in Threads, Step(t) PROVE TablesHold'
  BY <1>3, <1>5, StepTables
<1>6. CASE Starts
  <2>1. \A t \in Threads : ~ busy(t)
    BY <1>2, <1>6, StartsAlone
  <2> QED BY <1>3, <1>6, <2>1, ClientSetsUpTables, ClientReleasesTables, BipOpensTables, BipClosesTables DEF Starts
<1>7. ASSUME busy(Bip) PROVE \A u \in Threads \ {Bip} : thread[u].pc \in {"rest", "open"}
  BY <1>2, <1>7, Alone DEF Threads
<1>8. CASE BipLooks \/ BipWaits \/ BipShares
  <2>1. busy(Bip)
    BY <1>8 DEF BipLooks, BipWaits, BipShares, At, busy
  <2> QED BY <1>3, <1>7, <1>8, <2>1, CardSharesTables
<1>9. CASE BipShared
  <2>1. busy(Bip)
    BY <1>9 DEF BipShared, At, busy
  <2>2. SeenIs(Bip)
    BY <1>4 DEF Threads
  <2> QED BY <1>3, <1>7, <1>9, <2>1, <2>2, BipSharedTables
<1>10. CASE BipSetUp
  <2>1. busy(Bip)
    BY <1>10 DEF BipSetUp, At, busy
  <2> QED BY <1>3, <1>7, <1>10, <2>1, BipSetUpTables
<1>11. ASSUME NEW c \in Cids, NetworkDrops(c) PROVE FALSE
  BY <1>2, <1>11 DEF NetworkDrops, after
<1>12. ~ ReadCEND
  BY <1>2 DEF Counter, ReadCEND
<1>13. CASE UNCHANGED vars
  <2>1. UNCHANGED <<state, cid, secondary, count, channel, s_openchannelCid, active, thread, client>>
    BY <1>13 DEF vars, pdp, openchannel, globals, outside
  <2>2. \A c \in Cids : users(c)' = users(c) /\ Owed(c)' = Owed(c)
    BY <2>1 DEF users, Owed, At
  <2>3. \A t \in Threads : SetupHas(t)'
    BY <1>3, <2>1 DEF TablesHold, SetupHas
  <2>4. CardHas'
    <3>1. CardHas
      BY <1>3 DEF TablesHold
    <3>2. thread[Bip].pc = "shared" => client'[thread[Bip].index] > 0
      BY <3>1, <2>1, Places DEF CardHas, users, At, Fits, WithIndex, TypeOK, Threads
    <3> QED BY <2>1, <3>1, <3>2 DEF CardHas, users, At
  <2>5. \A c \in Cids : Counted(c)'
    BY <1>3, <2>1, <2>2 DEF TablesHold, Counted, At
  <2>6. \A c \in Cids : Links(c)'
    BY <1>3, <2>1, <2>2 DEF TablesHold, Links
  <2> QED BY <2>3, <2>4, <2>5, <2>6 DEF TablesHold
<1> QED BY <1>5, <1>6, <1>8, <1>9, <1>10, <1>11, <1>12, <1>13 DEF Next, Starts

-----------------------------------------------------------------------------
(* At first. *)

LEMMA InitTables == Init => LookedBefore /\ OneAtTable /\ Counter /\ Tables
<1> SUFFICES ASSUME Init PROVE LookedBefore /\ OneAtTable /\ Counter /\ Tables
  OBVIOUS
<1>1. /\ \A t \in Threads : thread[t].pc = "rest" /\ thread[t].index = NoCid
      /\ thread[Bip].pc = "rest"
  BY DEF Init, Rest, Threads
<1>2. LookedBefore
  BY <1>1 DEF LookedBefore
<1>3. OneAtTable
  BY <1>1 DEF OneAtTable, busy
<1>4. Counter
  BY <1>1 DEF Counter, Init
<1>5. \A t \in Threads : SetupHas(t)
  BY <1>1 DEF SetupHas, ReleasePCs
<1>6. CardHas
  BY <1>1 DEF CardHas, Init
<1>7. ASSUME NEW c \in Cids PROVE Counted(c) /\ Links(c)
  <2>1. users(c) = 0 /\ Owed(c) = 0
    BY <1>1 DEF users, Owed, At, Init
  <2> QED BY <1>1, <2>1 DEF Counted, Links, At, Init
<1> QED BY <1>2, <1>3, <1>4, <1>5, <1>6, <1>7 DEF Tables

-----------------------------------------------------------------------------
(* The entries, while one thread is at the table. *)

EntriesOf(t) ==
  /\ \A c \in Cids : users(c) > 0 => state[c] = "BUSY"
  /\ \A c \in Cids : state[c] = "BUSY" => Used(c) \/ Has(t, c)
  /\ SetupUses(t)

LEMMA HoldsOn ==
  ASSUME NEW t \in Threads, EntriesOf(t), \A c \in Cids : users(c)' = users(c),
         \A c \in Cids : state'[c] = "BUSY" =>
           ((state[c] = "BUSY" /\ secondary'[c] = secondary[c]) \/ Has(t, c)'),
         \A c \in Cids : state'[c] = "BUSY" /\ Has(t, c) => Has(t, c)' \/ Used(c),
         \A c \in Cids : users(c) > 0 /\ state[c] = "BUSY" => state'[c] = "BUSY",
         SetupUses(t)'
  PROVE  EntriesOf(t)'
<1>1. ASSUME NEW c \in Cids, state'[c] = "BUSY" PROVE Used(c)' \/ Has(t, c)'
  <2>1. CASE secondary'[c] = secondary[c] /\ Used(c)
    BY <2>1 DEF Used
  <2> QED BY <1>1, <2>1 DEF EntriesOf
<1>2. \A c \in Cids : users(c)' > 0 => state'[c] = "BUSY"
  BY DEF EntriesOf
<1> QED BY <1>1, <1>2 DEF EntriesOf

LEMMA RetryEntries ==
  ASSUME TypeOK, NEW t \in Threads, AtTable(t), EntriesOf(t), Retry(t)
  PROVE  EntriesOf(t)'
<1>1. thread[t] \in Locals /\ thread \in [Threads -> Locals] /\ thread[t].pc = "retry"
  BY DEF TypeOK, Retry, At
<1>2. UNCHANGED <<state, secondary, active, client>>
  BY DEF Retry, pdp, outside
<1>3. \A c \in Cids : users(c)' = users(c)
  BY <1>2, UsersKept
<1>4. SetupUses(t)'
  <2>1. CASE Goto(t, "get")
    BY <1>1, <2>1 DEF Goto, Locals, SetupUses
  <2>2. ASSUME NEW c \in active, state[c] = "IDLE", thread' = [thread EXCEPT ![t].pc = "take", ![t].bearer = c]
        PROVE  SetupUses(t)'
    <3>1. thread'[t].pc = "take" /\ thread'[t].bearer = c
      BY <1>1, <2>2 DEF Locals
    <3>2. c \in Cids /\ users(c) \in Nat
      BY DEF users, TypeOK
    <3>3. users(c) = 0
      BY <2>2, <3>2 DEF EntriesOf
    <3> QED BY <1>3, <3>1, <3>2, <3>3 DEF SetupUses
  <2>3. ASSUME NEW c \in active, state[c] = "BUSY", thread' = [thread EXCEPT ![t].pc = "done", ![t].index = c]
        PROVE  SetupUses(t)'
    <3>1. thread'[t].pc = "done" /\ thread'[t].index = c
      BY <1>1, <2>3 DEF Locals
    <3> QED BY <1>2, <2>3, <3>1 DEF SetupUses
  <2> QED BY <2>1, <2>2, <2>3 DEF Retry
<1>5. \A c \in Cids : ~ Has(t, c)
  BY <1>1 DEF Has, ReleasePCs
<1> QED BY <1>2, <1>3, <1>4, <1>5, HoldsOn

LEMMA TakeEntries ==
  ASSUME TypeOK, NEW t \in Threads, AtTable(t), EntriesOf(t), Take(t)
  PROVE  EntriesOf(t)'
<1>0. PICK b \in Cids : At(t, "take") /\ b = thread[t].bearer
  BY Places DEF Take, At, Fits
<1>1. thread[t] \in Locals /\ thread \in [Threads -> Locals] /\ thread[t].pc = "take" /\ b = thread[t].bearer
  BY <1>0 DEF TypeOK, At
<1>2. UNCHANGED <<secondary, client>> /\ state' = [state EXCEPT ![b] = "BUSY"]
  BY <1>1 DEF Take, outside
<1>3. thread'[t].pc = "reuse" /\ thread'[t].bearer = b
  BY <1>1 DEF Take, Goto, Locals
<1>4. \A c \in Cids : users(c)' = users(c)
  BY <1>2, UsersKept
<1>5. SetupUses(t)'
  BY <1>1, <1>3, <1>4 DEF SetupUses, EntriesOf
<1>6. \A c \in Cids : state'[c] = IF c = b THEN "BUSY" ELSE state[c]
  BY <1>2 DEF TypeOK
<1>7. Has(t, b)' /\ \A c \in Cids : ~ Has(t, c)
  BY <1>1, <1>3 DEF Has, ReleasePCs
<1> QED BY <1>1, <1>2, <1>4, <1>5, <1>6, <1>7, HoldsOn

LEMMA ReuseEntries ==
  ASSUME TypeOK, NEW t \in Threads, AtTable(t), TablesOf(t), EntriesOf(t), Reuse(t)
  PROVE  EntriesOf(t)'
<1>0. PICK b \in Cids : At(t, "reuse") /\ b = thread[t].bearer
  BY Places, ReuseAnswers DEF At, Fits
<1>1. thread[t] \in Locals /\ thread \in [Threads -> Locals] /\ thread[t].pc = "reuse" /\ b = thread[t].bearer
  BY <1>0 DEF TypeOK, At
<1>2. UNCHANGED <<secondary, client>>
  BY ReuseAnswers, Zenon DEF outside
<1>3. \A c \in Cids : users(c)' = users(c)
  BY <1>2, UsersKept
<1>4. state[b] = "BUSY" /\ users(b) = 0
  BY <1>1 DEF TablesOf, SetupHas, EntriesOf, SetupUses
<1>5. \A c \in Cids : Has(t, c) => c = b
  BY <1>1 DEF Has, ReleasePCs
<1>6. ASSUME NEW next, ReuseUp(t, next), next.pc \in {"done", "getSecond"}, next.index = b
      PROVE  EntriesOf(t)'
  <2>1. thread'[t] = next /\ UNCHANGED state
    BY <1>1, <1>6 DEF ReuseUp
  <2>2. SetupUses(t)'
    BY <1>4, <1>6, <2>1 DEF SetupUses
  <2>3. Has(t, b)'
    BY <1>6, <2>1 DEF Has
  <2> QED BY <1>2, <1>3, <1>5, <2>1, <2>2, <2>3, HoldsOn
<1>7. ASSUME NEW next, ReuseFails(t, next), next.pc \in {"get", "retry", "error"}
      PROVE  EntriesOf(t)'
  <2>1. thread'[t] = next /\ state' = [state EXCEPT ![b] = "IDLE"]
    BY <1>1, <1>7 DEF ReuseFails
  <2>2. SetupUses(t)'
    BY <1>7, <2>1 DEF SetupUses
  <2>3. \A c \in Cids : state'[c] = IF c = b THEN "IDLE" ELSE state[c]
    BY <2>1 DEF TypeOK
  <2> QED BY <1>2, <1>3, <1>4, <1>5, <2>2, <2>3, HoldsOn
<1>8. /\ ReuseDone(t).pc = "done" /\ ReuseDone(t).index = b
      /\ \A l \in BOOLEAN : ReuseSecond(t, l).pc = "getSecond" /\ ReuseSecond(t, l).index = b
      /\ ReuseGet(t).pc = "get" /\ ReuseError(t).pc = "error"
      /\ Again(t).pc \in {"get", "retry"}
  BY <1>1, ReuseGoes, AgainGoes
<1>9. CASE ReuseUp(t, ReuseDone(t))
  BY <1>6, <1>8, <1>9
<1>10. ASSUME NEW l \in BOOLEAN, ReuseUp(t, ReuseSecond(t, l)) PROVE EntriesOf(t)'
  BY <1>6, <1>8, <1>10
<1>11. CASE ReuseFails(t, ReuseGet(t)) \/ ReuseFails(t, Again(t)) \/ ReuseFails(t, ReuseError(t))
  BY <1>7, <1>8, <1>11
<1> QED BY <1>9, <1>10, <1>11, ReuseAnswers, Zenon

LEMMA GetEntries ==
  ASSUME TypeOK, NEW t \in Threads, AtTable(t), EntriesOf(t), Get(t)
  PROVE  EntriesOf(t)'
<1>1. thread[t] \in Locals /\ thread \in [Threads -> Locals] /\ thread[t].pc = "get"
  BY DEF TypeOK, Get, At
<1>2. UNCHANGED <<secondary, client>>
  BY DEF Get, outside
<1>3. \A c \in Cids : users(c)' = users(c)
  BY <1>2, UsersKept
<1>4. \A c \in Cids : ~ Has(t, c)
  BY <1>1 DEF Has, ReleasePCs
<1>5. CASE free = {}
  <2>1. thread'[t].pc = "error" /\ UNCHANGED state
    BY <1>1, <1>5 DEF Get, Locals
  <2>2. SetupUses(t)'
    BY <2>1 DEF SetupUses
  <2> QED BY <1>2, <1>3, <1>4, <2>1, <2>2, HoldsOn
<1>6. CASE free # {}
  <2>1. PICK c \in Cids : c = first
    BY <1>6, FirstIsFree DEF free
  <2>2. thread'[t].pc = "activate" /\ thread'[t].index = c /\ state' = [state EXCEPT ![c] = "BUSY"]
    BY <1>1, <1>6, <2>1 DEF Get, Locals
  <2>3. SetupUses(t)'
    BY <2>2 DEF SetupUses
  <2>4. Has(t, c)' /\ \A x \in Cids : state'[x] = IF x = c THEN "BUSY" ELSE state[x]
    BY <2>2 DEF Has, TypeOK
  <2> QED BY <1>2, <1>3, <1>4, <2>3, <2>4, HoldsOn
<1> QED BY <1>5, <1>6

LEMMA ActivateEntries ==
  ASSUME TypeOK, NEW t \in Threads, AtTable(t), TablesOf(t), EntriesOf(t), Activate(t)
  PROVE  EntriesOf(t)'
<1>0. PICK c \in Cids : At(t, "activate") /\ c = thread[t].index
  BY Places DEF Activate, At, Fits, WithIndex
<1>1. /\ thread[t] \in Locals /\ thread \in [Threads -> Locals] /\ thread[t].pc = "activate" /\ c = thread[t].index
      /\ state[c] = "BUSY"
  BY <1>0 DEF TypeOK, At, TablesOf, SetupHas
<1>2. UNCHANGED <<state, secondary, client>>
  BY DEF Activate, pdp, outside
<1>3. thread'[t].index = c /\ thread'[t].pc \in {"done", "getSecond", "put"}
  BY <1>1 DEF Activate, Goto, Locals
<1>4. \A x \in Cids : users(x)' = users(x)
  BY <1>2, UsersKept
<1>5. SetupUses(t)'
  BY <1>1, <1>2, <1>3 DEF SetupUses
<1>6. Has(t, c)' /\ \A x \in Cids : Has(t, x) => x = c
  BY <1>1, <1>3 DEF Has, ReleasePCs
<1> QED BY <1>2, <1>4, <1>5, <1>6, HoldsOn

\* an entry that nobody uses is put back
LEMMA PutEntries ==
  ASSUME TypeOK, NEW t \in Threads, AtTable(t), TablesOf(t), EntriesOf(t), NEW c \in Cids, cid[c] # "own", putPDP({c}),
         UNCHANGED client, thread[t].pc \in OwingPCs => thread[t].index = c, thread'[t].pc \notin OwingPCs,
         thread'[t].pc = "result" => s_openchannelCid' = c,
         \A x \in Cids \ {c} : Has(t, x) => Has(t, x)', SetupUses(t)'
  PROVE  EntriesOf(t)'
<1>1. /\ \A x \in Cids \ {c} : secondary'[x] = secondary[x] /\ state'[x] = state[x]
      /\ state'[c] = "IDLE" /\ users(c) = 0
  BY PutUnused
<1>2. \A x \in Cids : users(x)' = users(x)
  BY UsersKept
<1> QED BY <1>1, <1>2, HoldsOn

LEMMA PutBackEntries ==
  ASSUME TypeOK, NEW t \in Threads, AtTable(t), TablesOf(t), EntriesOf(t), PutBack(t)
  PROVE  EntriesOf(t)'
<1>0. PICK c \in Cids : At(t, "put") /\ c = thread[t].index
  BY Places DEF PutBack, At, Fits, WithIndex
<1>1. /\ thread[t] \in Locals /\ thread \in [Threads -> Locals] /\ thread[t].pc = "put"
      /\ cid[c] # "own" /\ c \notin active
  BY <1>0, NoCidIsNone DEF TypeOK, At, TablesOf, SetupHas
<1>2. UNCHANGED <<active, client>> /\ putPDP({c})
  BY <1>0 DEF PutBack, outside
<1>3. /\ thread'[t].index = c
      /\ thread'[t].pc \in {"error", "unusable", "fallback", "retry", "get", "done"}
  <2>1. ASSUME NEW next, Goto(t, next) PROVE thread'[t].index = c /\ thread'[t].pc = next
    BY <1>0, <1>1, <2>1 DEF Goto, Locals
  <2>2. Again(t).pc \in {"get", "retry"} /\ Again(t).index = c
    BY <1>0, <1>1, AgainGoes
  <2>3. [thread[t] EXCEPT !.pc = "done"].pc = "done" /\ [thread[t] EXCEPT !.pc = "done"].index = c
    BY <1>0, <1>1 DEF Locals
  <2>4. CASE \E next \in {"error", "unusable", "fallback"} : Goto(t, next)
    BY <2>1, <2>4
  <2>5. CASE thread' = [thread EXCEPT ![t] = IF @.tries < MaxRetries THEN Again(t) ELSE [@ EXCEPT !.pc = "done"]]
    BY <1>1, <2>2, <2>3, <2>5
  <2> QED BY <2>4, <2>5 DEF PutBack
<1>4. SetupUses(t)'
  BY <1>1, <1>2, <1>3 DEF SetupUses
<1>5. \A x \in Cids : Has(t, x) => x = c
  BY <1>0, <1>1 DEF Has, ReleasePCs
<1> QED BY <1>1, <1>2, <1>3, <1>4, <1>5, PutEntries DEF OwingPCs

LEMMA UnusableEntries ==
  ASSUME TypeOK, NEW t \in Threads, AtTable(t), EntriesOf(t), Unusable(t)
  PROVE  EntriesOf(t)'
<1>1. thread[t] \in Locals /\ thread \in [Threads -> Locals] /\ thread[t].pc = "unusable"
  BY DEF TypeOK, Unusable, At
<1>2. UNCHANGED <<state, secondary, client>> /\ thread'[t].pc = "retry"
  BY <1>1 DEF Unusable, Goto, outside, Locals
<1>3. \A x \in Cids : users(x)' = users(x)
  BY <1>2, UsersKept
<1>4. SetupUses(t)' /\ \A x \in Cids : ~ Has(t, x)
  BY <1>1, <1>2 DEF SetupUses, Has, ReleasePCs
<1> QED BY <1>2, <1>3, <1>4, HoldsOn

LEMMA FallbackEntries ==
  ASSUME TypeOK, NEW t \in Threads, AtTable(t), EntriesOf(t), Fallback(t), Unless({"overlap", "fallback"})'
  PROVE  EntriesOf(t)'
<1>1. thread[t] \in Locals /\ thread \in [Threads -> Locals] /\ thread[t].pc = "fallback"
  BY DEF TypeOK, Fallback, At
<1>2. happened' # after("fallback")
  BY DEF Unless, after
<1>3. UNCHANGED <<state, secondary, client>> /\ thread'[t].pc = "error"
  BY <1>1, <1>2 DEF Fallback, Goto, outside, Locals
<1>4. \A x \in Cids : users(x)' = users(x)
  BY <1>3, UsersKept
<1>5. SetupUses(t)' /\ \A x \in Cids : ~ Has(t, x)
  BY <1>1, <1>3 DEF SetupUses, Has, ReleasePCs
<1> QED BY <1>3, <1>4, <1>5, HoldsOn

LEMMA GetSecondEntries ==
  ASSUME TypeOK, NEW t \in Threads, AtTable(t), EntriesOf(t), GetSecond(t)
  PROVE  EntriesOf(t)'
<1>0. PICK c \in Cids : At(t, "getSecond") /\ c = thread[t].index
  BY Places DEF GetSecond, At, Fits, WithIndex
<1>1. /\ thread[t] \in Locals /\ thread \in [Threads -> Locals] /\ thread[t].pc = "getSecond"
      /\ state[c] = "BUSY"
  BY <1>0 DEF TypeOK, At, EntriesOf, SetupUses
<1>2. UNCHANGED <<secondary, client>>
  BY DEF GetSecond, outside
<1>3. \A x \in Cids : users(x)' = users(x)
  BY <1>2, UsersKept
<1>4. \A x \in Cids : Has(t, x) => x = c
  BY <1>0, <1>1 DEF Has, ReleasePCs
<1>5. CASE free = {}
  <2>1. thread'[t].pc = "done" /\ thread'[t].index = c /\ UNCHANGED state
    BY <1>0, <1>1, <1>5 DEF GetSecond, Locals
  <2>2. SetupUses(t)' /\ Has(t, c)'
    BY <1>1, <2>1 DEF SetupUses, Has
  <2> QED BY <1>2, <1>3, <1>4, <2>1, <2>2, HoldsOn
<1>6. CASE free # {}
  <2>1. PICK d \in Cids : d = first
    BY <1>6, FirstIsFree DEF free
  <2>2. /\ thread'[t].pc = "second" /\ thread'[t].index = c /\ thread'[t].second = d
        /\ state' = [state EXCEPT ![d] = "BUSY"]
    BY <1>0, <1>1, <1>6, <2>1 DEF GetSecond, Locals
  <2>3. \A x \in Cids : state'[x] = IF x = d THEN "BUSY" ELSE state[x]
    BY <2>2 DEF TypeOK
  <2>4. SetupUses(t)' /\ Has(t, c)' /\ Has(t, d)'
    BY <1>1, <2>2, <2>3 DEF SetupUses, Has
  <2> QED BY <1>2, <1>3, <1>4, <2>3, <2>4, HoldsOn
<1> QED BY <1>5, <1>6

LEMMA SecondEntries ==
  ASSUME TypeOK, NEW t \in Threads, AtTable(t), TablesOf(t), EntriesOf(t), Second(t),
         Unless({"overlap", "unlinked"})'
  PROVE  EntriesOf(t)'
<1>0. PICK c \in Cids, d \in Cids : At(t, "second") /\ c = thread[t].index /\ d = thread[t].second
  BY Places DEF Second, At, Fits, WithIndex
<1>1. /\ thread[t] \in Locals /\ thread \in [Threads -> Locals] /\ thread[t].pc = "second"
      /\ state[c] = "BUSY" /\ c # d /\ cid[d] # "own"
  BY <1>0 DEF TypeOK, At, EntriesOf, SetupUses, TablesOf, SetupHas
<1>2. UNCHANGED client /\ thread'[t].index = c /\ thread'[t].pc = "done"
  BY <1>0, <1>1 DEF Second, outside, Locals
<1>3. \A x \in Cids : users(x)' = users(x)
  BY <1>2, UsersKept
<1>4. \A x \in Cids : Has(t, x) => x = c \/ x = d
  BY <1>0, <1>1 DEF Has, ReleasePCs
<1>5. Has(t, c)'
  BY <1>2 DEF Has
<1>6. CASE putPDP({d})
  <2>1. state'[c] = state[c]
    BY <1>1, <1>6 DEF putPDP
  <2>2. SetupUses(t)'
    BY <1>1, <1>2, <2>1 DEF SetupUses
  <2> QED BY <1>1, <1>2, <1>4, <1>5, <1>6, <2>2, PutEntries DEF OwingPCs
<1>7. CASE /\ UNCHANGED state
           /\ secondary' = IF thread[t].linked THEN [secondary EXCEPT ![c] = d, ![d] = c] ELSE secondary
           /\ happened' = IF thread[t].linked THEN happened ELSE after("unlinked")
  <2>1. happened' # after("unlinked")
    BY DEF Unless, after
  <2>2. secondary' = [secondary EXCEPT ![c] = d, ![d] = c]
    BY <1>7, <2>1
  <2>3. secondary'[c] = d /\ \A x \in Cids \ {c, d} : secondary'[x] = secondary[x]
    BY <1>1, <2>2 DEF TypeOK
  <2>4. Has(t, d)'
    BY <1>2, <2>3 DEF Has
  <2>5. SetupUses(t)'
    BY <1>1, <1>2, <1>7 DEF SetupUses
  <2> QED BY <1>3, <1>4, <1>5, <1>7, <2>3, <2>4, <2>5, HoldsOn
<1> QED BY <1>0, <1>6, <1>7 DEF Second

LEMMA ErrorEntries ==
  ASSUME TypeOK, NEW t \in Threads, AtTable(t), TablesOf(t), EntriesOf(t), Error(t)
  PROVE  EntriesOf(t)'
<1>1. /\ thread[t] \in Locals /\ thread \in [Threads -> Locals] /\ thread[t].pc = "error"
      /\ thread[t].index \in SomeCid
  BY Places DEF TypeOK, Error, At
<1>2. UNCHANGED client /\ thread'[t].pc = "tell"
  BY <1>1 DEF Error, Goto, outside, Locals
<1>3. SetupUses(t)' /\ \A x \in Cids : ~ Has(t, x)
  BY <1>1, <1>2 DEF SetupUses, Has, ReleasePCs
<1>4. CASE thread[t].index = NoCid
  <2>1. UNCHANGED <<state, secondary>>
    BY <1>4 DEF Error, pdp
  <2>2. \A x \in Cids : users(x)' = users(x)
    BY <1>2, UsersKept
  <2> QED BY <1>3, <2>1, <2>2, HoldsOn
<1>5. CASE thread[t].index # NoCid
  <2>1. PICK c \in Cids : c = thread[t].index /\ c # NoCid
    BY <1>1, <1>5 DEF SomeCid
  <2>2. cid[c] # "own" /\ secondary[c] = NoCid
    BY <1>1, <2>1 DEF TablesOf, SetupHas, Links
  <2>3. {c, secondary[c]} \ {NoCid} = {c}
    BY <2>1, <2>2
  <2>4. putPDP({c})
    BY <1>5, <2>1, <2>3 DEF Error
  <2> QED BY <1>1, <1>2, <1>3, <2>2, <2>4, PutEntries DEF OwingPCs
<1> QED BY <1>4, <1>5

LEMMA TellEntries ==
  ASSUME TypeOK, NEW t \in Threads, AtTable(t), TablesOf(t), EntriesOf(t), Tell(t)
  PROVE  EntriesOf(t)'
<1>1. thread[t].pc = "tell" /\ t \in {Setup, Bip}
  BY Places DEF Tell, At, SetupPCs
<1>2. UNCHANGED <<state, secondary, client>>
  BY DEF Tell, outside
<1>3. thread'[t] = Returned(t)
  BY DEF Tell, SignalAndGo
<1>4. thread'[t].pc \in {"rest", "result"}
  BY <1>1, <1>3, Returns DEF Rest
<1>5. SetupUses(t)' /\ \A x \in Cids : ~ Has(t, x)
  BY <1>1, <1>4 DEF SetupUses, Has, ReleasePCs
<1>6. \A x \in Cids : users(x)' = users(x)
  BY <1>2, UsersKept
<1> QED BY <1>2, <1>5, <1>6, HoldsOn

\* a thread keeps the pair of entries that it holds
LEMMA HoldsSame ==
  ASSUME TypeOK, NEW t \in Threads, AtTable(t), EntriesOf(t), UNCHANGED <<state, secondary, client>>,
         thread[t].pc \in {"done", "list"} \cup ReleasePCs, thread'[t].pc \in {"list"} \cup ReleasePCs,
         thread'[t].index = thread[t].index, SetupUses(t)'
  PROVE  EntriesOf(t)'
<1>1. \A x \in Cids : Has(t, x) => Has(t, x)'
  BY DEF Has, ReleasePCs
<1>2. \A x \in Cids : users(x)' = users(x)
  BY UsersKept
<1> QED BY <1>1, <1>2, HoldsOn

LEMMA DoneEntries ==
  ASSUME TypeOK, NEW t \in Threads, AtTable(t), EntriesOf(t), Done(t)
  PROVE  EntriesOf(t)'
<1>1. thread[t] \in Locals /\ thread[t].pc = "done"
  BY DEF TypeOK, Done, At
<1>2. UNCHANGED <<state, secondary, client, active>>
  BY DEF Done, outside
<1>3. thread'[t].pc = "list" /\ thread'[t].index = thread[t].index
  BY <1>1 DEF Done, SignalAndGo, Locals
<1>4. SetupUses(t)'
  BY <1>1, <1>2, <1>3 DEF SetupUses, EntriesOf
<1> QED BY <1>1, <1>2, <1>3, <1>4, HoldsSame

LEMMA LeaveEntries ==
  ASSUME TypeOK, NEW t \in Threads, AtTable(t), EntriesOf(t), Leave(t)
  PROVE  EntriesOf(t)'
<1>1. thread \in [Threads -> Locals] /\ thread[t] \in Locals /\ thread[t].pc = "leave"
  BY DEF TypeOK, Leave, At
<1>2. UNCHANGED <<state, secondary, client>>
  BY DEF Leave, pdp, outside
<1>3. thread'[t].pc = "store" /\ thread'[t].index = thread[t].index
  BY <1>1 DEF Leave, Locals
<1>4. SetupUses(t)'
  BY <1>3 DEF SetupUses
<1> QED BY <1>1, <1>2, <1>3, <1>4, HoldsSame DEF ReleasePCs

LEMMA LeaveStoreEntries ==
  ASSUME TypeOK, NEW t \in Threads, AtTable(t), EntriesOf(t), LeaveStore(t)
  PROVE  EntriesOf(t)'
<1>1. thread \in [Threads -> Locals] /\ thread[t] \in Locals /\ thread[t].pc = "store"
  BY DEF TypeOK, LeaveStore, At
<1>2. UNCHANGED <<state, secondary, client>>
  BY DEF LeaveStore, pdp, outside
<1>3. thread'[t].pc = "last" /\ thread'[t].index = thread[t].index
  BY <1>1 DEF LeaveStore, Locals
<1>4. SetupUses(t)'
  BY <1>3 DEF SetupUses
<1> QED BY <1>1, <1>2, <1>3, <1>4, HoldsSame DEF ReleasePCs

LEMMA DeactivateEntries ==
  ASSUME TypeOK, NEW t \in Threads, AtTable(t), EntriesOf(t), Deactivate(t)
  PROVE  EntriesOf(t)'
<1>1. thread \in [Threads -> Locals] /\ thread[t] \in Locals /\ thread[t].pc = "deactivate"
  BY DEF TypeOK, Deactivate, At
<1>2. UNCHANGED <<state, secondary, client>>
  BY DEF Deactivate, pdp, outside
<1>3. thread'[t].pc = "free" /\ thread'[t].index = thread[t].index
  BY <1>1 DEF Deactivate, Goto, Locals
<1>4. SetupUses(t)'
  BY <1>3 DEF SetupUses
<1> QED BY <1>1, <1>2, <1>3, <1>4, HoldsSame DEF ReleasePCs

\* linked entries are used together
LEMMA UsedTogether ==
  ASSUME TypeOK, NEW c \in Cids, NEW x \in Cids, x = c \/ x = secondary[c], Links(c), users(c) > 0
  PROVE  Used(x)
<1>1. c = x \/ c = secondary[x]
  BY NoCidIsNone DEF Links
<1> QED BY <1>1 DEF Used

LEMMA LastEntries ==
  ASSUME TypeOK, NEW t \in Threads, AtTable(t), TablesOf(t), EntriesOf(t), Last(t)
  PROVE  EntriesOf(t)'
<1>0. PICK c \in Cids : At(t, "last") /\ c = thread[t].index
  BY Places DEF Last, At, Fits, WithIndex, ReleasePCs
<1>1. thread \in [Threads -> Locals] /\ thread[t] \in Locals /\ thread[t].pc = "last"
  BY <1>0 DEF TypeOK, At
<1>2. UNCHANGED <<state, secondary, client>>
  BY DEF Last, pdp, outside
<1>3. CASE state[c] = "IDLE" \/ count[c] # 0
  <2>1. thread'[t].pc = "rest"
    BY <1>0, <1>1, <1>3 DEF Last, Rest
  <2>2. SetupUses(t)'
    BY <2>1 DEF SetupUses
  <2>3. count[c] = users(c) /\ users(c) \in Nat /\ Links(c)
    <3>1. Owed(c) = 0
      BY <1>1, OwedAtTable DEF OwingPCs
    <3>2. users(c) \in Nat
      BY DEF users, TypeOK
    <3> QED BY <3>1, <3>2, CountedAtTable DEF TablesOf
  <2>4. ASSUME NEW x \in Cids, state[x] = "BUSY", Has(t, x) PROVE Used(x)
    <3>1. x = c \/ x = secondary[c]
      BY <1>0, <1>1, <2>4 DEF Has
    <3>2. state[c] # "IDLE"
      BY <2>3, <2>4, <3>1, NoCidIsNone DEF Links
    <3> QED BY <1>3, <2>3, <3>1, <3>2, UsedTogether
  <2>5. \A x \in Cids : users(x)' = users(x)
    BY <1>2, UsersKept
  <2> QED BY <1>2, <2>2, <2>4, <2>5, HoldsOn
<1>4. CASE ~ (state[c] = "IDLE" \/ count[c] # 0)
  <2>1. thread'[t].pc = "deactivate" /\ thread'[t].index = thread[t].index
    BY <1>0, <1>1, <1>4 DEF Last, Locals
  <2>2. SetupUses(t)'
    BY <2>1 DEF SetupUses
  <2> QED BY <1>1, <1>2, <2>1, <2>2, HoldsSame DEF ReleasePCs
<1> QED BY <1>3, <1>4

LEMMA FreeEntries ==
  ASSUME TypeOK, NEW t \in Threads, AtTable(t), TablesOf(t), EntriesOf(t), Free(t)
  PROVE  EntriesOf(t)'
<1>0. PICK c \in Cids, d \in SomeCid : At(t, "free") /\ c = thread[t].index /\ d = thread[t].second
  BY Places DEF Free, At, Fits, WithIndex, ReleasePCs
<1> DEFINE cs == {c, d} \ {NoCid}
<1>1. thread \in [Threads -> Locals] /\ thread[t] \in Locals /\ thread[t].pc = "free"
  BY <1>0 DEF TypeOK, At
<1>2. UNCHANGED client /\ putPDP(cs) /\ thread'[t].pc = "rest"
  BY <1>0, <1>1 DEF Free, outside, Rest
<1>3. count[c] = 0 /\ d = secondary[c] /\ (d # NoCid => count[d] = 0)
  BY <1>0, <1>1 DEF TablesOf, SetupHas, ReleasePCs
<1>4. ASSUME NEW x \in cs PROVE x \in Cids /\ users(x) = 0
  <2>1. x \in Cids /\ count[x] = 0
    BY <1>3 DEF SomeCid
  <2>2. Owed(x) = 0
    BY <1>1, OwedAtTable DEF OwingPCs
  <2>3. count[x] = users(x) + Owed(x) /\ users(x) \in Nat
    BY <2>1, CountedAtTable DEF TablesOf, users, TypeOK
  <2> QED BY <2>1, <2>2, <2>3
<1>5. ASSUME NEW x \in Cids \ cs PROVE secondary'[x] = secondary[x] /\ state'[x] = state[x]
  <2>1. x # NoCid
    BY NoCidIsNone
  <2>2. \A y \in cs : secondary[y] # x
    <3>1. secondary[c] # x
      BY <1>3, <1>5, <2>1
    <3>2. d \in Cids => secondary[d] # x
      <4>1. d \in Cids => secondary[d] = c
        BY <1>3, NoCidIsNone DEF TablesOf, Links
      <4>2. x # c
        BY <1>5, NoCidIsNone
      <4> QED BY <4>1, <4>2
    <3> QED BY <1>4, <3>1, <3>2
  <2>3. x \notin cs \cup {secondary[y] : y \in cs}
    BY <1>5, <2>2
  <2> HIDE DEF cs
  <2> QED BY <1>2, <1>5, <2>3 DEF putPDP
<1>6. \A x \in cs : state'[x] = "IDLE"
  BY <1>2, <1>4 DEF putPDP
<1>7. \A x \in Cids : Has(t, x) => x \in cs
  BY <1>0, <1>1, <1>3, NoCidIsNone DEF Has
<1>8. SetupUses(t)'
  BY <1>2 DEF SetupUses
<1>9. \A x \in Cids : users(x)' = users(x)
  BY <1>2, UsersKept
<1> HIDE DEF cs
<1> QED BY <1>4, <1>5, <1>6, <1>7, <1>8, <1>9, HoldsOn

LEMMA ListEntries ==
  ASSUME TypeOK, NEW t \in Threads, AtTable(t), TablesOf(t), EntriesOf(t), List(t),
         Unless({"overlap", "unread"})'
  PROVE  EntriesOf(t)'
<1>0. PICK c \in Cids : At(t, "list") /\ c = thread[t].index
  BY Places DEF List, At, Fits, WithIndex
<1>1. /\ thread \in [Threads -> Locals] /\ thread[t] \in Locals /\ thread[t].pc = "list"
      /\ t \in {Setup, Bip} /\ c # NoCid
  BY <1>0, Places, NoCidIsNone DEF TypeOK, At, SetupPCs
<1>2. UNCHANGED s_openchannelCid /\ s_openchannelCid = c
  BY <1>0, <1>1 DEF List, TablesOf, SetupHas
<1>3. IF c \in active
      THEN /\ client' = IF t = Setup THEN [client EXCEPT ![c] = @ + 1] ELSE client
           /\ UNCHANGED <<state, secondary>>
      ELSE putPDP({c, secondary[c]} \ {NoCid}) /\ UNCHANGED client
  <2>1. happened' # after("unread")
    BY DEF Unless, after
  <2> QED BY <1>0, <2>1 DEF List, pdp
<1>4. thread'[t] = Returned(t)
  BY <1>1 DEF List
<1>5. IF t = Bip THEN thread'[t].pc = "result" ELSE thread'[t].pc = "rest"
  BY <1>1, <1>4, Returns DEF Rest
<1>6. SetupUses(t)'
  BY <1>5 DEF SetupUses
<1>7. \A x \in Cids : Has(t, x) => x = c \/ x = secondary[c]
  BY <1>0, <1>1 DEF Has, ReleasePCs
<1>8. CASE c \notin active
  <2>1. cid[c] # "own" /\ secondary[c] = NoCid
    BY <1>0, <1>1, <1>8 DEF TablesOf, SetupHas, Links
  <2>2. {c, secondary[c]} \ {NoCid} = {c}
    BY <1>1, <2>1
  <2>3. putPDP({c}) /\ UNCHANGED client
    BY <1>3, <1>8, <2>2
  <2>4. \A x \in Cids \ {c} : ~ Has(t, x)
    BY <1>7, <2>1, NoCidIsNone
  <2> QED BY <1>0, <1>1, <1>2, <1>5, <1>6, <2>1, <2>3, <2>4, PutEntries DEF OwingPCs
<1>9. CASE c \in active
  <2>1. UNCHANGED <<state, secondary>> /\ state[c] = "BUSY"
    BY <1>0, <1>1, <1>3, <1>9 DEF EntriesOf, SetupUses
  <2>2. CASE t = Bip
    <3>1. \A x \in Cids : users(x)' = users(x)
      BY <1>3, <1>9, <2>2, UsersKept DEF Setup, Bip
    <3>2. \A x \in Cids : Has(t, x) => Has(t, x)'
      BY <1>1, <1>2, <1>5, <1>7, <2>1, <2>2 DEF Has
    <3> QED BY <1>6, <2>1, <3>1, <3>2, HoldsOn
  <2>3. CASE t = Setup
    <3>1. thread'[Bip] = thread[Bip]
      BY <2>3 DEF AtTable, Threads, Setup, Bip
    <3>2. \A x \in Cids : client'[x] = IF x = c THEN client[x] + 1 ELSE client[x]
      BY <1>3, <1>9, <2>3 DEF TypeOK
    <3>3. ASSUME NEW x \in Cids
          PROVE  users(x)' = (IF x = c THEN users(x) + 1 ELSE users(x)) /\ users(x) \in Nat
      BY <3>1, <3>2 DEF users, At, TypeOK
    <3>4. ASSUME NEW x \in Cids, users(x)' > 0 PROVE state'[x] = "BUSY"
      BY <2>1, <3>3, <3>4 DEF EntriesOf
    <3>5. ASSUME NEW x \in Cids, state'[x] = "BUSY" PROVE Used(x)'
      <4>1. CASE Used(x)
        <5>1. PICK d \in Cids : (d = x \/ d = secondary[x]) /\ users(d) > 0
          BY <4>1 DEF Used
        <5>2. users(d)' > 0
          BY <3>3, <5>1
        <5> QED BY <2>1, <5>1, <5>2 DEF Used
      <4>2. CASE Has(t, x)
        <5>1. c = x \/ c = secondary[x]
          BY <1>7, <4>2, NoCidIsNone DEF TablesOf, Links
        <5>2. users(c)' > 0
          BY <3>3
        <5> QED BY <2>1, <5>1, <5>2 DEF Used
      <4> QED BY <2>1, <3>5, <4>1, <4>2 DEF EntriesOf
    <3> QED BY <1>6, <3>4, <3>5 DEF EntriesOf
  <2> QED BY <1>1, <2>2, <2>3
<1> QED BY <1>8, <1>9

\* the entries, whoever is at the table
EntriesHold ==
  /\ \A c \in Cids : users(c) > 0 => state[c] = "BUSY"
  /\ \A c \in Cids : state[c] = "BUSY" => Used(c) \/ \E t \in Threads : Has(t, c)
  /\ \A t \in Threads : SetupUses(t)

\* where a thread has no entry in hand
FreePCs == {"rest", "open", "look", "retry", "lock", "waiting", "share", "shared"}

LEMMA HasNone ==
  ASSUME NEW t, thread[t].pc \in FreePCs
  PROVE  SetupUses(t) /\ \A c \in Cids : ~ Has(t, c)
  BY DEF FreePCs, SetupUses, Has, ReleasePCs

LEMMA StepEntries ==
  ASSUME TypeOK, OneAtTable, TablesHold, EntriesHold, NEW t \in Threads, Step(t), [Next]_vars,
         Unless(BusyExcuses)'
  PROVE  EntriesHold'
<1>1. Unless({"overlap"}) /\ Unless({"overlap", "fallback"})' /\ Unless({"overlap", "unlinked"})'
      /\ Unless({"overlap", "unread"})'
  <2>1. Unless(BusyExcuses)
    BY UnlessKept DEF BusyExcuses, CountExcuses
  <2> QED BY <2>1 DEF Unless, BusyExcuses, CountExcuses
<1>2. AtTable(t)
  BY <1>1, AloneStep, StepShape DEF AtTable
<1>3. TablesOf(t)
  BY DEF TablesHold, TablesOf
<1>4. EntriesOf(t)
  <2>1. \A u \in Threads \ {t} : \A c \in Cids : ~ Has(u, c)
    BY <1>2, HasNone DEF AtTable, FreePCs
  <2> QED BY <2>1 DEF EntriesHold, EntriesOf
<1>5. EntriesOf(t)'
  BY <1>1, <1>2, <1>3, <1>4, RetryEntries, TakeEntries, ReuseEntries, GetEntries, ActivateEntries,
     PutBackEntries, UnusableEntries, FallbackEntries, GetSecondEntries, SecondEntries, DoneEntries,
     ListEntries, ErrorEntries, TellEntries, LeaveEntries, LeaveStoreEntries, LastEntries,
     DeactivateEntries, FreeEntries DEF Step
<1>6. \A u \in Threads \ {t} : SetupUses(u)'
  <2>1. \A u \in Threads \ {t} : thread'[u].pc \in {"rest", "open"}
    BY <1>2 DEF AtTable
  <2> QED BY <2>1 DEF SetupUses
<1> QED BY <1>5, <1>6 DEF EntriesHold, EntriesOf

\* when no thread holds an entry
LEMMA QuietEntries ==
  ASSUME EntriesHold, \A t \in Threads : thread[t].pc \in FreePCs
  PROVE  \A c \in Cids : state[c] = "BUSY" => Used(c)
<1>1. \A t \in Threads : \A c \in Cids : ~ Has(t, c)
  BY HasNone
<1> QED BY <1>1 DEF EntriesHold

\* nothing changes for the entries
LEMMA EntriesStay ==
  ASSUME \A c \in Cids : state[c] = "BUSY" => Used(c), \A c \in Cids : users(c) > 0 => state[c] = "BUSY",
         UNCHANGED <<state, secondary>>, \A c \in Cids : users(c)' = users(c),
         \A t \in Threads : thread'[t].pc \in FreePCs
  PROVE  EntriesHold'
<1>1. ASSUME NEW c \in Cids, Used(c) PROVE Used(c)'
  BY <1>1 DEF Used
<1>2. \A t \in Threads : SetupUses(t)'
  BY DEF SetupUses, FreePCs
<1>3. \A c \in Cids : users(c)' > 0 => state'[c] = "BUSY"
  OBVIOUS
<1> QED BY <1>1, <1>2, <1>3 DEF EntriesHold

\* a context that is used, and the one linked to it, get one more user
LEMMA EntriesShared ==
  ASSUME \A c \in Cids : state[c] = "BUSY" => (Used(c) \/ Has(Bip, c)),
         \A c \in Cids : users(c) > 0 => state[c] = "BUSY",
         UNCHANGED <<state, secondary>>, NEW c \in Cids, state[c] = "BUSY", Links(c),
         \A x \in Cids : users(x)' = (IF x = c THEN users(x) + 1 ELSE users(x)) /\ users(x) \in Nat,
         \A x \in Cids : Has(Bip, x) => x = c \/ x = secondary[c],
         \A t \in Threads : thread'[t].pc \in {"rest", "open"}
  PROVE  EntriesHold'
<1>1. ASSUME NEW x \in Cids, Used(x) PROVE Used(x)'
  BY <1>1 DEF Used
<1>2. ASSUME NEW x \in Cids, Has(Bip, x) PROVE Used(x)'
  <2>1. c = x \/ c = secondary[x]
    BY <1>2, NoCidIsNone DEF Links
  <2>2. users(c)' > 0
    OBVIOUS
  <2> QED BY <2>1, <2>2 DEF Used
<1>3. \A t \in Threads : SetupUses(t)'
  BY DEF SetupUses
<1>4. \A x \in Cids : users(x)' > 0 => state'[x] = "BUSY"
  OBVIOUS
<1> QED BY <1>1, <1>2, <1>3, <1>4 DEF EntriesHold

\* a user leaves a context, and its thread holds the entry and the linked one
LEMMA EntriesLeft ==
  ASSUME \A c \in Cids : state[c] = "BUSY" => Used(c), \A c \in Cids : users(c) > 0 => state[c] = "BUSY",
         UNCHANGED <<state, secondary>>, NEW t \in Threads, NEW c \in Cids, \A x \in Cids : Links(x),
         \A x \in Cids : users(x)' = (IF x = c THEN users(x) - 1 ELSE users(x)) /\ users(x) \in Nat,
         thread'[t].pc = "leave", thread'[t].index = c,
         \A u \in Threads \ {t} : thread'[u].pc \in {"rest", "open"}
  PROVE  EntriesHold'
<1>1. ASSUME NEW x \in Cids, Used(x) PROVE Used(x)' \/ Has(t, x)'
  <2>1. PICK d \in Cids : (d = x \/ d = secondary[x]) /\ users(d) > 0
    BY <1>1 DEF Used
  <2>2. CASE d = c
    <3>1. x = c \/ x = secondary[c]
      BY <2>1, <2>2, NoCidIsNone DEF Links
    <3> QED BY <3>1 DEF Has, ReleasePCs
  <2>3. CASE d # c
    BY <2>1, <2>3 DEF Used
  <2> QED BY <2>2, <2>3
<1>2. \A u \in Threads : SetupUses(u)'
  BY DEF SetupUses
<1>3. \A x \in Cids : users(x)' > 0 => state'[x] = "BUSY"
  OBVIOUS
<1> QED BY <1>1, <1>2, <1>3 DEF EntriesHold

LEMMA StartsEntries ==
  ASSUME TypeOK, TablesHold, EntriesHold, Starts, \A t \in Threads : ~ busy(t)
  PROVE  EntriesHold'
<1>1. /\ thread \in [Threads -> Locals] /\ Setup \in Threads /\ Release \in Threads /\ Bip \in Threads
      /\ Bip # Setup /\ Bip # Release
      /\ \A t \in Threads : thread[t].pc \in {"rest", "open"}
  BY DEF TypeOK, Threads, Setup, Release, Bip, busy
<1>2. /\ \A c \in Cids : state[c] = "BUSY" => Used(c)
      /\ \A c \in Cids : users(c) > 0 => state[c] = "BUSY"
  BY <1>1, QuietEntries DEF FreePCs, EntriesHold
<1>3. \A c \in Cids : Links(c)
  BY DEF TablesHold
<1>4. CASE ClientSetsUp
  <2>1. UNCHANGED <<state, secondary, client>>
    BY <1>4 DEF ClientSetsUp, pdp
  <2>2. thread'[Setup].pc = "retry" /\ \A t \in Threads \ {Setup} : thread'[t] = thread[t]
    BY <1>1, <1>4 DEF ClientSetsUp, Goto, Locals
  <2>3. \A c \in Cids : users(c)' = users(c)
    BY <1>1, <2>1, <2>2 DEF users, At
  <2> QED BY <1>1, <1>2, <2>1, <2>2, <2>3, EntriesStay DEF FreePCs
<1>5. CASE BipOpens
  <2>1. UNCHANGED <<state, secondary, client>> /\ At(Bip, "rest")
    BY <1>5 DEF BipOpens, pdp
  <2>2. thread'[Bip].pc = "look" /\ \A t \in Threads \ {Bip} : thread'[t] = thread[t]
    BY <1>1, <1>5 DEF BipOpens, Goto, Locals
  <2>3. \A c \in Cids : users(c)' = users(c)
    BY <2>1, <2>2 DEF users, At
  <2> QED BY <1>1, <1>2, <2>1, <2>2, <2>3, EntriesStay DEF FreePCs
<1>6. CASE BipCloses
  <2>1. UNCHANGED <<state, secondary, client>> /\ At(Bip, "open")
    BY <1>6 DEF BipCloses, pdp, outside
  <2>2. PICK c \in Cids : c = thread[Bip].index
    BY <1>1, <2>1, Places DEF At, Fits, WithIndex
  <2>3. /\ thread'[Bip].pc = "leave" /\ thread'[Bip].index = c
        /\ \A t \in Threads \ {Bip} : thread'[t] = thread[t]
    BY <1>1, <1>6, <2>2 DEF BipCloses, Goto, Locals
  <2>4. ASSUME NEW x \in Cids
        PROVE  users(x)' = (IF x = c THEN users(x) - 1 ELSE users(x)) /\ users(x) \in Nat
    <3>1. client'[x] = client[x] /\ client[x] \in Nat
      BY <2>1 DEF TypeOK
    <3>2. users(x) = client[x] + (IF x = c THEN 1 ELSE 0)
      BY <2>1, <2>2 DEF users, At
    <3>3. users(x)' = client'[x]
      BY <2>3, <3>1 DEF users, At
    <3> QED BY <3>1, <3>2, <3>3
  <2> QED BY <1>1, <1>2, <1>3, <2>1, <2>3, <2>4, EntriesLeft
<1>7. ASSUME NEW c \in Cids, ClientReleases(c) PROVE EntriesHold'
  <2> DEFINE r == [Rest EXCEPT !.pc = "leave", !.index = c]
  <2>1. /\ UNCHANGED <<state, secondary>>
        /\ client' = [client EXCEPT ![c] = @ - 1]
        /\ thread' = [thread EXCEPT ![Release] = r]
    BY <1>7, Zenon DEF ClientReleases, pdp
  <2>2. r.pc = "leave" /\ r.index = c
    BY DEF Rest
  <2> HIDE DEF r
  <2>3. /\ thread'[Release].pc = "leave" /\ thread'[Release].index = c
        /\ \A t \in Threads \ {Release} : thread'[t] = thread[t]
    BY <1>1, <2>1, <2>2
  <2>4. ASSUME NEW x \in Cids
        PROVE  users(x)' = (IF x = c THEN users(x) - 1 ELSE users(x)) /\ users(x) \in Nat
    <3>1. thread'[Bip] = thread[Bip]
      BY <1>1, <2>3
    <3>2. client'[x] = (IF x = c THEN client[x] - 1 ELSE client[x]) /\ client[x] \in Nat
      BY <2>1 DEF TypeOK
    <3> QED BY <3>1, <3>2 DEF users, At
  <2> QED BY <1>1, <1>2, <1>3, <2>1, <2>3, <2>4, EntriesLeft
<1> QED BY <1>4, <1>5, <1>6, <1>7 DEF Starts

LEMMA CardLooksEntries ==
  ASSUME TypeOK, EntriesHold, BipLooks \/ BipWaits \/ BipShares,
         \A u \in Threads \ {Bip} : thread[u].pc \in {"rest", "open"}
  PROVE  EntriesHold'
<1>1. /\ thread \in [Threads -> Locals] /\ Bip \in Threads /\ thread[Bip] \in Locals
      /\ thread[Bip].pc \in {"look", "lock", "share"}
  BY DEF TypeOK, Threads, BipLooks, BipWaits, BipShares, At
<1>2. UNCHANGED <<state, secondary, client>>
  BY DEF BipLooks, BipWaits, BipShares, pdp, outside
<1>3. \A u \in Threads \ {Bip} : thread'[u] = thread[u]
  BY <1>1 DEF BipLooks, BipWaits, BipShares, Goto
<1>4. thread'[Bip].pc \in {"retry", "share", "lock", "waiting", "shared"}
  <2>1. ASSUME NEW place, Goto(Bip, place) PROVE thread'[Bip].pc = place
    BY <1>1, <2>1 DEF Goto, Locals
  <2>2. ASSUME NEW c, NEW place, thread' = [thread EXCEPT ![Bip].pc = place, ![Bip].index = c]
        PROVE  thread'[Bip].pc = place
    BY <1>1, <2>2 DEF Locals
  <2>3. CASE BipLooks
    <3>1. ASSUME NEW c, thread' = [thread EXCEPT ![Bip].pc = IF pdpState[c] THEN "share" ELSE "lock", ![Bip].index = c]
          PROVE  thread'[Bip].pc \in {"share", "lock"}
      BY <1>1, <3>1 DEF Locals
    <3> QED BY <2>1, <2>3, <3>1 DEF BipLooks
  <2>4. CASE BipWaits
    BY <2>1, <2>4 DEF BipWaits
  <2>5. CASE BipShares
    BY <1>1, <2>5 DEF BipShares, Locals
  <2> QED BY <2>3, <2>4, <2>5
<1>5. \A c \in Cids : users(c)' = users(c)
  BY <1>1, <1>2, <1>4 DEF users, At
<1>6. /\ \A t \in Threads : thread[t].pc \in FreePCs
      /\ \A t \in Threads : thread'[t].pc \in FreePCs
  BY <1>1, <1>3, <1>4 DEF FreePCs
<1> QED BY <1>2, <1>5, <1>6, QuietEntries, EntriesStay DEF EntriesHold

LEMMA BipSharedEntries ==
  ASSUME TypeOK, TablesHold, EntriesHold, BipShared,
         \A u \in Threads \ {Bip} : thread[u].pc \in {"rest", "open"}
  PROVE  EntriesHold'
<1>1. /\ thread \in [Threads -> Locals] /\ Bip \in Threads /\ thread[Bip] \in Locals
      /\ thread[Bip].pc = "shared"
  BY DEF TypeOK, Threads, BipShared, At
<1>2. PICK c \in Cids : c = thread[Bip].index
  BY <1>1, Places DEF Fits, WithIndex
<1>3. UNCHANGED <<state, secondary, client>>
  BY DEF BipShared, pdp, outside
<1>4. /\ \A u \in Threads \ {Bip} : thread'[u] = thread[u]
      /\ thread'[Bip].pc = "open" /\ thread'[Bip].index = c
  BY <1>1, <1>2 DEF BipShared, Locals
<1>5. state[c] = "BUSY" /\ Links(c)
  BY <1>1, <1>2 DEF TablesHold, CardHas, EntriesHold
<1>6. \A x \in Cids : users(x)' = (IF x = c THEN users(x) + 1 ELSE users(x)) /\ users(x) \in Nat
  BY <1>1, <1>3, <1>4 DEF users, At, TypeOK
<1>7. \A t \in Threads : thread[t].pc \in FreePCs
  BY <1>1 DEF FreePCs
<1>8. \A x \in Cids : ~ Has(Bip, x)
  BY <1>1, <1>7, HasNone
<1>9. \A t \in Threads : thread'[t].pc \in {"rest", "open"}
  BY <1>4
<1> QED BY <1>3, <1>5, <1>6, <1>7, <1>8, <1>9, QuietEntries, EntriesShared DEF EntriesHold

LEMMA BipSetUpEntries ==
  ASSUME TypeOK, TablesHold, EntriesHold, BipSetUp, Unless(CountExcuses)',
         \A u \in Threads \ {Bip} : thread[u].pc \in {"rest", "open"}
  PROVE  EntriesHold'
<1>1. thread \in [Threads -> Locals] /\ Bip \in Threads /\ thread[Bip].pc = "result"
  BY DEF TypeOK, Threads, BipSetUp, At
<1>2. UNCHANGED <<state, secondary, client>>
  BY DEF BipSetUp, pdp, outside
<1>3. \A x \in Cids : state[x] = "BUSY" => Used(x) \/ Has(Bip, x)
  <2>1. \A u \in Threads \ {Bip} : \A x \in Cids : ~ Has(u, x)
    BY HasNone DEF FreePCs
  <2> QED BY <2>1 DEF EntriesHold
<1>4. CASE s_openchannelCid = NoCid
  <2>1. thread'[Bip].pc = "rest" /\ \A u \in Threads \ {Bip} : thread'[u] = thread[u]
    BY <1>1, <1>4 DEF BipSetUp, Rest
  <2>2. \A x \in Cids : users(x)' = users(x)
    BY <1>1, <1>2, <2>1 DEF users, At
  <2>3. \A x \in Cids : ~ Has(Bip, x)
    BY <1>1, <1>4 DEF Has, ReleasePCs
  <2>4. \A t \in Threads : thread'[t].pc \in FreePCs
    BY <2>1 DEF FreePCs
  <2> QED BY <1>2, <1>3, <2>2, <2>3, <2>4, EntriesStay DEF EntriesHold
<1>5. CASE s_openchannelCid # NoCid
  <2>1. PICK c \in Cids : c = s_openchannelCid
    BY <1>5 DEF TypeOK, SomeCid
  <2> DEFINE r == [Rest EXCEPT !.pc = "open", !.index = c]
  <2>2. r.pc = "open" /\ r.index = c
    BY DEF Rest
  <2>3. thread' = [thread EXCEPT ![Bip] = r]
    BY <1>5, <2>1, Zenon DEF BipSetUp
  <2>4. state[c] = "BUSY"
    <3>1. state[c] # "IDLE"
      BY <1>5, <2>1 DEF BipSetUp, Unless, CountExcuses, after
    <3> QED BY <2>1, <3>1 DEF TypeOK
  <2> HIDE DEF r
  <2>5. /\ \A u \in Threads \ {Bip} : thread'[u] = thread[u]
        /\ thread'[Bip].pc = "open" /\ thread'[Bip].index = c
    BY <1>1, <2>2, <2>3
  <2>6. \A x \in Cids : users(x)' = (IF x = c THEN users(x) + 1 ELSE users(x)) /\ users(x) \in Nat
    BY <1>1, <1>2, <2>5 DEF users, At, TypeOK
  <2>7. \A x \in Cids : Has(Bip, x) => x = c \/ x = secondary[c]
    BY <1>1, <2>1 DEF Has, ReleasePCs
  <2>8. \A t \in Threads : thread'[t].pc \in {"rest", "open"}
    BY <2>5
  <2>9. Links(c)
    BY DEF TablesHold
  <2> QED BY <1>2, <1>3, <2>4, <2>6, <2>7, <2>8, <2>9, EntriesShared DEF EntriesHold
<1> QED BY <1>4, <1>5

LEMMA EntriesStep == TypeOK /\ OneAtTable /\ Counter /\ Tables /\ Entries /\ [Next]_vars => Entries'
<1> SUFFICES ASSUME TypeOK, OneAtTable, Counter, Tables, Entries, [Next]_vars, Unless(BusyExcuses)'
             PROVE  EntriesHold'
  BY DEF Entries, EntriesHold
<1>1. Unless(BusyExcuses)
  BY UnlessKept DEF BusyExcuses, CountExcuses
<1>2. /\ Unless({"overlap"}) /\ Unless({"overlap", "dropped"}) /\ Unless(CountExcuses) /\ Unless(CountExcuses)'
      /\ "overlap" \notin happened' /\ "dropped" \notin happened'
  BY <1>1 DEF Unless, BusyExcuses, CountExcuses
<1>3. TablesHold /\ EntriesHold
  BY <1>1, <1>2 DEF Tables, TablesHold, Entries, EntriesHold
<1>4. ASSUME NEW t \in Threads, Step(t) PROVE EntriesHold'
  BY <1>3, <1>4, StepEntries
<1>5. CASE Starts
  <2>1. \A t \in Threads : ~ busy(t)
    BY <1>2, <1>5, StartsAlone
  <2> QED BY <1>3, <1>5, <2>1, StartsEntries
<1>6. ASSUME busy(Bip) PROVE \A u \in Threads \ {Bip} : thread[u].pc \in {"rest", "open"}
  BY <1>2, <1>6, Alone DEF Threads
<1>7. CASE BipLooks \/ BipWaits \/ BipShares \/ BipShared \/ BipSetUp
  <2>1. busy(Bip)
    BY <1>7 DEF BipLooks, BipWaits, BipShares, BipShared, BipSetUp, At, busy
  <2> QED BY <1>2, <1>3, <1>6, <1>7, <2>1, CardLooksEntries, BipSharedEntries, BipSetUpEntries
<1>8. ASSUME NEW c \in Cids, NetworkDrops(c) PROVE FALSE
  BY <1>2, <1>8 DEF NetworkDrops, after
<1>9. ~ ReadCEND
  BY <1>2 DEF Counter, ReadCEND
<1>10. CASE UNCHANGED vars
  <2>1. UNCHANGED <<state, secondary, s_openchannelCid, active, thread, client>>
    BY <1>10 DEF vars, pdp, globals, outside
  <2>2. \A c \in Cids : users(c)' = users(c)
    BY <2>1 DEF users, At
  <2>3. \A t \in Threads : SetupUses(t)'
    BY <1>3, <2>1, <2>2 DEF EntriesHold, SetupUses
  <2>4. \A c \in Cids : Used(c) => Used(c)'
    BY <2>1, <2>2 DEF Used
  <2>5. ASSUME NEW t \in Threads, NEW c \in Cids, Has(t, c) PROVE Has(t, c)'
    BY <2>1, <2>5 DEF Has
  <2> QED BY <1>3, <2>1, <2>2, <2>3, <2>4, <2>5 DEF EntriesHold
<1> QED BY <1>4, <1>5, <1>7, <1>8, <1>9, <1>10 DEF Next, Starts

-----------------------------------------------------------------------------
(* The invariant and what follows from it. *)

LEMMA InitEntries == Init => Entries
<1> SUFFICES ASSUME Init PROVE EntriesHold
  BY DEF Entries, EntriesHold
<1>1. thread[Bip].pc = "rest" /\ \A t \in Threads : thread[t].pc = "rest"
  BY DEF Init, Rest, Threads
<1>2. \A c \in Cids : users(c) = 0 /\ state[c] = "IDLE"
  BY <1>1 DEF users, At, Init
<1>3. \A t \in Threads : SetupUses(t)
  BY <1>1 DEF SetupUses
<1> QED BY <1>2, <1>3 DEF EntriesHold

LEMMA CallsInvariant == Spec => []CallsInv
<1>1. Init => CallsInv
  BY InitTypes, InitTables, InitEntries DEF CallsInv
<1>2. CallsInv /\ [Next]_vars => CallsInv'
  BY TypeStep, LookedStep, OneStep, CounterStep, TablesStep, EntriesStep DEF CallsInv
<1> QED BY <1>1, <1>2, PTL DEF Spec

(* Whatever the threads, the modem and the network do, every variable of    *)
(* ril_data.c keeps its range: no thread works on an entry outside s_PDP,  *)
(* no count is negative and a thread that is at rest has let go of its     *)
(* locals.                                                                 *)
THEOREM TypeCorrect == Spec => []TypeOK
<1>1. CallsInv => TypeOK
  BY DEF CallsInv
<1> QED BY <1>1, CallsInvariant, PTL

(* The count that decides in deactivateDataConnection who is the last to   *)
(* leave a context is the number of its users whenever no thread is at the *)
(* table, with the excuses of UsersCounted.                                *)
THEOREM CountsUsers == Spec => []UsersCounted
<1>1. CallsInv => UsersCounted
  <2> SUFFICES ASSUME CallsInv, quiet, Unless(CountExcuses), NEW c \in Cids PROVE count[c] = usersOf(c)
    BY DEF UsersCounted, CountExcuses
  <2>1. TypeOK /\ TablesHold
    BY DEF CallsInv, Tables, TablesHold
  <2>2. \A t \in Threads : ~ busy(t)
    BY DEF quiet
  <2> QED BY <2>1, <2>2, QuietTable, UsersCount
<1> QED BY <1>1, CallsInvariant, PTL

(* When no thread is at the table an entry of s_PDP is busy exactly if     *)
(* someone uses its context or the one it is linked to, with the excuses   *)
(* of BusyIsUsed: getPDP and putPDP are balanced on every path of          *)
(* requestSetupDataCall and deactivateDataConnection.                      *)
THEOREM EntriesBalance == Spec => []BusyIsUsed
<1>1. CallsInv => BusyIsUsed
  <2> SUFFICES ASSUME CallsInv, quiet, Unless(BusyExcuses), NEW c \in Cids
               PROVE  state[c] = "BUSY" <=> \E d \in {c, secondary[c]} \ {NoCid} : usersOf(d) > 0
    BY DEF BusyIsUsed, BusyExcuses, CountExcuses
  <2>1. Unless(CountExcuses)
    BY DEF Unless, BusyExcuses
  <2>2. TypeOK /\ TablesHold /\ EntriesHold
    BY <2>1 DEF CallsInv, Tables, TablesHold, Entries, EntriesHold
  <2>3. \A t \in Threads : thread[t].pc \in FreePCs
    BY DEF quiet, busy, FreePCs
  <2>4. ASSUME state[c] = "BUSY" PROVE \E d \in {c, secondary[c]} \ {NoCid} : users(d) > 0
    <3>1. Used(c)
      BY <2>2, <2>3, <2>4, QuietEntries
    <3> QED BY <3>1, NoCidIsNone DEF Used
  <2>5. ASSUME NEW d \in {c, secondary[c]} \ {NoCid}, users(d) > 0 PROVE state[c] = "BUSY"
    <3>1. d \in Cids
      BY <2>2 DEF TypeOK, SomeCid
    <3>2. CASE d = c
      BY <2>2, <2>5, <3>2 DEF EntriesHold
    <3>3. CASE d = secondary[c]
      <4>1. state[c] # "IDLE"
        BY <2>2, <3>1, <3>3, NoCidIsNone DEF TablesHold, Links
      <4> QED BY <2>2, <4>1 DEF TypeOK
    <3> QED BY <3>2, <3>3
  <2> QED BY <2>4, <2>5, UsersCount
<1> QED BY <1>1, CallsInvariant, PTL

(* The thread of the card does not wait on s_signalBipPdpCond for a set-up *)
(* that is over, unless it has missed the signal between its look at       *)
(* pdpState and its wait.                                                  *)
THEOREM WaiterWoken == Spec => []WaiterIsWoken
<1>1. CallsInv => WaiterIsWoken
  <2> SUFFICES ASSUME CallsInv, At(Bip, "waiting"), "missed" \notin happened
               PROVE  LET c == thread[Bip].index IN
                      ~ pdpState[c] /\ (Unless({"overlap", "dropped"}) => count[c] = 0)
    BY DEF WaiterIsWoken
  <2>1. PICK c \in Cids : c = thread[Bip].index
    BY Places DEF CallsInv, At, Fits, WithIndex, Threads
  <2>2. ~ pdpState[c]
    BY <2>1 DEF CallsInv, LookedBefore, At
  <2>3. Unless({"overlap", "dropped"}) => count[c] = 0
    BY <2>1, <2>2 DEF CallsInv, Counter
  <2> QED BY <2>1, <2>2, <2>3
<1> QED BY <1>1, CallsInvariant, PTL

-----------------------------------------------------------------------------
(* Who uses a context keeps it.  What follows holds whatever the network   *)
(* drops and whatever the modem fails to answer: a count may then be too   *)
(* high, but it is never too low while the context is active.              *)

KeptExcuses == {"overlap", "stale", "ended", "dead", "second", "fallback"}

PartnerUnused(c) == \A d \in Cids : d = secondary[c] => users(d) = 0

KeepsEntry(c) ==
  /\ users(c) > 0 => state[c] = "BUSY" /\ PartnerUnused(c)
  /\ count[c] >= users(c) \/ (c \notin active /\ client[c] = 0)
  /\ state[c] = "IDLE" => secondary[c] = NoCid
  /\ secondary[c] # NoCid => secondary[c] # c /\ secondary[secondary[c]] = c

\* who leaves c, or is about to get it from a set-up, is counted besides its users
OneMore(c) == count[c] > users(c) \/ (users(c) = 0 /\ c \notin active)

SearchPCs == EarlyPCs \ {"tell"}

(* What holds of the context that the thread t has in hand, of the bearer  *)
(* that it takes and of the second context.                                *)
KeepsIndex(t) ==
  \A c \in Cids : c = thread[t].index =>
    /\ thread[t].pc \in SearchPCs => users(c) = 0 /\ secondary[c] = NoCid
    /\ thread[t].pc = "activate" => state[c] = "BUSY"
    /\ thread[t].pc = "put" => c \notin active
    /\ thread[t].pc \in {"getSecond", "second"} => users(c) = 0 /\ secondary[c] = NoCid /\ state[c] = "BUSY"
    /\ thread[t].pc \in {"done", "list"} => (c \in active => state[c] = "BUSY")
    /\ thread[t].pc \in {"done", "list"} \cup ReleasePCs => PartnerUnused(c)
    /\ thread[t].pc \in {"done", "last"} => count[c] >= users(c)
    /\ thread[t].pc \in {"leave", "store", "list"} => OneMore(c)
    /\ thread[t].pc = "store" => thread[t].seen = count[c] \/ users(c) = 0
    /\ thread[t].pc \in {"deactivate", "free"} => users(c) = 0
    /\ thread[t].pc = "list" => s_openchannelCid = c

KeepsBearer(t) ==
  \A b \in Cids : b = thread[t].bearer =>
    /\ thread[t].pc \in {"take", "reuse"} => users(b) = 0 /\ secondary[b] = NoCid
    /\ thread[t].pc = "reuse" => state[b] = "BUSY"

KeepsSecond(t) ==
  \A d \in Cids : d = thread[t].second =>
    /\ thread[t].pc = "second" =>
         d # thread[t].index /\ users(d) = 0 /\ secondary[d] = NoCid /\ state[d] = "BUSY"
    /\ thread[t].pc \in {"deactivate", "free"} => users(d) = 0

KeepsAt(t) == KeepsIndex(t) /\ KeepsBearer(t) /\ KeepsSecond(t)

CardKeeps ==
  /\ thread[Bip].pc \in EarlyPCs => s_openchannelCid = NoCid
  /\ thread[Bip].pc = "result" =>
       \A c \in Cids : c = s_openchannelCid /\ state[c] = "BUSY" => OneMore(c) /\ PartnerUnused(c)
  /\ thread[Bip].pc = "shared" =>
       \A c \in Cids : c = thread[Bip].index => client[c] > 0 /\ thread[Bip].seen >= users(c)
  /\ thread[Bip].pc \in {"shared", "open"} => channel[thread[Bip].index] # "CLOSE"
  /\ \A x \in Cids : channel[x] # "CLOSE" => thread[Bip].pc \in {"shared", "open"} /\ thread[Bip].index = x

KeepsOf(t) ==
  /\ \A c \in Cids : KeepsEntry(c)
  /\ KeepsAt(t)
  /\ CardKeeps

KeepsHold ==
  /\ \A c \in Cids : KeepsEntry(c)
  /\ \A t \in Threads : KeepsAt(t)
  /\ CardKeeps

Keeps == Unless(KeptExcuses) => KeepsHold

LEMMA UsersNat == ASSUME TypeOK, NEW c \in Cids PROVE users(c) \in Nat
  BY DEF TypeOK, users

LEMMA EntriesKeep ==
  ASSUME TypeOK, TypeOK', \A c \in Cids : KeepsEntry(c), \A c \in Cids : users(c)' = users(c),
         UNCHANGED <<secondary, client>>,
         \A c \in Cids : count'[c] = count[c] \/ count'[c] >= users(c),
         \A c \in Cids : c \in active' => c \in active \/ users(c) = 0,
         \A c \in Cids : state'[c] = state[c] \/ (users(c) = 0 /\ secondary[c] = NoCid)
  PROVE  \A c \in Cids : KeepsEntry(c)'
<1> SUFFICES ASSUME NEW c \in Cids PROVE KeepsEntry(c)'
  OBVIOUS
<1>1. users(c) \in Nat /\ users(c)' = users(c) /\ count'[c] \in Nat /\ KeepsEntry(c)
  BY UsersNat DEF TypeOK
<1>2. users(c) > 0 => state'[c] = "BUSY" /\ PartnerUnused(c)'
  BY <1>1 DEF KeepsEntry, PartnerUnused
<1>3. count'[c] >= users(c) \/ (c \notin active' /\ client'[c] = 0)
  BY <1>1 DEF KeepsEntry
<1>4. /\ state'[c] = "IDLE" => secondary'[c] = NoCid
      /\ secondary'[c] # NoCid => secondary'[c] # c /\ secondary'[secondary'[c]] = c
  BY <1>1 DEF KeepsEntry
<1> QED BY <1>1, <1>2, <1>3, <1>4 DEF KeepsEntry

LEMMA EntriesKeepPut ==
  ASSUME TypeOK, TypeOK', \A c \in Cids : KeepsEntry(c), NEW cs \in SUBSET Cids, putPDP(cs),
         UNCHANGED client, active' \subseteq active,
         \A c \in Cids : users(c)' <= users(c), \A c \in cs : users(c)' = 0
  PROVE  \A c \in Cids : KeepsEntry(c)'
<1> SUFFICES ASSUME NEW c \in Cids PROVE KeepsEntry(c)'
  OBVIOUS
<1>1. /\ KeepsEntry(c)
      /\ \A x \in Cids : users(x) \in Nat /\ users(x)' \in Nat
  BY UsersNat DEF TypeOK, users
<1>2. CASE c \in cs
  <2>1. count'[c] = 0 /\ secondary'[c] = NoCid /\ users(c)' = 0
    BY <1>2 DEF putPDP
  <2> QED BY <2>1 DEF KeepsEntry
<1>3. CASE c \notin cs
  <2>1. /\ state'[c] = state[c] /\ count'[c] = count[c]
        /\ secondary'[c] = secondary[c] \/ secondary'[c] = NoCid
    BY <1>3 DEF putPDP
  <2>2. ASSUME users(c)' > 0 PROVE state'[c] = "BUSY" /\ PartnerUnused(c)'
    <3>1. users(c) > 0 /\ state[c] = "BUSY" /\ PartnerUnused(c)
      BY <1>1, <2>2 DEF KeepsEntry
    <3>2. ASSUME NEW d \in Cids, d = secondary'[c] PROVE users(d)' = 0
      <4>1. users(d) = 0
        BY <2>1, <3>1, <3>2, NoCidIsNone DEF PartnerUnused
      <4> QED BY <1>1, <4>1
    <3> QED BY <2>1, <3>1, <3>2 DEF PartnerUnused
  <2>3. count'[c] >= users(c)' \/ (c \notin active' /\ client'[c] = 0)
    <3>1. count[c] \in Nat /\ users(c)' <= users(c)
      BY DEF TypeOK
    <3> QED BY <1>1, <2>1, <3>1 DEF KeepsEntry
  <2>4. state'[c] = "IDLE" => secondary'[c] = NoCid
    BY <1>1, <2>1 DEF KeepsEntry
  <2>5. ASSUME secondary'[c] # NoCid PROVE secondary'[c] # c /\ secondary'[secondary'[c]] = c
    <3>1. PICK d \in Cids : d = secondary[c] /\ d = secondary'[c]
      BY <2>1, <2>5 DEF TypeOK, SomeCid
    <3>2. d # c /\ secondary[d] = c
      BY <1>1, <3>1, NoCidIsNone DEF KeepsEntry
    <3>3. c \notin {secondary[x] : x \in cs}
      BY <2>5 DEF putPDP
    <3>4. d \notin cs
      BY <3>2, <3>3
    <3>5. d \notin {secondary[x] : x \in cs}
      <4>1. ASSUME NEW x \in cs, secondary[x] = d PROVE FALSE
        <5>1. x \in Cids /\ KeepsEntry(x)
          OBVIOUS
        <5>2. secondary[d] = x
          BY <4>1, <5>1, NoCidIsNone DEF KeepsEntry
        <5> QED BY <1>3, <3>2, <5>2
      <4> QED BY <4>1
    <3>6. secondary'[d] = c
      BY <3>2, <3>4, <3>5 DEF putPDP
    <3> QED BY <3>1, <3>2, <3>6
  <2> QED BY <2>2, <2>3, <2>4, <2>5 DEF KeepsEntry
<1> QED BY <1>2, <1>3

LEMMA CardKeepsOn ==
  ASSUME NEW t \in Threads, AtTable(t), CardKeeps,
         t = Bip /\ thread'[Bip].pc \in EarlyPCs => s_openchannelCid' = NoCid,
         thread'[t].pc = "result" =>
           \A c \in Cids : c = s_openchannelCid' /\ state'[c] = "BUSY" => OneMore(c)' /\ PartnerUnused(c)'
  PROVE  CardKeeps'
<1>1. CASE t # Bip
  BY <1>1 DEF AtTable, CardKeeps, Threads, EarlyPCs
<1>2. CASE t = Bip
  BY <1>2 DEF AtTable, CardKeeps, EarlyPCs, AtTablePCs, EndPCs, SetupPCs, ReleasePCs
<1> QED BY <1>1, <1>2

LEMMA RetryKeeps ==
  ASSUME TypeOK, TypeOK', NEW t \in Threads, AtTable(t), KeepsOf(t), Retry(t)
  PROVE  KeepsOf(t)'
<1>1. /\ thread[t] \in Locals /\ thread \in [Threads -> Locals] /\ thread[t].pc = "retry"
      /\ \A c \in Cids : users(c) \in Nat /\ KeepsEntry(c)
  BY UsersNat DEF TypeOK, Retry, At, KeepsOf
<1>2. UNCHANGED <<state, secondary, count, s_openchannelCid, active, client>>
  BY DEF Retry, pdp, openchannel, outside
<1>3. \A c \in Cids : users(c)' = users(c)
  BY <1>2, UsersKept
<1>4. CASE Goto(t, "get")
  <2>1. thread'[t] = [thread[t] EXCEPT !.pc = "get"]
    BY <1>1, <1>4 DEF Goto
  <2>2. thread'[t].pc = "get" /\ thread'[t].index = thread[t].index
    BY <1>1, <2>1 DEF Locals
  <2> QED BY <1>1, <1>2, <1>3, <2>2, EntriesKeep, CardKeepsOn
          DEF KeepsOf, KeepsAt, KeepsIndex, KeepsBearer, KeepsSecond, CardKeeps, SearchPCs, EarlyPCs, ReleasePCs
<1>5. ASSUME NEW b \in active, state[b] = "IDLE", thread' = [thread EXCEPT ![t].pc = "take", ![t].bearer = b]
      PROVE  KeepsOf(t)'
  <2>1. thread'[t].pc = "take" /\ thread'[t].bearer = b /\ thread'[t].index = thread[t].index /\ b \in Cids
    BY <1>1, <1>5 DEF Locals, TypeOK
  <2>2. users(b) = 0 /\ secondary[b] = NoCid
    BY <1>1, <1>5, <2>1 DEF KeepsEntry
  <2> QED BY <1>1, <1>2, <1>3, <2>1, <2>2, EntriesKeep, CardKeepsOn
          DEF KeepsOf, KeepsAt, KeepsIndex, KeepsBearer, KeepsSecond, CardKeeps, SearchPCs, EarlyPCs, ReleasePCs
<1>6. ASSUME NEW c \in active, state[c] = "BUSY", channel[c] # "CLOSE",
             thread' = [thread EXCEPT ![t].pc = "done", ![t].index = c]
      PROVE  KeepsOf(t)'
  <2>1. thread'[t].pc = "done" /\ thread'[t].index = c /\ c \in Cids
    BY <1>1, <1>6 DEF Locals, TypeOK
  <2>2. thread[Bip].pc = "open" /\ thread[Bip].index = c
    BY <1>1, <1>6, <2>1 DEF KeepsOf, CardKeeps, AtTable, Threads
  <2>3. users(c) > 0
    BY <2>1, <2>2 DEF users, At, TypeOK
  <2>4. PartnerUnused(c) /\ count[c] >= users(c)
    BY <1>1, <1>6, <2>1, <2>3 DEF KeepsEntry
  <2>5. PartnerUnused(c)'
    BY <1>2, <1>3, <2>4 DEF PartnerUnused
  <2>6. KeepsAt(t)'
    BY <1>2, <1>3, <1>6, <2>1, <2>4, <2>5 DEF KeepsAt, KeepsIndex, KeepsBearer, KeepsSecond, SearchPCs, EarlyPCs, ReleasePCs
  <2>7. CardKeeps'
    BY <2>1, CardKeepsOn DEF KeepsOf, EarlyPCs
  <2> QED BY <1>2, <1>3, <1>1, <2>6, <2>7, EntriesKeep DEF KeepsOf
<1> QED BY <1>4, <1>5, <1>6 DEF Retry

LEMMA TakeKeeps ==
  ASSUME TypeOK, TypeOK', NEW t \in Threads, AtTable(t), KeepsOf(t), Take(t)
  PROVE  KeepsOf(t)'
<1>1. /\ thread[t] \in Locals /\ thread \in [Threads -> Locals] /\ thread[t].pc = "take"
      /\ thread[t].bearer \in Cids
  BY Places DEF TypeOK, Take, At, Fits
<1>2. UNCHANGED <<secondary, count, s_openchannelCid, active, client>>
  BY DEF Take, openchannel, globals, outside
<1>3. /\ thread'[t].pc = "reuse" /\ thread'[t].index = thread[t].index
      /\ thread'[t].bearer = thread[t].bearer
  BY <1>1 DEF Take, Goto, Locals
<1>4. state' = [state EXCEPT ![thread[t].bearer] = "BUSY"] /\ state'[thread[t].bearer] = "BUSY"
  BY <1>1 DEF Take, TypeOK
<1>5. \A c \in Cids : users(c)' = users(c)
  BY <1>2, UsersKept
<1>6. \A b \in Cids : b = thread[t].bearer => users(b) = 0 /\ secondary[b] = NoCid
  BY <1>1 DEF KeepsOf, KeepsAt, KeepsBearer
<1>7. KeepsAt(t)'
  BY <1>1, <1>2, <1>3, <1>4, <1>5, <1>6
     DEF KeepsOf, KeepsAt, KeepsIndex, KeepsBearer, KeepsSecond, SearchPCs, EarlyPCs, ReleasePCs
<1>8. CardKeeps'
  <2>1. t = Bip => s_openchannelCid = NoCid
    BY <1>1 DEF KeepsOf, CardKeeps, EarlyPCs
  <2> QED BY <1>2, <1>3, <2>1, CardKeepsOn DEF KeepsOf
<1>9. \A c \in Cids : state'[c] = state[c] \/ (users(c) = 0 /\ secondary[c] = NoCid)
  BY <1>1, <1>4, <1>6 DEF TypeOK
<1> QED BY <1>2, <1>5, <1>7, <1>8, <1>9, EntriesKeep DEF KeepsOf

LEMMA ReuseKeeps ==
  ASSUME TypeOK, TypeOK', NEW t \in Threads, AtTable(t), KeepsOf(t), Reuse(t)
  PROVE  KeepsOf(t)'
<1>1. /\ thread[t] \in Locals /\ thread \in [Threads -> Locals] /\ thread[t].pc = "reuse"
      /\ thread[t].bearer \in Cids
  BY Places, ReuseAnswers DEF TypeOK, At, Fits
<1>2. UNCHANGED <<secondary, count, client>>
  BY ReuseAnswers, Zenon DEF openchannel, outside
<1>3. PICK b \in Cids : b = thread[t].bearer
  BY <1>1
<1>4. PICK i \in SomeCid : i = thread[t].index
  BY <1>1, Places
<1>5. /\ users(b) = 0 /\ secondary[b] = NoCid /\ state[b] = "BUSY"
      /\ i # NoCid => users(i) = 0 /\ secondary[i] = NoCid
      /\ t = Bip => s_openchannelCid = NoCid
  BY <1>1, <1>3, <1>4
     DEF KeepsOf, KeepsAt, KeepsIndex, KeepsBearer, CardKeeps, SearchPCs, EarlyPCs, SomeCid
<1>6. \A c \in Cids : users(c)' = users(c)
  BY <1>2, UsersKept
<1>7. ASSUME NEW next, ReuseUp(t, next), next.pc \in {"done", "getSecond"}, next.index = b
      PROVE  KeepsOf(t)'
  <2>1. thread'[t] = next /\ active' = active \cup {b} /\ UNCHANGED state
    BY <1>1, <1>3, <1>7 DEF ReuseUp
  <2>2. count[b] >= 0 /\ b # NoCid
    BY NoCidIsNone DEF TypeOK
  <2>3. KeepsAt(t)'
    BY <1>2, <1>5, <1>6, <1>7, <2>1, <2>2, NoCidIsNone
       DEF KeepsAt, KeepsIndex, KeepsBearer, KeepsSecond, PartnerUnused, SearchPCs, EarlyPCs, ReleasePCs
  <2>4. CardKeeps'
    BY <1>7, <2>1, CardKeepsOn DEF KeepsOf, EarlyPCs
  <2> QED BY <1>2, <1>5, <1>6, <2>1, <2>3, <2>4, EntriesKeep DEF KeepsOf
<1>8. ASSUME NEW next, ReuseFails(t, next), next.pc \in {"get", "retry", "error"}, next.index = i
      PROVE  KeepsOf(t)'
  <2>1. /\ thread'[t] = next /\ active' \subseteq active /\ UNCHANGED s_openchannelCid
        /\ state' = [state EXCEPT ![b] = "IDLE"]
    BY <1>1, <1>3, <1>8 DEF ReuseFails
  <2>2. KeepsAt(t)'
    BY <1>2, <1>5, <1>6, <1>8, <2>1, NoCidIsNone
       DEF KeepsAt, KeepsIndex, KeepsBearer, KeepsSecond, SearchPCs, EarlyPCs, ReleasePCs
  <2>3. CardKeeps'
    BY <1>5, <1>8, <2>1, CardKeepsOn DEF KeepsOf
  <2>4. \A c \in Cids : state'[c] = state[c] \/ (users(c) = 0 /\ secondary[c] = NoCid)
    BY <1>5, <2>1 DEF TypeOK
  <2> QED BY <1>2, <1>6, <2>1, <2>2, <2>3, <2>4, EntriesKeep DEF KeepsOf
<1>9. /\ ReuseDone(t).pc = "done" /\ ReuseDone(t).index = b
      /\ \A l \in BOOLEAN : ReuseSecond(t, l).pc = "getSecond" /\ ReuseSecond(t, l).index = b
      /\ ReuseGet(t).pc = "get" /\ ReuseGet(t).index = i
      /\ ReuseError(t).pc = "error" /\ ReuseError(t).index = i
      /\ Again(t).pc \in {"get", "retry"} /\ Again(t).index = i
  BY <1>1, <1>3, <1>4, ReuseGoes, AgainGoes
<1>10. CASE ReuseUp(t, ReuseDone(t))
  BY <1>7, <1>9, <1>10
<1>11. ASSUME NEW l \in BOOLEAN, ReuseUp(t, ReuseSecond(t, l)) PROVE KeepsOf(t)'
  BY <1>7, <1>9, <1>11
<1>12. CASE ReuseFails(t, ReuseGet(t)) \/ ReuseFails(t, Again(t)) \/ ReuseFails(t, ReuseError(t))
  BY <1>8, <1>9, <1>12
<1> QED BY <1>10, <1>11, <1>12, ReuseAnswers, Zenon

\* what getPDP gives is nobody's
LEMMA FirstUnused ==
  ASSUME TypeOK, \A c \in Cids : KeepsEntry(c), free # {}
  PROVE  first \in Cids /\ state[first] = "IDLE" /\ users(first) = 0 /\ secondary[first] = NoCid
<1>1. PICK c \in Cids : c = first /\ state[c] = "IDLE"
  BY FirstIsFree DEF free
<1>2. users(c) = 0 /\ secondary[c] = NoCid
  BY <1>1, UsersNat DEF KeepsEntry
<1> QED BY <1>1, <1>2

LEMMA GetKeeps ==
  ASSUME TypeOK, TypeOK', NEW t \in Threads, AtTable(t), KeepsOf(t), Get(t)
  PROVE  KeepsOf(t)'
<1>1. /\ thread[t] \in Locals /\ thread \in [Threads -> Locals] /\ thread[t].pc = "get"
      /\ t = Bip => s_openchannelCid = NoCid
  BY DEF TypeOK, Get, At, KeepsOf, CardKeeps, EarlyPCs
<1>2. UNCHANGED <<secondary, count, s_openchannelCid, active, client>>
  BY DEF Get, openchannel, globals, outside
<1>3. \A c \in Cids : users(c)' = users(c)
  BY <1>2, UsersKept
<1>4. CASE free = {}
  <2>1. thread'[t].pc = "error" /\ thread'[t].index = NoCid /\ UNCHANGED state
    BY <1>1, <1>4 DEF Get, Locals
  <2>2. KeepsAt(t)'
    BY <2>1, NoCidIsNone DEF KeepsAt, KeepsIndex, KeepsBearer, KeepsSecond, ReleasePCs
  <2>3. CardKeeps'
    BY <1>1, <1>2, <2>1, CardKeepsOn DEF KeepsOf
  <2> QED BY <1>2, <1>3, <2>1, <2>2, <2>3, EntriesKeep DEF KeepsOf
<1>5. CASE free # {}
  <2>1. PICK c \in Cids : c = first /\ users(c) = 0 /\ secondary[c] = NoCid
    BY <1>5, FirstUnused DEF KeepsOf
  <2>2. /\ thread'[t].pc = "activate" /\ thread'[t].index = c
        /\ state' = [state EXCEPT ![c] = "BUSY"] /\ state'[c] = "BUSY"
    BY <1>1, <1>5, <2>1 DEF Get, Locals, TypeOK
  <2>3. KeepsAt(t)'
    BY <1>2, <1>3, <2>1, <2>2
       DEF KeepsAt, KeepsIndex, KeepsBearer, KeepsSecond, SearchPCs, EarlyPCs, ReleasePCs
  <2>4. CardKeeps'
    BY <1>1, <1>2, <2>2, CardKeepsOn DEF KeepsOf
  <2>5. \A x \in Cids : state'[x] = state[x] \/ (users(x) = 0 /\ secondary[x] = NoCid)
    BY <2>1, <2>2 DEF TypeOK
  <2> QED BY <1>2, <1>3, <2>3, <2>4, <2>5, EntriesKeep DEF KeepsOf
<1> QED BY <1>4, <1>5

LEMMA ActivateKeeps ==
  ASSUME TypeOK, TypeOK', NEW t \in Threads, AtTable(t), KeepsOf(t), Activate(t)
  PROVE  KeepsOf(t)'
<1>1. /\ thread[t] \in Locals /\ thread \in [Threads -> Locals] /\ thread[t].pc = "activate"
      /\ thread[t].index \in Cids
      /\ t = Bip => s_openchannelCid = NoCid
  BY Places DEF TypeOK, Activate, At, Fits, WithIndex, KeepsOf, CardKeeps, EarlyPCs
<1>2. PICK c \in Cids : c = thread[t].index
  BY <1>1
<1>3. UNCHANGED <<state, secondary, count, s_openchannelCid, client>>
  BY DEF Activate, pdp, outside
<1>4. \A x \in Cids : users(x)' = users(x)
  BY <1>3, UsersKept
<1>5. users(c) = 0 /\ secondary[c] = NoCid /\ state[c] = "BUSY" /\ count[c] >= 0 /\ c # NoCid
  BY <1>1, <1>2, NoCidIsNone DEF TypeOK, KeepsOf, KeepsAt, KeepsIndex, SearchPCs, EarlyPCs
<1>6. /\ thread'[t].index = c
      /\ \/ thread'[t].pc \in {"done", "getSecond"} /\ active' = active \cup {c}
         \/ thread'[t].pc = "put" /\ active' = active \ {c}
  BY <1>1, <1>2 DEF Activate, Goto, Locals
<1>7. KeepsAt(t)'
  BY <1>3, <1>4, <1>5, <1>6, NoCidIsNone
     DEF KeepsAt, KeepsIndex, KeepsBearer, KeepsSecond, PartnerUnused, SearchPCs, EarlyPCs, ReleasePCs
<1>8. CardKeeps'
  BY <1>1, <1>3, <1>6, CardKeepsOn DEF KeepsOf
<1> QED BY <1>3, <1>4, <1>5, <1>6, <1>7, <1>8, EntriesKeep DEF KeepsOf

LEMMA PutBackKeeps ==
  ASSUME TypeOK, TypeOK', NEW t \in Threads, AtTable(t), KeepsOf(t), PutBack(t)
  PROVE  KeepsOf(t)'
<1>1. /\ thread[t] \in Locals /\ thread \in [Threads -> Locals] /\ thread[t].pc = "put"
      /\ thread[t].index \in Cids
      /\ t = Bip => s_openchannelCid = NoCid
  BY Places DEF TypeOK, PutBack, At, Fits, WithIndex, KeepsOf, CardKeeps, EarlyPCs
<1>2. PICK c \in Cids : c = thread[t].index
  BY <1>1
<1>3. putPDP({c}) /\ UNCHANGED <<s_openchannelCid, active, client>>
  BY <1>2 DEF PutBack, globals, outside
<1>4. \A x \in Cids : users(x)' = users(x) /\ users(x) \in Nat
  BY <1>3, UsersKept, UsersNat
<1>5. users(c) = 0 /\ c \notin active
  BY <1>1, <1>2 DEF KeepsOf, KeepsAt, KeepsIndex, SearchPCs, EarlyPCs
<1>6. secondary'[c] = NoCid /\ count'[c] = 0 /\ c # NoCid
  BY <1>3, NoCidIsNone DEF putPDP
<1>7. thread'[t].index = c /\ thread'[t].pc \in {"error", "unusable", "fallback", "retry", "get", "done"}
  <2>1. Again(t).pc \in {"retry", "get"} /\ Again(t).index = c
    BY <1>1, <1>2, AgainGoes
  <2> QED BY <1>1, <1>2, <2>1 DEF PutBack, Goto, Locals
<1>8. KeepsAt(t)'
  BY <1>3, <1>4, <1>5, <1>6, <1>7, NoCidIsNone
     DEF KeepsAt, KeepsIndex, KeepsBearer, KeepsSecond, PartnerUnused, SearchPCs, EarlyPCs, ReleasePCs
<1>9. CardKeeps'
  BY <1>1, <1>3, <1>7, CardKeepsOn DEF KeepsOf
<1>10. \A x \in Cids : users(x)' <= users(x)
  BY <1>4
<1> QED BY <1>3, <1>4, <1>5, <1>8, <1>9, <1>10, EntriesKeepPut DEF KeepsOf

LEMMA UnusableKeeps ==
  ASSUME TypeOK, TypeOK', NEW t \in Threads, AtTable(t), KeepsOf(t), Unusable(t)
  PROVE  KeepsOf(t)'
<1>1. /\ thread[t] \in Locals /\ thread \in [Threads -> Locals] /\ thread[t].pc = "unusable"
      /\ t = Bip => s_openchannelCid = NoCid
  BY DEF TypeOK, Unusable, At, KeepsOf, CardKeeps, EarlyPCs
<1>2. UNCHANGED <<state, secondary, count, s_openchannelCid, active, client>>
  BY DEF Unusable, openchannel, globals, outside
<1>3. \A c \in Cids : users(c)' = users(c)
  BY <1>2, UsersKept
<1>4. thread'[t].pc = "retry" /\ thread'[t].index = thread[t].index
  BY <1>1 DEF Unusable, Goto, Locals
<1>5. KeepsAt(t)'
  BY <1>1, <1>2, <1>3, <1>4
     DEF KeepsOf, KeepsAt, KeepsIndex, KeepsBearer, KeepsSecond, SearchPCs, EarlyPCs, ReleasePCs
<1>6. CardKeeps'
  BY <1>1, <1>2, <1>4, CardKeepsOn DEF KeepsOf
<1> QED BY <1>2, <1>3, <1>5, <1>6, EntriesKeep DEF KeepsOf

LEMMA FallbackKeeps ==
  ASSUME TypeOK, TypeOK', NEW t \in Threads, AtTable(t), KeepsOf(t), Fallback(t), Unless(KeptExcuses)'
  PROVE  KeepsOf(t)'
<1>1. /\ thread[t] \in Locals /\ thread \in [Threads -> Locals] /\ thread[t].pc = "fallback"
      /\ t = Bip => s_openchannelCid = NoCid
  BY DEF TypeOK, Fallback, At, KeepsOf, CardKeeps, EarlyPCs
<1>2. UNCHANGED <<state, secondary, count, s_openchannelCid, client>>
  BY DEF Fallback, openchannel, globals, outside
<1>3. active' \subseteq active /\ Goto(t, "error")
  <2>1. happened' # after("fallback")
    BY DEF Unless, KeptExcuses, after
  <2> QED BY <2>1 DEF Fallback
<1>4. \A c \in Cids : users(c)' = users(c)
  BY <1>2, UsersKept
<1>5. thread'[t].pc = "error" /\ thread'[t].index = thread[t].index
  BY <1>1, <1>3 DEF Goto, Locals
<1>6. KeepsAt(t)'
  BY <1>1, <1>2, <1>4, <1>5
     DEF KeepsOf, KeepsAt, KeepsIndex, KeepsBearer, KeepsSecond, SearchPCs, EarlyPCs, ReleasePCs
<1>7. CardKeeps'
  BY <1>1, <1>2, <1>5, CardKeepsOn DEF KeepsOf
<1> QED BY <1>2, <1>3, <1>4, <1>6, <1>7, EntriesKeep DEF KeepsOf

LEMMA GetSecondKeeps ==
  ASSUME TypeOK, TypeOK', NEW t \in Threads, AtTable(t), KeepsOf(t), GetSecond(t)
  PROVE  KeepsOf(t)'
<1>1. /\ thread[t] \in Locals /\ thread \in [Threads -> Locals] /\ thread[t].pc = "getSecond"
      /\ thread[t].index \in Cids
  BY Places DEF TypeOK, GetSecond, At, Fits, WithIndex
<1>2. PICK c \in Cids : c = thread[t].index
  BY <1>1
<1>3. UNCHANGED <<secondary, count, s_openchannelCid, active, client>>
  BY DEF GetSecond, openchannel, globals, outside
<1>4. \A x \in Cids : users(x)' = users(x)
  BY <1>3, UsersKept
<1>5. users(c) = 0 /\ secondary[c] = NoCid /\ state[c] = "BUSY" /\ count[c] >= 0
  BY <1>1, <1>2 DEF TypeOK, KeepsOf, KeepsAt, KeepsIndex
<1>6. CASE free = {}
  <2>1. thread'[t].pc = "done" /\ thread'[t].index = c /\ UNCHANGED state
    BY <1>1, <1>2, <1>6 DEF GetSecond, Locals
  <2>2. KeepsAt(t)'
    BY <1>3, <1>4, <1>5, <2>1, NoCidIsNone
       DEF KeepsAt, KeepsIndex, KeepsBearer, KeepsSecond, PartnerUnused, SearchPCs, EarlyPCs, ReleasePCs
  <2>3. CardKeeps'
    BY <2>1, CardKeepsOn DEF KeepsOf, EarlyPCs
  <2> QED BY <1>3, <1>4, <2>1, <2>2, <2>3, EntriesKeep DEF KeepsOf
<1>7. CASE free # {}
  <2>1. PICK d \in Cids : d = first /\ state[d] = "IDLE" /\ users(d) = 0 /\ secondary[d] = NoCid
    BY <1>7, FirstUnused DEF KeepsOf
  <2>2. /\ thread'[t].pc = "second" /\ thread'[t].index = c /\ thread'[t].second = d
        /\ state' = [state EXCEPT ![d] = "BUSY"] /\ state'[d] = "BUSY" /\ state'[c] = "BUSY"
    BY <1>1, <1>2, <1>5, <1>7, <2>1 DEF GetSecond, Locals, TypeOK
  <2>3. KeepsAt(t)'
    BY <1>3, <1>4, <1>5, <2>1, <2>2
       DEF KeepsAt, KeepsIndex, KeepsBearer, KeepsSecond, SearchPCs, EarlyPCs, ReleasePCs
  <2>4. CardKeeps'
    BY <2>2, CardKeepsOn DEF KeepsOf, EarlyPCs
  <2>5. \A x \in Cids : state'[x] = state[x] \/ (users(x) = 0 /\ secondary[x] = NoCid)
    BY <2>1, <2>2 DEF TypeOK
  <2> QED BY <1>3, <1>4, <2>3, <2>4, <2>5, EntriesKeep DEF KeepsOf
<1> QED BY <1>6, <1>7

LEMMA SecondKeeps ==
  ASSUME TypeOK, TypeOK', NEW t \in Threads, AtTable(t), KeepsOf(t), Second(t)
  PROVE  KeepsOf(t)'
<1>1. /\ thread[t] \in Locals /\ thread \in [Threads -> Locals] /\ thread[t].pc = "second"
      /\ thread[t].index \in Cids /\ thread[t].second \in Cids
  BY Places DEF TypeOK, Second, At, Fits, WithIndex
<1>2. PICK c \in Cids : c = thread[t].index
  BY <1>1
<1>3. PICK d \in Cids : d = thread[t].second
  BY <1>1
<1>4. UNCHANGED client
  BY DEF Second, outside
<1>5. \A x \in Cids : users(x)' = users(x) /\ users(x) \in Nat
  BY <1>4, UsersKept, UsersNat
<1>6. /\ users(c) = 0 /\ secondary[c] = NoCid /\ state[c] = "BUSY" /\ count[c] >= 0
      /\ d # c /\ users(d) = 0 /\ secondary[d] = NoCid /\ state[d] = "BUSY"
  BY <1>1, <1>2, <1>3 DEF TypeOK, KeepsOf, KeepsAt, KeepsIndex, KeepsSecond
<1>7. thread'[t].index = c /\ thread'[t].pc = "done"
  BY <1>1, <1>2 DEF Second, Locals
<1>8. CardKeeps'
  BY <1>7, CardKeepsOn DEF KeepsOf, EarlyPCs
<1>9. KeepsAt(t)' <=> (c \in active' => state'[c] = "BUSY") /\ PartnerUnused(c)' /\ count'[c] >= users(c)'
  BY <1>7 DEF KeepsAt, KeepsIndex, KeepsBearer, KeepsSecond, SearchPCs, EarlyPCs, ReleasePCs
<1>10. CASE putPDP({d}) /\ active' = active \ {d}
  <2>1. state'[c] = "BUSY" /\ secondary'[c] = NoCid /\ count'[c] = count[c]
    BY <1>6, <1>10 DEF putPDP
  <2>2. KeepsAt(t)'
    BY <1>5, <1>6, <1>9, <2>1, NoCidIsNone DEF PartnerUnused
  <2>3. \A x \in Cids : users(x)' <= users(x)
    BY <1>5
  <2> QED BY <1>4, <1>5, <1>6, <1>8, <1>10, <2>2, <2>3, EntriesKeepPut DEF KeepsOf
<1>11. CASE active' = active \cup {d} /\ UNCHANGED <<state, count, secondary>>
  <2>1. KeepsAt(t)'
    BY <1>5, <1>6, <1>9, <1>11, NoCidIsNone DEF PartnerUnused
  <2> QED BY <1>4, <1>5, <1>6, <1>8, <1>11, <2>1, EntriesKeep DEF KeepsOf
<1>12. CASE /\ active' = active \cup {d} /\ UNCHANGED <<state, count>>
            /\ secondary' = [secondary EXCEPT ![c] = d, ![d] = c]
  <2>1. /\ secondary'[c] = d /\ secondary'[d] = c
        /\ \A x \in Cids \ {c, d} : secondary'[x] = secondary[x]
    BY <1>6, <1>12 DEF TypeOK
  <2>2. KeepsAt(t)'
    BY <1>5, <1>6, <1>9, <1>12, <2>1 DEF PartnerUnused
  <2>3. ASSUME NEW x \in Cids PROVE KeepsEntry(x)'
    <3>1. users(x)' = users(x) /\ users(x) \in Nat /\ KeepsEntry(x) /\ count[x] \in Nat
      BY <1>5 DEF KeepsOf, TypeOK
    <3>2. CASE x \in {c, d}
      <4>1. users(x) = 0 /\ count'[x] >= 0 /\ state'[x] = "BUSY"
        BY <1>6, <1>12, <3>1, <3>2
      <4>2. secondary'[x] # x /\ secondary'[secondary'[x]] = x
        BY <1>6, <2>1, <3>2
      <4> QED BY <3>1, <4>1, <4>2 DEF KeepsEntry
    <3>3. CASE x \notin {c, d}
      <4>1. secondary'[x] = secondary[x]
        BY <2>1, <3>3
      <4>2. users(x) > 0 => state'[x] = "BUSY" /\ PartnerUnused(x)'
        BY <1>5, <1>12, <3>1, <4>1 DEF KeepsEntry, PartnerUnused
      <4>3. count'[x] >= users(x) \/ (x \notin active' /\ client'[x] = 0)
        BY <1>4, <1>12, <3>1, <3>3 DEF KeepsEntry
      <4>4. ASSUME secondary[x] # NoCid PROVE secondary'[x] # x /\ secondary'[secondary'[x]] = x
        <5>1. PICK y \in Cids : y = secondary[x]
          BY <4>4 DEF TypeOK, SomeCid
        <5>2. y # x /\ secondary[y] = x
          BY <3>1, <4>4, <5>1 DEF KeepsEntry
        <5>3. y \notin {c, d}
          BY <1>6, <5>2, NoCidIsNone
        <5> QED BY <2>1, <4>1, <5>1, <5>2, <5>3
      <4> QED BY <1>12, <3>1, <4>1, <4>2, <4>3, <4>4 DEF KeepsEntry
    <3> QED BY <3>2, <3>3
  <2> QED BY <1>8, <2>2, <2>3 DEF KeepsOf
<1>13. \/ putPDP({d}) /\ active' = active \ {d}
       \/ active' = active \cup {d} /\ UNCHANGED <<state, count, secondary>>
       \/ /\ active' = active \cup {d} /\ UNCHANGED <<state, count>>
          /\ secondary' = [secondary EXCEPT ![c] = d, ![d] = c]
  BY <1>2, <1>3 DEF Second
<1> QED BY <1>10, <1>11, <1>12, <1>13

LEMMA DoneKeeps ==
  ASSUME TypeOK, TypeOK', NEW t \in Threads, AtTable(t), KeepsOf(t), Done(t)
  PROVE  KeepsOf(t)'
<1>1. /\ thread[t] \in Locals /\ thread \in [Threads -> Locals] /\ thread[t].pc = "done"
      /\ thread[t].index \in Cids
  BY Places DEF TypeOK, Done, At, Fits, WithIndex
<1>2. PICK c \in Cids : c = thread[t].index
  BY <1>1
<1>3. UNCHANGED <<state, secondary, active, client>> /\ s_openchannelCid' = c
  BY <1>2 DEF Done, outside
<1>4. \A x \in Cids : users(x)' = users(x) /\ users(x) \in Nat
  BY <1>3, UsersKept, UsersNat
<1>5. (c \in active => state[c] = "BUSY") /\ PartnerUnused(c) /\ count[c] >= users(c) /\ count[c] \in Nat
  BY <1>1, <1>2 DEF KeepsOf, KeepsAt, KeepsIndex, TypeOK
<1>6. count'[c] = count[c] + 1 /\ \A x \in Cids \ {c} : count'[x] = count[x]
  BY <1>2 DEF Done, TypeOK
<1>7. thread'[t].pc = "list" /\ thread'[t].index = c
  BY <1>1, <1>2 DEF Done, SignalAndGo, Locals
<1>8. PartnerUnused(c)' /\ OneMore(c)'
  BY <1>3, <1>4, <1>5, <1>6 DEF PartnerUnused, OneMore
<1>9. KeepsAt(t)'
  BY <1>3, <1>5, <1>7, <1>8
     DEF KeepsAt, KeepsIndex, KeepsBearer, KeepsSecond, SearchPCs, EarlyPCs, ReleasePCs
<1>10. CardKeeps'
  BY <1>7, CardKeepsOn DEF KeepsOf, EarlyPCs
<1>11. \A x \in Cids : count'[x] = count[x] \/ count'[x] >= users(x)
  BY <1>4, <1>5, <1>6
<1> QED BY <1>3, <1>4, <1>9, <1>10, <1>11, EntriesKeep DEF KeepsOf

LEMMA TellKeeps ==
  ASSUME TypeOK, TypeOK', NEW t \in Threads, AtTable(t), KeepsOf(t), Tell(t)
  PROVE  KeepsOf(t)'
<1>1. /\ thread \in [Threads -> Locals] /\ thread[t].pc = "tell" /\ t \in {Setup, Bip}
      /\ t = Bip => s_openchannelCid = NoCid
  BY Places DEF TypeOK, Tell, At, SetupPCs, KeepsOf, CardKeeps, EarlyPCs
<1>2. UNCHANGED <<state, secondary, count, s_openchannelCid, active, client>>
  BY DEF Tell, globals, outside
<1>3. \A c \in Cids : users(c)' = users(c)
  BY <1>2, UsersKept
<1>4. thread'[t].pc = IF t = Bip THEN "result" ELSE "rest"
  <2>1. thread'[t] = Returned(t)
    BY <1>1 DEF Tell, SignalAndGo
  <2> QED BY <1>1, <2>1, Returns DEF Rest
<1>5. KeepsAt(t)'
  BY <1>4 DEF KeepsAt, KeepsIndex, KeepsBearer, KeepsSecond, SearchPCs, EarlyPCs, ReleasePCs
<1>6. CardKeeps'
  BY <1>1, <1>2, <1>4, NoCidIsNone, CardKeepsOn DEF KeepsOf, EarlyPCs
<1> QED BY <1>2, <1>3, <1>5, <1>6, EntriesKeep DEF KeepsOf

LEMMA ErrorKeeps ==
  ASSUME TypeOK, TypeOK', NEW t \in Threads, AtTable(t), KeepsOf(t), Error(t)
  PROVE  KeepsOf(t)'
<1>1. /\ thread[t] \in Locals /\ thread \in [Threads -> Locals] /\ thread[t].pc = "error"
      /\ t = Bip => s_openchannelCid = NoCid
  BY DEF TypeOK, Error, At, KeepsOf, CardKeeps, EarlyPCs
<1>2. PICK c \in SomeCid : c = thread[t].index
  BY <1>1, Places
<1>3. UNCHANGED <<s_openchannelCid, active, client>>
  BY DEF Error, globals, outside
<1>4. \A x \in Cids : users(x)' = users(x) /\ users(x) \in Nat
  BY <1>3, UsersKept, UsersNat
<1>5. thread'[t].pc = "tell"
  BY <1>1 DEF Error, Goto, Locals
<1>6. KeepsAt(t)'
  BY <1>5 DEF KeepsAt, KeepsIndex, KeepsBearer, KeepsSecond, SearchPCs, EarlyPCs, ReleasePCs
<1>7. CardKeeps'
  BY <1>1, <1>3, <1>5, CardKeepsOn DEF KeepsOf
<1>8. CASE c = NoCid
  <2>1. UNCHANGED <<state, secondary, count>>
    BY <1>2, <1>8 DEF Error, pdp
  <2> QED BY <1>3, <1>4, <1>6, <1>7, <2>1, EntriesKeep DEF KeepsOf
<1>9. CASE c \in Cids
  <2>1. users(c) = 0 /\ secondary[c] = NoCid
    BY <1>1, <1>2, <1>9 DEF KeepsOf, KeepsAt, KeepsIndex, SearchPCs, EarlyPCs
  <2>2. {c, secondary[c]} \ {NoCid} = {c}
    BY <1>9, <2>1, NoCidIsNone
  <2>3. putPDP({c})
    BY <1>2, <1>9, <2>2, NoCidIsNone DEF Error
  <2>4. \A x \in Cids : users(x)' <= users(x)
    BY <1>4
  <2> QED BY <1>3, <1>4, <1>6, <1>7, <1>9, <2>1, <2>3, <2>4, EntriesKeepPut DEF KeepsOf
<1> QED BY <1>2, <1>8, <1>9 DEF SomeCid

\* one more uses c
LEMMA EntriesJoin ==
  ASSUME TypeOK, \A x \in Cids : KeepsEntry(x), NEW c \in Cids,
         \A x \in Cids : users(x)' = (IF x = c THEN users(x) + 1 ELSE users(x)),
         UNCHANGED <<state, secondary, active>>,
         \A x \in Cids \ {c} : count'[x] = count[x] /\ client'[x] = client[x],
         state[c] = "BUSY", PartnerUnused(c),
         count'[c] >= users(c)' \/ (c \notin active /\ client'[c] = 0)
  PROVE  \A x \in Cids : KeepsEntry(x)'
<1> SUFFICES ASSUME NEW x \in Cids PROVE KeepsEntry(x)'
  OBVIOUS
<1>1. KeepsEntry(x) /\ KeepsEntry(c) /\ users(x) \in Nat /\ users(c) \in Nat
  BY UsersNat
<1>2. CASE x = c
  <2>1. ASSUME NEW d \in Cids, d = secondary[c] PROVE users(d)' = 0
    <3>1. d # c /\ users(d) = 0
      BY <1>1, <2>1, NoCidIsNone DEF KeepsEntry, PartnerUnused
    <3> QED BY <3>1
  <2>2. PartnerUnused(c)'
    BY <2>1 DEF PartnerUnused
  <2> QED BY <1>1, <1>2, <2>2 DEF KeepsEntry
<1>3. CASE x # c
  <2>1. users(x)' = users(x) /\ count'[x] = count[x] /\ client'[x] = client[x]
    BY <1>3
  <2>2. ASSUME users(x) > 0, NEW d \in Cids, d = secondary[x] PROVE users(d)' = 0
    <3>1. d # c
      <4>1. ASSUME d = c PROVE FALSE
        <5>1. secondary[c] = x
          BY <1>1, <2>2, <4>1, NoCidIsNone DEF KeepsEntry
        <5> QED BY <2>2, <5>1 DEF PartnerUnused
      <4> QED BY <4>1
    <3> QED BY <1>1, <2>2, <3>1 DEF KeepsEntry, PartnerUnused
  <2>3. users(x) > 0 => PartnerUnused(x)'
    BY <2>2 DEF PartnerUnused
  <2> QED BY <1>1, <2>1, <2>3 DEF KeepsEntry
<1> QED BY <1>2, <1>3

\* one fewer uses c
LEMMA EntriesLeave ==
  ASSUME TypeOK, \A x \in Cids : KeepsEntry(x), NEW c \in Cids, users(c) > 0,
         \A x \in Cids : users(x)' = (IF x = c THEN users(x) - 1 ELSE users(x)),
         UNCHANGED <<state, secondary, active, count>>,
         \A x \in Cids : client[x] = 0 => client'[x] = 0
  PROVE  \A x \in Cids : KeepsEntry(x)'
<1> SUFFICES ASSUME NEW x \in Cids PROVE KeepsEntry(x)'
  OBVIOUS
<1>1. KeepsEntry(x) /\ users(x) \in Nat /\ users(x)' \in Nat /\ users(x)' <= users(x) /\ count[x] \in Nat
  <2>1. users(x) \in Nat /\ users(c) \in Nat
    BY UsersNat
  <2>2. users(x)' \in Nat /\ users(x)' <= users(x)
    BY <2>1
  <2> QED BY <2>1, <2>2 DEF TypeOK
<1>2. ASSUME users(x)' > 0, NEW d \in Cids, d = secondary[x] PROVE users(d)' = 0
  <2>1. users(d) = 0
    BY <1>1, <1>2 DEF KeepsEntry, PartnerUnused
  <2> QED BY <2>1
<1>3. users(x)' > 0 => state'[x] = "BUSY" /\ PartnerUnused(x)'
  BY <1>1, <1>2 DEF KeepsEntry, PartnerUnused
<1>4. count'[x] >= users(x)' \/ (x \notin active' /\ client'[x] = 0)
  BY <1>1 DEF KeepsEntry
<1> QED BY <1>1, <1>3, <1>4 DEF KeepsEntry

LEMMA ListKeeps ==
  ASSUME TypeOK, TypeOK', NEW t \in Threads, AtTable(t), KeepsOf(t), List(t), Unless(KeptExcuses)'
  PROVE  KeepsOf(t)'
<1>1. /\ thread[t] \in Locals /\ thread \in [Threads -> Locals] /\ thread[t].pc = "list"
      /\ t \in {Setup, Bip} /\ thread[t].index \in Cids
  BY Places DEF TypeOK, List, At, Fits, WithIndex, SetupPCs
<1>2. PICK c \in Cids : c = thread[t].index
  BY <1>1
<1>3. /\ s_openchannelCid' = c /\ UNCHANGED channel
      /\ c \in active => state[c] = "BUSY"
      /\ PartnerUnused(c) /\ OneMore(c)
  BY <1>1, <1>2 DEF List, KeepsOf, KeepsAt, KeepsIndex
<1>4. thread'[t].pc = IF t = Bip THEN "result" ELSE "rest"
  <2>1. thread'[t] = Returned(t)
    BY <1>1 DEF List
  <2> QED BY <1>1, <2>1, Returns DEF Rest
<1>5. KeepsAt(t)'
  BY <1>4 DEF KeepsAt, KeepsIndex, KeepsBearer, KeepsSecond, SearchPCs, EarlyPCs, ReleasePCs
<1>6. CASE UNCHANGED <<state, secondary, count, active, client>>
  <2>1. \A x \in Cids : users(x)' = users(x)
    BY <1>6, UsersKept
  <2>2. OneMore(c)' /\ PartnerUnused(c)'
    BY <1>3, <1>6, <2>1 DEF OneMore, PartnerUnused
  <2>3. CardKeeps'
    BY <1>3, <1>4, <2>2, CardKeepsOn DEF KeepsOf, EarlyPCs
  <2> QED BY <1>5, <1>6, <2>1, <2>3, EntriesKeep DEF KeepsOf
<1>7. CASE /\ c \in active /\ t = Setup
           /\ UNCHANGED <<state, secondary, count, active>>
           /\ client' = [client EXCEPT ![c] = @ + 1]
  <2>1. ASSUME NEW x \in Cids
        PROVE  /\ users(x)' = (IF x = c THEN users(x) + 1 ELSE users(x)) /\ users(x) \in Nat
               /\ x # c => client'[x] = client[x]
    <3>1. thread'[Bip] = thread[Bip]
      BY <1>7 DEF AtTable, Threads, Setup, Bip
    <3>2. client'[x] = (IF x = c THEN client[x] + 1 ELSE client[x]) /\ client[x] \in Nat
      BY <1>7 DEF TypeOK
    <3> QED BY <3>1, <3>2 DEF users, At
  <2>2. count'[c] >= users(c)'
    BY <1>3, <1>7, <2>1 DEF OneMore, TypeOK
  <2>3. \A x \in Cids : KeepsEntry(x)'
    BY <1>3, <1>7, <2>1, <2>2, EntriesJoin DEF KeepsOf
  <2>4. CardKeeps'
    BY <1>4, <1>7, CardKeepsOn DEF KeepsOf, Setup, Bip
  <2> QED BY <1>5, <2>3, <2>4 DEF KeepsOf
<1>8. CASE /\ putPDP({c, secondary[c]} \ {NoCid}) /\ usersOf(c) = 0
           /\ UNCHANGED <<active, client>>
  <2>1. PICK cs \in SUBSET Cids : cs = {c, secondary[c]} \ {NoCid}
    BY DEF TypeOK, SomeCid
  <2>2. \A x \in Cids : users(x)' = users(x) /\ users(x) \in Nat
    BY <1>8, UsersKept, UsersNat
  <2>3. \A x \in cs : users(x)' = 0
    BY <1>3, <1>8, <2>1, <2>2, UsersCount DEF PartnerUnused
  <2>4. putPDP(cs) /\ c \in cs
    BY <1>8, <2>1, NoCidIsNone
  <2>5. state'[c] = "IDLE"
    BY <2>4 DEF putPDP
  <2>6. CardKeeps'
    BY <1>3, <1>4, <2>5, CardKeepsOn DEF KeepsOf, EarlyPCs
  <2>7. \A x \in Cids : users(x)' <= users(x)
    BY <2>2
  <2> QED BY <1>5, <1>8, <2>3, <2>4, <2>6, <2>7, EntriesKeepPut DEF KeepsOf
<1>9. \/ UNCHANGED <<state, secondary, count, active, client>>
      \/ /\ c \in active /\ t = Setup
         /\ UNCHANGED <<state, secondary, count, active>>
         /\ client' = [client EXCEPT ![c] = @ + 1]
      \/ /\ putPDP({c, secondary[c]} \ {NoCid}) /\ usersOf(c) = 0
         /\ UNCHANGED <<active, client>>
  <2>1. happened' # after("ended")
    BY DEF Unless, KeptExcuses, after
  <2>2. usersOf(c) > 0 \/ usersOf(c) = 0
    BY UsersCount, UsersNat
  <2> QED BY <1>1, <1>2, <2>1, <2>2 DEF List, pdp
<1> QED BY <1>6, <1>7, <1>8, <1>9

LEMMA LeaveKeeps ==
  ASSUME TypeOK, TypeOK', NEW t \in Threads, AtTable(t), KeepsOf(t), Leave(t)
  PROVE  KeepsOf(t)'
<1>1. /\ thread[t] \in Locals /\ thread \in [Threads -> Locals] /\ thread[t].pc = "leave"
      /\ thread[t].index \in Cids
  BY Places DEF TypeOK, Leave, At, Fits, WithIndex, ReleasePCs
<1>2. PICK c \in Cids : c = thread[t].index
  BY <1>1
<1>3. UNCHANGED <<state, secondary, count, s_openchannelCid, active, client>>
  BY DEF Leave, pdp, openchannel, globals, outside
<1>4. \A x \in Cids : users(x)' = users(x)
  BY <1>3, UsersKept
<1>5. PartnerUnused(c) /\ OneMore(c)
  BY <1>1, <1>2 DEF KeepsOf, KeepsAt, KeepsIndex, ReleasePCs
<1>6. thread'[t].pc = "store" /\ thread'[t].index = c /\ thread'[t].seen = count[c]
  BY <1>1, <1>2 DEF Leave, Locals
<1>7. PartnerUnused(c)' /\ OneMore(c)'
  BY <1>3, <1>4, <1>5 DEF PartnerUnused, OneMore
<1>8. KeepsAt(t)'
  BY <1>3, <1>6, <1>7
     DEF KeepsAt, KeepsIndex, KeepsBearer, KeepsSecond, SearchPCs, EarlyPCs, ReleasePCs
<1>9. CardKeeps'
  BY <1>6, CardKeepsOn DEF KeepsOf, EarlyPCs
<1> QED BY <1>3, <1>4, <1>8, <1>9, EntriesKeep DEF KeepsOf

LEMMA LeaveStoreKeeps ==
  ASSUME TypeOK, TypeOK', NEW t \in Threads, AtTable(t), KeepsOf(t), LeaveStore(t)
  PROVE  KeepsOf(t)'
<1>1. /\ thread[t] \in Locals /\ thread \in [Threads -> Locals] /\ thread[t].pc = "store"
      /\ thread[t].index \in Cids
  BY Places DEF TypeOK, LeaveStore, At, Fits, WithIndex, ReleasePCs
<1>2. PICK c \in Cids : c = thread[t].index
  BY <1>1
<1>3. PICK n \in Nat : n = thread[t].seen
  BY <1>1 DEF Locals
<1>4. UNCHANGED <<state, secondary, s_openchannelCid, active, client>>
  BY DEF LeaveStore, pdp, globals, outside
<1>5. \A x \in Cids : users(x)' = users(x) /\ users(x) \in Nat /\ count[x] \in Nat /\ count'[x] \in Nat
  BY <1>4, UsersKept, UsersNat DEF TypeOK
<1>6. PartnerUnused(c) /\ OneMore(c) /\ (n = count[c] \/ users(c) = 0)
  BY <1>1, <1>2, <1>3 DEF KeepsOf, KeepsAt, KeepsIndex, ReleasePCs
<1>7. /\ thread'[t].pc = "last" /\ thread'[t].index = c
      /\ count' = IF n > 0 THEN [count EXCEPT ![c] = n - 1] ELSE count
  BY <1>1, <1>2, <1>3 DEF LeaveStore, Locals
<1>8. count'[c] >= users(c) /\ \A x \in Cids \ {c} : count'[x] = count[x]
  <2>1. CASE users(c) = 0
    BY <1>5, <1>7, <2>1 DEF TypeOK
  <2>2. CASE users(c) # 0
    <3>1. n = count[c] /\ count[c] > users(c) /\ count[c] > 0
      BY <1>5, <1>6, <2>2 DEF OneMore
    <3>2. count' = [count EXCEPT ![c] = n - 1]
      BY <1>7, <3>1
    <3> QED BY <1>5, <3>1, <3>2 DEF TypeOK
  <2> QED BY <2>1, <2>2
<1>9. PartnerUnused(c)'
  BY <1>4, <1>5, <1>6 DEF PartnerUnused
<1>10. KeepsAt(t)'
  BY <1>5, <1>7, <1>8, <1>9
     DEF KeepsAt, KeepsIndex, KeepsBearer, KeepsSecond, SearchPCs, EarlyPCs, ReleasePCs
<1>11. CardKeeps'
  BY <1>7, CardKeepsOn DEF KeepsOf, EarlyPCs
<1>12. \A x \in Cids : count'[x] = count[x] \/ count'[x] >= users(x)
  BY <1>8
<1> QED BY <1>4, <1>5, <1>10, <1>11, <1>12, EntriesKeep DEF KeepsOf

LEMMA LastKeeps ==
  ASSUME TypeOK, TypeOK', NEW t \in Threads, AtTable(t), KeepsOf(t), Last(t)
  PROVE  KeepsOf(t)'
<1>1. /\ thread[t] \in Locals /\ thread \in [Threads -> Locals] /\ thread[t].pc = "last"
      /\ thread[t].index \in Cids
  BY Places DEF TypeOK, Last, At, Fits, WithIndex, ReleasePCs
<1>2. PICK c \in Cids : c = thread[t].index
  BY <1>1
<1>3. UNCHANGED <<state, secondary, count, s_openchannelCid, active, client>>
  BY DEF Last, pdp, openchannel, globals, outside
<1>4. \A x \in Cids : users(x)' = users(x) /\ users(x) \in Nat
  BY <1>3, UsersKept, UsersNat
<1>5. PartnerUnused(c) /\ count[c] >= users(c)
  BY <1>1, <1>2 DEF KeepsOf, KeepsAt, KeepsIndex, ReleasePCs
<1>6. PartnerUnused(c)'
  BY <1>3, <1>4, <1>5 DEF PartnerUnused
<1>7. CASE state[c] = "IDLE" \/ count[c] # 0
  <2>1. thread'[t].pc = "rest"
    BY <1>1, <1>2, <1>7 DEF Last, Rest
  <2>2. KeepsAt(t)'
    BY <2>1 DEF KeepsAt, KeepsIndex, KeepsBearer, KeepsSecond, SearchPCs, EarlyPCs, ReleasePCs
  <2>3. CardKeeps'
    BY <2>1, CardKeepsOn DEF KeepsOf, EarlyPCs
  <2> QED BY <1>3, <1>4, <2>2, <2>3, EntriesKeep DEF KeepsOf
<1>8. CASE ~ (state[c] = "IDLE" \/ count[c] # 0)
  <2>1. thread'[t].pc = "deactivate" /\ thread'[t].index = c /\ thread'[t].second = secondary[c]
    BY <1>1, <1>2, <1>8 DEF Last, Locals
  <2>2. users(c) = 0
    BY <1>4, <1>5, <1>8
  <2>3. KeepsAt(t)'
    BY <1>3, <1>4, <1>5, <1>6, <2>1, <2>2
       DEF KeepsAt, KeepsIndex, KeepsBearer, KeepsSecond, PartnerUnused, SearchPCs, EarlyPCs, ReleasePCs
  <2>4. CardKeeps'
    BY <2>1, CardKeepsOn DEF KeepsOf, EarlyPCs
  <2> QED BY <1>3, <1>4, <2>3, <2>4, EntriesKeep DEF KeepsOf
<1> QED BY <1>7, <1>8

LEMMA DeactivateKeeps ==
  ASSUME TypeOK, TypeOK', NEW t \in Threads, AtTable(t), KeepsOf(t), Deactivate(t)
  PROVE  KeepsOf(t)'
<1>1. /\ thread[t] \in Locals /\ thread \in [Threads -> Locals] /\ thread[t].pc = "deactivate"
  BY DEF TypeOK, Deactivate, At
<1>2. UNCHANGED <<state, secondary, count, s_openchannelCid, client>> /\ active' \subseteq active
  BY DEF Deactivate, pdp, openchannel, globals, outside
<1>3. \A x \in Cids : users(x)' = users(x)
  BY <1>2, UsersKept
<1>4. /\ thread'[t].pc = "free" /\ thread'[t].index = thread[t].index
      /\ thread'[t].second = thread[t].second
  BY <1>1 DEF Deactivate, Goto, Locals
<1>5. KeepsAt(t)'
  BY <1>1, <1>2, <1>3, <1>4
     DEF KeepsOf, KeepsAt, KeepsIndex, KeepsBearer, KeepsSecond, PartnerUnused, SearchPCs, EarlyPCs, ReleasePCs
<1>6. CardKeeps'
  BY <1>4, CardKeepsOn DEF KeepsOf, EarlyPCs
<1> QED BY <1>2, <1>3, <1>5, <1>6, EntriesKeep DEF KeepsOf

LEMMA FreeKeeps ==
  ASSUME TypeOK, TypeOK', NEW t \in Threads, AtTable(t), KeepsOf(t), Free(t)
  PROVE  KeepsOf(t)'
<1>1. /\ thread[t] \in Locals /\ thread \in [Threads -> Locals] /\ thread[t].pc = "free"
      /\ thread[t].index \in Cids /\ thread[t].second \in SomeCid
  BY Places DEF TypeOK, Free, At, Fits, WithIndex, ReleasePCs
<1>2. PICK cs \in SUBSET Cids : cs = {thread[t].index, thread[t].second} \ {NoCid}
  BY <1>1 DEF SomeCid
<1>3. putPDP(cs) /\ UNCHANGED <<s_openchannelCid, active, client>>
  BY <1>2 DEF Free, globals, outside
<1>4. \A x \in Cids : users(x)' = users(x) /\ users(x) \in Nat
  BY <1>3, UsersKept, UsersNat
<1>5. \A x \in cs : users(x)' = 0
  BY <1>1, <1>2, <1>4 DEF KeepsOf, KeepsAt, KeepsIndex, KeepsSecond
<1>6. thread'[t].pc = "rest"
  BY <1>1 DEF Free, Rest
<1>7. KeepsAt(t)'
  BY <1>6 DEF KeepsAt, KeepsIndex, KeepsBearer, KeepsSecond, SearchPCs, EarlyPCs, ReleasePCs
<1>8. CardKeeps'
  BY <1>6, CardKeepsOn DEF KeepsOf, EarlyPCs
<1>9. \A x \in Cids : users(x)' <= users(x)
  BY <1>4
<1> QED BY <1>3, <1>5, <1>7, <1>8, <1>9, EntriesKeepPut DEF KeepsOf

LEMMA StepKeeps ==
  ASSUME TypeOK, TypeOK', OneAtTable, KeepsHold, NEW t \in Threads, Step(t), Unless({"overlap"}),
         Unless(KeptExcuses)'
  PROVE  KeepsHold'
<1>1. AtTable(t)
  BY AloneStep, StepShape DEF AtTable
<1>2. KeepsOf(t)
  BY DEF KeepsHold, KeepsOf
<1>3. KeepsOf(t)'
  BY <1>1, <1>2, RetryKeeps, TakeKeeps, ReuseKeeps, GetKeeps, ActivateKeeps, PutBackKeeps,
     UnusableKeeps, FallbackKeeps, GetSecondKeeps, SecondKeeps, DoneKeeps, ListKeeps,
     ErrorKeeps, TellKeeps, LeaveKeeps, LeaveStoreKeeps, LastKeeps, DeactivateKeeps,
     FreeKeeps DEF Step
<1>4. \A u \in Threads \ {t} : KeepsAt(u)'
  <2>1. \A u \in Threads \ {t} : thread'[u].pc \in {"rest", "open"}
    BY <1>1 DEF AtTable
  <2> QED BY <2>1 DEF KeepsAt, KeepsIndex, KeepsBearer, KeepsSecond, SearchPCs, EarlyPCs, ReleasePCs
<1> QED BY <1>3, <1>4 DEF KeepsHold, KeepsOf

\* the places of a thread that has nothing of the table in hand
LEMMA IdleKeeps ==
  \A t \in Threads : thread'[t].pc \in {"rest", "open", "lock", "waiting", "share", "shared", "result", "tell"}
                       => KeepsAt(t)'
  BY DEF KeepsAt, KeepsIndex, KeepsBearer, KeepsSecond, SearchPCs, EarlyPCs, ReleasePCs

\* a thread that has just left c
LEMMA LeaverKeeps ==
  ASSUME NEW t \in Threads, NEW c \in Cids, thread'[t].pc = "leave", thread'[t].index = c,
         OneMore(c)', PartnerUnused(c)'
  PROVE  KeepsAt(t)'
  BY DEF KeepsAt, KeepsIndex, KeepsBearer, KeepsSecond, SearchPCs, EarlyPCs, ReleasePCs

\* a thread that starts to search, with nothing in hand
LEMMA SearcherKeeps ==
  ASSUME NEW t \in Threads, thread'[t].pc \in {"look", "retry"}, thread'[t].index = NoCid
  PROVE  KeepsAt(t)'
  BY NoCidIsNone DEF KeepsAt, KeepsIndex, KeepsBearer, KeepsSecond, ReleasePCs

LEMMA ClientSetsUpKeeps ==
  ASSUME TypeOK, TypeOK', KeepsHold, ClientSetsUp, \A t \in Threads : ~ busy(t)
  PROVE  KeepsHold'
<1>1. /\ thread \in [Threads -> Locals] /\ Setup \in Threads /\ Bip \in Threads /\ Setup # Bip
      /\ thread[Setup] = Rest
  BY DEF TypeOK, Threads, ClientSetsUp, At, Fits, Setup, Bip
<1>2. UNCHANGED <<state, secondary, count, channel, s_openchannelCid, active, client>>
  BY DEF ClientSetsUp, pdp, openchannel, globals
<1>3. /\ thread'[Setup].pc = "retry" /\ thread'[Setup].index = NoCid
      /\ \A t \in Threads \ {Setup} : thread'[t] = thread[t]
  BY <1>1 DEF ClientSetsUp, Goto, Rest
<1>4. \A c \in Cids : users(c)' = users(c)
  BY <1>1, <1>2, <1>3 DEF users, At
<1>5. \A t \in Threads : KeepsAt(t)'
  BY <1>1, <1>3, IdleKeeps, SearcherKeeps DEF busy
<1>6. CardKeeps'
  BY <1>1, <1>2, <1>3 DEF KeepsHold, CardKeeps, busy, EarlyPCs
<1> QED BY <1>2, <1>4, <1>5, <1>6, EntriesKeep DEF KeepsHold

LEMMA BipOpensKeeps ==
  ASSUME TypeOK, TypeOK', KeepsHold, BipOpens, \A t \in Threads : ~ busy(t)
  PROVE  KeepsHold'
<1>1. thread \in [Threads -> Locals] /\ Bip \in Threads /\ thread[Bip] = Rest
  BY DEF TypeOK, Threads, BipOpens, At, Fits
<1>2. UNCHANGED <<state, secondary, count, channel, active, client>> /\ s_openchannelCid' = NoCid
  BY DEF BipOpens, pdp, openchannel
<1>3. /\ thread'[Bip].pc = "look" /\ thread'[Bip].index = NoCid
      /\ \A t \in Threads \ {Bip} : thread'[t] = thread[t]
  BY <1>1 DEF BipOpens, Goto, Rest
<1>4. \A c \in Cids : users(c)' = users(c)
  BY <1>1, <1>2, <1>3 DEF users, At, Rest
<1>5. \A t \in Threads : KeepsAt(t)'
  BY <1>1, <1>3, IdleKeeps, SearcherKeeps DEF busy
<1>6. CardKeeps'
  BY <1>1, <1>2, <1>3 DEF KeepsHold, CardKeeps, Rest, EarlyPCs
<1> QED BY <1>2, <1>4, <1>5, <1>6, EntriesKeep DEF KeepsHold

LEMMA LeavesKeeps ==
  ASSUME TypeOK, KeepsHold, NEW t \in Threads, NEW c \in Cids, users(c) > 0,
         \A x \in Cids : users(x)' = (IF x = c THEN users(x) - 1 ELSE users(x)),
         \A x \in Cids : client[x] = 0 => client'[x] = 0,
         client[c] > 0 \/ users(c) = 1,
         UNCHANGED <<state, secondary, count, active>>,
         thread'[t].pc = "leave", thread'[t].index = c,
         \A u \in Threads \ {t} : thread'[u].pc \in {"rest", "open"}
  PROVE  (\A x \in Cids : KeepsEntry(x)') /\ (\A u \in Threads : KeepsAt(u)')
<1>1. \A x \in Cids : KeepsEntry(x)'
  BY EntriesLeave DEF KeepsHold
<1>2. PartnerUnused(c) /\ (count[c] >= users(c) \/ (c \notin active /\ client[c] = 0))
  BY DEF KeepsHold, KeepsEntry
<1>3. OneMore(c)'
  <2>1. users(c) \in Nat /\ users(c)' = users(c) - 1 /\ count'[c] = count[c] /\ count[c] \in Nat
        /\ client[c] \in Nat
    BY UsersNat DEF TypeOK
  <2> QED BY <1>2, <2>1 DEF OneMore
<1>4. PartnerUnused(c)'
  <2>1. ASSUME NEW d \in Cids, d = secondary[c] PROVE users(d)' = 0
    BY <1>2, <2>1 DEF PartnerUnused
  <2> QED BY <2>1 DEF PartnerUnused
<1> QED BY <1>1, <1>3, <1>4, IdleKeeps, LeaverKeeps

LEMMA ClientReleasesKeeps ==
  ASSUME TypeOK, KeepsHold, NEW c \in Cids, ClientReleases(c), \A t \in Threads : ~ busy(t)
  PROVE  KeepsHold'
<1> DEFINE r == [Rest EXCEPT !.pc = "leave", !.index = c]
<1>1. /\ UNCHANGED <<state, secondary, count, channel, s_openchannelCid, active>>
      /\ client' = [client EXCEPT ![c] = @ - 1] /\ client[c] > 0
      /\ thread' = [thread EXCEPT ![Release] = r]
  BY Zenon DEF ClientReleases, pdp, openchannel, globals
<1>2. r.pc = "leave" /\ r.index = c
  BY DEF Rest
<1> HIDE DEF r
<1>3. /\ thread'[Release].pc = "leave" /\ thread'[Release].index = c
      /\ \A u \in Threads \ {Release} : thread'[u] = thread[u]
      /\ Release \in Threads /\ Bip \in Threads /\ Release # Bip
  BY <1>1, <1>2 DEF TypeOK, Threads, Release, Bip
<1>4. ASSUME NEW x \in Cids
      PROVE  /\ users(x)' = (IF x = c THEN users(x) - 1 ELSE users(x))
             /\ client[x] = 0 => client'[x] = 0
             /\ users(x) >= client[x]
  <2>1. client'[x] = (IF x = c THEN client[x] - 1 ELSE client[x]) /\ client[x] \in Nat
    BY <1>1 DEF TypeOK
  <2> QED BY <1>1, <1>3, <2>1 DEF users, At
<1>5. users(c) > 0
  BY <1>1, <1>4, UsersNat DEF TypeOK
<1>6. (\A x \in Cids : KeepsEntry(x)') /\ (\A u \in Threads : KeepsAt(u)')
  BY <1>1, <1>3, <1>4, <1>5, LeavesKeeps DEF busy
<1>7. CardKeeps'
  BY <1>1, <1>3 DEF KeepsHold, CardKeeps, busy, EarlyPCs
<1> QED BY <1>6, <1>7 DEF KeepsHold

LEMMA BipClosesKeeps ==
  ASSUME TypeOK, KeepsHold, BipCloses, \A t \in Threads : ~ busy(t)
  PROVE  KeepsHold'
<1>1. /\ thread \in [Threads -> Locals] /\ Bip \in Threads /\ thread[Bip].pc = "open"
      /\ thread[Bip].index \in Cids
  BY Places DEF TypeOK, Threads, BipCloses, At, Fits, WithIndex
<1>2. PICK c \in Cids : c = thread[Bip].index
  BY <1>1
<1>3. /\ UNCHANGED <<state, secondary, count, active, client>>
      /\ channel' = [channel EXCEPT ![c] = "CLOSE"]
  BY <1>2 DEF BipCloses, pdp, outside
<1>4. /\ thread'[Bip].pc = "leave" /\ thread'[Bip].index = c
      /\ \A u \in Threads \ {Bip} : thread'[u] = thread[u]
  BY <1>1, <1>2 DEF BipCloses, Goto, Locals
<1>5. ASSUME NEW x \in Cids
      PROVE  users(x)' = (IF x = c THEN users(x) - 1 ELSE users(x)) /\ users(x) \in Nat
  <2>1. users(x) = client[x] + (IF x = c THEN 1 ELSE 0) /\ users(x)' = client[x] /\ client[x] \in Nat
    BY <1>1, <1>2, <1>3, <1>4 DEF users, At, TypeOK
  <2> QED BY <2>1
<1>6. users(c) > 0 /\ (client[c] > 0 \/ users(c) = 1)
  BY <1>1, <1>2 DEF users, At, TypeOK
<1>7. (\A x \in Cids : KeepsEntry(x)') /\ (\A u \in Threads : KeepsAt(u)')
  BY <1>1, <1>3, <1>4, <1>5, <1>6, LeavesKeeps DEF busy
<1>8. \A x \in Cids : channel'[x] = "CLOSE"
  BY <1>2, <1>3 DEF TypeOK, KeepsHold, CardKeeps
<1>9. CardKeeps'
  BY <1>4, <1>8 DEF CardKeeps, EarlyPCs
<1> QED BY <1>7, <1>9 DEF KeepsHold

LEMMA CardLooksKeeps ==
  ASSUME TypeOK, TypeOK', KeepsHold, BipLooks \/ BipWaits,
         \A u \in Threads \ {Bip} : thread[u].pc \in {"rest", "open"}
  PROVE  KeepsHold'
<1>1. /\ thread \in [Threads -> Locals] /\ Bip \in Threads /\ thread[Bip] \in Locals
      /\ thread[Bip].pc \in {"look", "lock"}
  BY DEF TypeOK, Threads, BipLooks, BipWaits, At
<1>2. UNCHANGED <<state, secondary, count, channel, s_openchannelCid, active, client>>
  BY DEF BipLooks, BipWaits, pdp, openchannel, globals, outside
<1>3. \A u \in Threads \ {Bip} : thread'[u] = thread[u]
  BY <1>1 DEF BipLooks, BipWaits, Goto
<1>4. \/ thread'[Bip].pc \in {"share", "lock", "waiting"}
      \/ thread[Bip].pc = "look" /\ thread'[Bip].pc = "retry" /\ thread'[Bip].index = thread[Bip].index
  <2>1. ASSUME NEW place, Goto(Bip, place) PROVE thread'[Bip].pc = place /\ thread'[Bip].index = thread[Bip].index
    BY <1>1, <2>1 DEF Goto, Locals
  <2>2. ASSUME NEW c, thread' = [thread EXCEPT ![Bip].pc = IF pdpState[c] THEN "share" ELSE "lock", ![Bip].index = c]
        PROVE  thread'[Bip].pc \in {"share", "lock"}
    BY <1>1, <2>2 DEF Locals
  <2> QED BY <2>1, <2>2 DEF BipLooks, BipWaits, At
<1>5. \A c \in Cids : users(c)' = users(c)
  BY <1>1, <1>2, <1>4 DEF users, At
<1>6. KeepsAt(Bip)'
  <2>1. CASE thread'[Bip].pc \in {"share", "lock", "waiting"}
    BY <1>1, <2>1, IdleKeeps
  <2>2. CASE /\ thread[Bip].pc = "look" /\ thread'[Bip].pc = "retry"
             /\ thread'[Bip].index = thread[Bip].index
    BY <1>1, <1>2, <1>5, <2>2
       DEF KeepsHold, KeepsAt, KeepsIndex, KeepsBearer, KeepsSecond, SearchPCs, EarlyPCs, ReleasePCs
  <2> QED BY <1>4, <2>1, <2>2
<1>7. \A u \in Threads : KeepsAt(u)'
  BY <1>3, <1>6, IdleKeeps
<1>8. CardKeeps'
  BY <1>1, <1>2, <1>4 DEF KeepsHold, CardKeeps, EarlyPCs
<1> QED BY <1>2, <1>5, <1>7, <1>8, EntriesKeep DEF KeepsHold

LEMMA BipSharesKeeps ==
  ASSUME TypeOK, TypeOK', KeepsHold, BipShares, Unless(KeptExcuses)',
         \A u \in Threads \ {Bip} : thread[u].pc \in {"rest", "open"}
  PROVE  KeepsHold'
<1>1. /\ thread \in [Threads -> Locals] /\ Bip \in Threads /\ thread[Bip] \in Locals
      /\ thread[Bip].pc = "share" /\ thread[Bip].index \in Cids
  BY Places DEF TypeOK, Threads, BipShares, At, Fits, WithIndex
<1>2. PICK c \in Cids : c = thread[Bip].index
  BY <1>1
<1>3. /\ UNCHANGED <<state, secondary, count, active, client>>
      /\ channel' = [channel EXCEPT ![c] = "REUSE"]
  BY <1>2 DEF BipShares, pdp, outside
<1>4. /\ thread'[Bip].pc = "shared" /\ thread'[Bip].index = c /\ thread'[Bip].seen = count[c]
      /\ \A u \in Threads \ {Bip} : thread'[u] = thread[u]
  BY <1>1, <1>2 DEF BipShares, Locals
<1>5. \A x \in Cids : users(x)' = users(x) /\ users(x) = client[x] /\ client[x] \in Nat
  BY <1>1, <1>3, <1>4 DEF users, At, TypeOK
<1>6. client[c] > 0 /\ count[c] >= users(c)
  <2>1. usersOf(c) # 0
    BY <1>2 DEF BipShares, Unless, KeptExcuses, after
  <2>2. client[c] > 0
    BY <1>5, <2>1, UsersCount
  <2> QED BY <2>2 DEF KeepsHold, KeepsEntry
<1>7. \A u \in Threads : KeepsAt(u)'
  BY <1>4, IdleKeeps
<1>8. channel'[c] # "CLOSE" /\ \A x \in Cids \ {c} : channel'[x] = "CLOSE"
  BY <1>1, <1>3 DEF KeepsHold, CardKeeps, TypeOK
<1>9. CardKeeps'
  BY <1>3, <1>4, <1>5, <1>6, <1>8 DEF CardKeeps, EarlyPCs
<1> QED BY <1>3, <1>5, <1>7, <1>9, EntriesKeep DEF KeepsHold

LEMMA BipSharedKeeps ==
  ASSUME TypeOK, KeepsHold, BipShared,
         \A u \in Threads \ {Bip} : thread[u].pc \in {"rest", "open"}
  PROVE  KeepsHold'
<1>1. /\ thread \in [Threads -> Locals] /\ Bip \in Threads /\ thread[Bip] \in Locals
      /\ thread[Bip].pc = "shared" /\ thread[Bip].index \in Cids
  BY Places DEF TypeOK, Threads, BipShared, At, Fits, WithIndex
<1>2. PICK c \in Cids : c = thread[Bip].index
  BY <1>1
<1>3. PICK n \in Nat : n = thread[Bip].seen
  BY <1>1 DEF Locals
<1>4. /\ UNCHANGED <<state, secondary, channel, active, client>>
      /\ count' = [count EXCEPT ![c] = n + 1]
  BY <1>2, <1>3 DEF BipShared, pdp, globals, outside
<1>5. /\ thread'[Bip].pc = "open" /\ thread'[Bip].index = c
      /\ \A u \in Threads \ {Bip} : thread'[u] = thread[u]
  BY <1>1, <1>2 DEF BipShared, Locals
<1>6. \A x \in Cids : /\ users(x)' = (IF x = c THEN users(x) + 1 ELSE users(x))
                      /\ users(x) = client[x] /\ client[x] \in Nat
  BY <1>1, <1>4, <1>5 DEF users, At, TypeOK
<1>7. client[c] > 0 /\ n >= users(c)
  BY <1>1, <1>2, <1>3 DEF KeepsHold, CardKeeps
<1>8. state[c] = "BUSY" /\ PartnerUnused(c)
  BY <1>6, <1>7 DEF KeepsHold, KeepsEntry
<1>9. /\ count'[c] >= users(c)'
      /\ \A x \in Cids \ {c} : count'[x] = count[x] /\ client'[x] = client[x]
  BY <1>4, <1>6, <1>7 DEF TypeOK
<1>10. \A x \in Cids : KeepsEntry(x)'
  BY <1>4, <1>6, <1>8, <1>9, EntriesJoin DEF KeepsHold
<1>11. \A u \in Threads : KeepsAt(u)'
  BY <1>5, IdleKeeps
<1>12. CardKeeps'
  BY <1>1, <1>2, <1>4, <1>5 DEF KeepsHold, CardKeeps, EarlyPCs
<1> QED BY <1>10, <1>11, <1>12 DEF KeepsHold

LEMMA BipSetUpKeeps ==
  ASSUME TypeOK, TypeOK', KeepsHold, BipSetUp, Unless(KeptExcuses)',
         \A u \in Threads \ {Bip} : thread[u].pc \in {"rest", "open"}
  PROVE  KeepsHold'
<1>1. thread \in [Threads -> Locals] /\ Bip \in Threads /\ thread[Bip].pc = "result"
  BY DEF TypeOK, Threads, BipSetUp, At
<1>2. UNCHANGED <<state, secondary, count, active, client>>
  BY DEF BipSetUp, pdp, outside
<1>3. CASE s_openchannelCid = NoCid
  <2>1. /\ thread'[Bip].pc = "rest" /\ \A u \in Threads \ {Bip} : thread'[u] = thread[u]
        /\ UNCHANGED channel
    BY <1>1, <1>3 DEF BipSetUp, Rest
  <2>2. \A x \in Cids : users(x)' = users(x)
    BY <1>1, <1>2, <2>1 DEF users, At
  <2>3. \A u \in Threads : KeepsAt(u)'
    BY <2>1, IdleKeeps
  <2>4. CardKeeps'
    BY <1>1, <2>1 DEF KeepsHold, CardKeeps, EarlyPCs
  <2> QED BY <1>2, <2>2, <2>3, <2>4, EntriesKeep DEF KeepsHold
<1>4. CASE s_openchannelCid # NoCid
  <2>1. PICK c \in Cids : c = s_openchannelCid
    BY <1>4 DEF TypeOK, SomeCid
  <2> DEFINE r == [Rest EXCEPT !.pc = "open", !.index = c]
  <2>2. r.pc = "open" /\ r.index = c
    BY DEF Rest
  <2>3. thread' = [thread EXCEPT ![Bip] = r] /\ channel' = [channel EXCEPT ![c] = "OPEN"]
    BY <1>4, <2>1, Zenon DEF BipSetUp
  <2>4. state[c] = "BUSY"
    <3>1. state[c] # "IDLE"
      BY <1>4, <2>1 DEF BipSetUp, Unless, KeptExcuses, after
    <3> QED BY <2>1, <3>1 DEF TypeOK
  <2> HIDE DEF r
  <2>5. /\ \A u \in Threads \ {Bip} : thread'[u] = thread[u]
        /\ thread'[Bip].pc = "open" /\ thread'[Bip].index = c
    BY <1>1, <2>2, <2>3
  <2>6. \A x \in Cids : /\ users(x)' = (IF x = c THEN users(x) + 1 ELSE users(x))
                        /\ users(x) = client[x] /\ client[x] \in Nat
    BY <1>1, <1>2, <2>5 DEF users, At, TypeOK
  <2>7. PartnerUnused(c) /\ OneMore(c)
    BY <1>1, <2>1, <2>4 DEF KeepsHold, CardKeeps
  <2>8. count'[c] >= users(c)' \/ (c \notin active /\ client'[c] = 0)
    BY <1>2, <2>6, <2>7 DEF OneMore, TypeOK
  <2>9. \A x \in Cids : KeepsEntry(x)'
    BY <1>2, <2>4, <2>6, <2>7, <2>8, EntriesJoin DEF KeepsHold
  <2>10. \A u \in Threads : KeepsAt(u)'
    BY <2>5, IdleKeeps
  <2>11. channel'[c] # "CLOSE" /\ \A x \in Cids \ {c} : channel'[x] = "CLOSE"
    BY <1>1, <2>3 DEF KeepsHold, CardKeeps, TypeOK
  <2>12. CardKeeps'
    BY <2>5, <2>11 DEF CardKeeps, EarlyPCs
  <2> QED BY <2>9, <2>10, <2>12 DEF KeepsHold
<1> QED BY <1>3, <1>4

LEMMA DropKeeps ==
  ASSUME TypeOK, KeepsHold, active' \subseteq active,
         UNCHANGED <<state, secondary, count, channel, s_openchannelCid, thread, client>>
  PROVE  KeepsHold'
<1>1. \A x \in Cids : users(x)' = users(x)
  BY DEF users, At
<1>2. \A x \in Cids : (PartnerUnused(x) => PartnerUnused(x)') /\ (OneMore(x) => OneMore(x)')
  BY <1>1 DEF PartnerUnused, OneMore
<1>3. \A x \in Cids : KeepsEntry(x)'
  BY <1>1, <1>2 DEF KeepsHold, KeepsEntry
<1>4. ASSUME NEW t \in Threads PROVE KeepsAt(t)'
  <2>1. KeepsIndex(t)'
    BY <1>1, <1>2 DEF KeepsHold, KeepsAt, KeepsIndex
  <2>2. KeepsBearer(t)' /\ KeepsSecond(t)'
    BY <1>1 DEF KeepsHold, KeepsAt, KeepsBearer, KeepsSecond
  <2> QED BY <2>1, <2>2 DEF KeepsAt
<1>5. CardKeeps'
  BY <1>1, <1>2 DEF KeepsHold, CardKeeps
<1> QED BY <1>3, <1>4, <1>5 DEF KeepsHold

\* ^CEND for a context without a channel of the card: it has no users left
LEMMA ClearKeeps ==
  ASSUME TypeOK, TypeOK', KeepsHold, NEW c \in Cids, channel[c] = "CLOSE", client[c] = 0, c \notin active,
         count' = [count EXCEPT ![c] = 0],
         UNCHANGED <<state, secondary, channel, s_openchannelCid, active, thread, client>>
  PROVE  KeepsHold'
<1>1. \A x \in Cids : users(x)' = users(x)
  BY DEF users, At
<1>2. users(c) = 0
  BY DEF KeepsHold, CardKeeps, users, At
<1>3. \A x \in Cids : count'[x] = count[x] \/ (x = c /\ count'[x] = 0)
  BY DEF TypeOK
<1>4. \A x \in Cids : (PartnerUnused(x) => PartnerUnused(x)') /\ (OneMore(x) => OneMore(x)')
  BY <1>1, <1>2, <1>3 DEF PartnerUnused, OneMore
<1>5. \A x \in Cids : KeepsEntry(x)'
  BY <1>1, <1>2, <1>3, EntriesKeep DEF KeepsHold
<1>6. ASSUME NEW t \in Threads PROVE KeepsAt(t)'
  <2>1. KeepsIndex(t)'
    BY <1>1, <1>2, <1>3, <1>4 DEF KeepsHold, KeepsAt, KeepsIndex
  <2>2. KeepsBearer(t)' /\ KeepsSecond(t)'
    BY <1>1 DEF KeepsHold, KeepsAt, KeepsBearer, KeepsSecond
  <2> QED BY <2>1, <2>2 DEF KeepsAt
<1>7. CardKeeps'
  BY <1>1, <1>4 DEF KeepsHold, CardKeeps
<1> QED BY <1>5, <1>6, <1>7 DEF KeepsHold

\* ^CEND for the context of the card's channel
LEMMA ChannelEndsKeeps ==
  ASSUME TypeOK, TypeOK', KeepsHold, NEW c \in Cids, channel[c] # "CLOSE", client[c] = 0, c \notin active,
         putPDP({c, secondary[c]} \ {NoCid}),
         channel' = [channel EXCEPT ![c] = "CLOSE"],
         thread' = [thread EXCEPT ![Bip] = IF @.pc = "open" /\ @.index = c THEN Rest ELSE @],
         UNCHANGED <<s_openchannelCid, active, client>>
  PROVE  KeepsHold'
<1>1. /\ thread[Bip].pc = "open" /\ thread[Bip].index = c
      /\ \A x \in Cids \ {c} : channel[x] = "CLOSE"
  BY DEF KeepsHold, CardKeeps
<1>2. /\ thread'[Bip].pc = "rest" /\ \A t \in Threads \ {Bip} : thread'[t] = thread[t]
      /\ Bip \in Threads
  BY <1>1 DEF Rest, TypeOK, Threads
<1>3. \A x \in Cids : users(x) \in Nat /\ users(x)' = (IF x = c THEN 0 ELSE users(x))
  BY <1>1, <1>2 DEF users, At, TypeOK
<1>4. users(c) > 0
  BY <1>1 DEF users, At, TypeOK
<1>5. PartnerUnused(c) /\ (secondary[c] # NoCid => secondary[secondary[c]] = c)
  BY <1>4 DEF KeepsHold, KeepsEntry
<1>6. PICK cs \in SUBSET Cids : cs = {c, secondary[c]} \ {NoCid}
  <2>1. secondary[c] \in SomeCid
    BY DEF TypeOK
  <2> QED BY <2>1 DEF SomeCid
<1>7. putPDP(cs) /\ c \in cs /\ \A x \in cs : x = c \/ (x = secondary[c] /\ secondary[x] = c)
  BY <1>5, <1>6, NoCidIsNone
<1>8. \A x \in cs : users(x)' = 0
  BY <1>3, <1>5, <1>7 DEF PartnerUnused
<1>9. \A x \in Cids : users(x)' <= users(x)
  BY <1>3
<1>10. \A x \in Cids : KeepsEntry(x)'
  BY <1>7, <1>8, <1>9, EntriesKeepPut DEF KeepsHold
<1>11. ASSUME NEW x \in Cids
       PROVE  /\ x \in cs => secondary'[x] = NoCid /\ count'[x] = 0
              /\ x \notin cs => /\ state'[x] = state[x] /\ count'[x] = count[x]
                                /\ secondary'[x] = secondary[x] \/ secondary'[x] = NoCid
  BY <1>7 DEF putPDP
<1>12. ASSUME NEW x \in Cids, PartnerUnused(x) PROVE PartnerUnused(x)'
  <2>1. ASSUME NEW d \in Cids, d = secondary'[x] PROVE users(d)' = 0
    <3>1. d = secondary[x]
      BY <1>11, <2>1, NoCidIsNone
    <3> QED BY <1>3, <1>12, <3>1 DEF PartnerUnused
  <2> QED BY <2>1 DEF PartnerUnused
<1>13. ASSUME NEW x \in Cids, users(x) = 0, secondary[x] = NoCid
       PROVE  users(x)' = 0 /\ secondary'[x] = NoCid /\ state'[x] = state[x]
  <2>1. x \notin cs
    BY <1>4, <1>7, <1>13, NoCidIsNone
  <2> QED BY <1>3, <1>11, <1>13, <2>1
<1>14. ASSUME NEW x \in Cids, PartnerUnused(x)
       PROVE  x = c \/ (state'[x] = state[x] /\ count'[x] = count[x] /\ users(x)' = users(x))
  <2>1. x \in cs => x = c
    BY <1>4, <1>7, <1>14 DEF PartnerUnused
  <2> QED BY <1>3, <1>11, <2>1
<1>15. ASSUME NEW t \in Threads \ {Bip} PROVE KeepsAt(t)'
  <2>1. KeepsIndex(t) /\ KeepsBearer(t) /\ KeepsSecond(t) /\ thread'[t] = thread[t]
    BY <1>2 DEF KeepsHold, KeepsAt
  <2>2. KeepsBearer(t)'
    BY <1>13, <2>1 DEF KeepsBearer
  <2>3. KeepsSecond(t)'
    BY <1>3, <1>13, <2>1 DEF KeepsSecond
  <2>4. ASSUME NEW i \in Cids, i = thread[t].index
        PROVE  /\ thread[t].pc \in SearchPCs => users(i)' = 0 /\ secondary'[i] = NoCid
               /\ thread[t].pc = "activate" => state'[i] = "BUSY"
               /\ thread[t].pc = "put" => i \notin active'
               /\ thread[t].pc \in {"getSecond", "second"} =>
                    users(i)' = 0 /\ secondary'[i] = NoCid /\ state'[i] = "BUSY"
    BY <1>13, <2>1, <2>4 DEF KeepsIndex, SearchPCs, EarlyPCs
  <2>5. ASSUME NEW i \in Cids, i = thread[t].index
        PROVE  /\ thread[t].pc \in {"done", "list"} => (i \in active' => state'[i] = "BUSY")
               /\ thread[t].pc \in {"done", "list"} \cup ReleasePCs => PartnerUnused(i)'
               /\ thread[t].pc \in {"done", "last"} => count'[i] >= users(i)'
               /\ thread[t].pc \in {"leave", "store", "list"} => OneMore(i)'
               /\ thread[t].pc = "store" => thread[t].seen = count'[i] \/ users(i)' = 0
               /\ thread[t].pc \in {"deactivate", "free"} => users(i)' = 0
               /\ thread[t].pc = "list" => s_openchannelCid' = i
    <3>1. CASE thread[t].pc \in {"done", "list"} \cup ReleasePCs
      <4>1. PartnerUnused(i)
        BY <2>1, <2>5, <3>1 DEF KeepsIndex
      <4>2. CASE i = c
        BY <1>3, <1>7, <1>11, <1>12, <2>1, <2>5, <4>1, <4>2 DEF KeepsIndex, OneMore
      <4>3. CASE i # c
        BY <1>12, <1>14, <2>1, <2>5, <4>1, <4>3 DEF KeepsIndex, OneMore, ReleasePCs
      <4> QED BY <4>2, <4>3
    <3> QED BY <3>1 DEF ReleasePCs
  <2>6. KeepsIndex(t)'
    BY <2>1, <2>4, <2>5 DEF KeepsIndex
  <2> QED BY <2>2, <2>3, <2>6 DEF KeepsAt
<1>16. \A t \in Threads : KeepsAt(t)'
  BY <1>2, <1>15, IdleKeeps
<1>17. \A x \in Cids : channel'[x] = "CLOSE"
  BY <1>1 DEF TypeOK
<1>18. CardKeeps'
  BY <1>2, <1>17 DEF CardKeeps, EarlyPCs
<1> QED BY <1>10, <1>16, <1>18 DEF KeepsHold

LEMMA ReadCENDKeeps ==
  ASSUME TypeOK, TypeOK', KeepsHold, ReadCEND, Unless(KeptExcuses)'
  PROVE  KeepsHold'
<1>1. PICK c \in Cids : c = Head(lines)
  BY DEF TypeOK, ReadCEND
<1>2. UNCHANGED <<s_openchannelCid, active, client>>
  BY DEF ReadCEND
<1>3. CASE state[c] # "BUSY"
  <2>1. UNCHANGED <<state, secondary, count, channel, thread>>
    BY <1>1, <1>3 DEF ReadCEND, pdp, openchannel
  <2> QED BY <1>2, <2>1, DropKeeps
<1>4. CASE state[c] = "BUSY"
  <2>1. c \notin active
    BY <1>1 DEF ReadCEND, Unless, KeptExcuses, after
  <2>2. client[c] = 0
    <3>1. ~ client[c] > 0
      BY <1>1, <1>4, <2>1 DEF ReadCEND, Unless, KeptExcuses, after
    <3> QED BY <3>1 DEF TypeOK
  <2>3. CASE channel[c] = "CLOSE"
    <3>1. count' = [count EXCEPT ![c] = 0] /\ UNCHANGED <<state, secondary, channel, thread>>
      BY <1>1, <1>4, <2>3 DEF ReadCEND, pdp
    <3> QED BY <1>2, <2>1, <2>2, <2>3, <3>1, ClearKeeps
  <2>4. CASE channel[c] # "CLOSE"
    <3>1. /\ channel' = [channel EXCEPT ![c] = "CLOSE"]
          /\ putPDP({c, secondary[c]} \ {NoCid})
          /\ thread' = [thread EXCEPT ![Bip] = IF @.pc = "open" /\ @.index = c THEN Rest ELSE @]
      BY <1>1, <1>4, <2>4, Zenon DEF ReadCEND
    <3> QED BY <1>2, <2>1, <2>2, <2>4, <3>1, ChannelEndsKeeps
  <2> QED BY <2>3, <2>4
<1> QED BY <1>3, <1>4 DEF TypeOK

LEMMA KeepsStep == TypeOK /\ OneAtTable /\ Keeps /\ [Next]_vars => Keeps'
<1> SUFFICES ASSUME TypeOK, OneAtTable, Keeps, [Next]_vars, Unless(KeptExcuses)'
             PROVE  KeepsHold'
  BY DEF Keeps
<1>1. Unless(KeptExcuses)
  BY UnlessKept DEF KeptExcuses
<1>2. KeepsHold /\ Unless({"overlap"}) /\ "overlap" \notin happened' /\ TypeOK'
  BY <1>1, TypeStep DEF Keeps, Unless, KeptExcuses
<1>3. ASSUME NEW t \in Threads, Step(t) PROVE KeepsHold'
  BY <1>2, <1>3, StepKeeps
<1>4. CASE Starts
  <2>1. \A t \in Threads : ~ busy(t)
    BY <1>2, <1>4, StartsAlone
  <2> QED BY <1>2, <1>4, <2>1, ClientSetsUpKeeps, ClientReleasesKeeps, BipOpensKeeps, BipClosesKeeps DEF Starts
<1>5. CASE BipLooks \/ BipWaits \/ BipShares \/ BipShared \/ BipSetUp
  <2>1. busy(Bip) /\ Bip \in Threads
    BY <1>5 DEF BipLooks, BipWaits, BipShares, BipShared, BipSetUp, At, busy, Threads
  <2>2. \A u \in Threads \ {Bip} : thread[u].pc \in {"rest", "open"}
    BY <1>2, <2>1, Alone
  <2> QED BY <1>2, <1>5, <2>2, CardLooksKeeps, BipSharesKeeps, BipSharedKeeps, BipSetUpKeeps
<1>6. ASSUME NEW c \in Cids, NetworkDrops(c) PROVE KeepsHold'
  BY <1>2, <1>6, DropKeeps DEF NetworkDrops, pdp, openchannel, globals
<1>7. CASE ReadCEND
  BY <1>2, <1>7, ReadCENDKeeps
<1>8. CASE UNCHANGED vars
  BY <1>2, <1>8, DropKeeps DEF vars, pdp, openchannel, globals, outside
<1> QED BY <1>3, <1>4, <1>5, <1>6, <1>7, <1>8 DEF Next, Starts

LEMMA InitKeeps == Init => Keeps
<1> SUFFICES ASSUME Init PROVE KeepsHold
  BY DEF Keeps
<1>1. \A t \in Threads : thread[t].pc = "rest"
  BY DEF Init, Rest
<1>2. \A c \in Cids : /\ users(c) = 0 /\ count[c] = 0 /\ secondary[c] = NoCid
                      /\ channel[c] = "CLOSE"
  BY <1>1 DEF Init, users, At, Threads
<1>3. \A c \in Cids : KeepsEntry(c)
  BY <1>2 DEF KeepsEntry
<1>4. \A t \in Threads : KeepsAt(t)
  BY <1>1 DEF KeepsAt, KeepsIndex, KeepsBearer, KeepsSecond, SearchPCs, EarlyPCs, ReleasePCs
<1>5. CardKeeps
  BY <1>1, <1>2 DEF CardKeeps, EarlyPCs, Threads
<1> QED BY <1>3, <1>4, <1>5 DEF KeepsHold

LEMMA KeepsInvariant == Spec => [](TypeOK /\ Keeps)
<1>1. Init => Keeps
  BY InitKeeps
<1>2. CallsInv /\ Keeps /\ [Next]_vars => Keeps'
  BY KeepsStep DEF CallsInv
<1>3. CallsInv => TypeOK
  BY DEF CallsInv
<1> QED BY <1>1, <1>2, <1>3, CallsInvariant, PTL DEF Spec

\* the only steps that take a context out of the modem
LEMMA WhoDeactivates ==
  ASSUME TypeOK, [Next]_vars, NEW c \in active \ active'
  PROVE  \/ \E t \in Threads : \/ Reuse(t) /\ c = thread[t].bearer
                               \/ Activate(t) /\ c = thread[t].index
                               \/ Second(t) /\ c = thread[t].second
                               \/ Deactivate(t) /\ c \in {thread[t].index, thread[t].second}
                               \/ Fallback(t)
         \/ \E d \in Cids : NetworkDrops(d)
<1>1. active' # active
  OBVIOUS
<1>2. ASSUME NEW t \in Threads, Step(t)
      PROVE  Reuse(t) \/ Activate(t) \/ Second(t) \/ Deactivate(t) \/ Fallback(t)
  <2>1. ~ (Retry(t) \/ Take(t) \/ Get(t) \/ PutBack(t) \/ Unusable(t) \/ GetSecond(t))
    BY <1>1 DEF Retry, Take, Get, PutBack, Unusable, GetSecond
  <2>2. ~ (Done(t) \/ List(t) \/ Error(t) \/ Tell(t) \/ Leave(t) \/ LeaveStore(t) \/ Last(t) \/ Free(t))
    BY <1>1 DEF Done, List, Error, Tell, Leave, LeaveStore, Last, Free
  <2> QED BY <1>2, <2>1, <2>2 DEF Step
<1>3. ASSUME NEW t \in Threads, Reuse(t) PROVE c = thread[t].bearer
  <2>1. \/ active' = active \cup {thread[t].bearer}
        \/ active' \in {active, active \ {thread[t].bearer}}
    BY <1>3, Zenon DEF Reuse
  <2> QED BY <2>1
<1>4. ASSUME NEW t \in Threads, Activate(t) PROVE c = thread[t].index
  BY <1>4 DEF Activate
<1>5. ASSUME NEW t \in Threads, Second(t) PROVE c = thread[t].second
  BY <1>5 DEF Second
<1>6. ASSUME NEW t \in Threads, Deactivate(t) PROVE c \in {thread[t].index, thread[t].second}
  BY <1>6 DEF Deactivate
<1>7. ASSUME NEW d \in Cids, ClientReleases(d) PROVE FALSE
  BY <1>1, <1>7, Zenon DEF ClientReleases
<1>8. ~ (ClientSetsUp \/ BipOpens \/ BipLooks \/ BipWaits \/ BipShares \/ BipShared)
  BY <1>1 DEF ClientSetsUp, BipOpens, BipLooks, BipWaits, BipShares, BipShared
<1>9. ~ (BipSetUp \/ BipCloses \/ ReadCEND \/ UNCHANGED vars)
  BY <1>1 DEF BipSetUp, BipCloses, ReadCEND, vars
<1> QED BY <1>2, <1>3, <1>4, <1>5, <1>6, <1>7, <1>8, <1>9 DEF Next

(* Only the network takes a context away from those who use it: no path of *)
(* requestSetupDataCall (a bearer that cannot be reused, a context that    *)
(* cannot be activated, the second one of a fallback) and none of          *)
(* deactivateDataConnection (which counts the others out) deactivates the  *)
(* context of a user who stays, with the excuses of KeptWhileUsed.         *)
THEOREM UsersKeepTheirContext == Spec => KeptWhileUsed
<1> DEFINE Kept == \A c \in active \ active' :
                     (usersOf(c) > 0 /\ usersOf(c)' > 0 /\ Unless(KeptExcuses)) =>
                        \/ Len(lines') > Len(lines)
                        \/ \E t \in Threads : At(t, "fallback")
<1>1. TypeOK /\ Keeps /\ [Next]_vars => Kept
  <2> SUFFICES ASSUME TypeOK, Keeps, [Next]_vars, NEW c \in active \ active',
                      usersOf(c) > 0, Unless(KeptExcuses)
               PROVE  Len(lines') > Len(lines) \/ \E t \in Threads : At(t, "fallback")
    OBVIOUS
  <2>1. KeepsHold /\ users(c) > 0 /\ c \in Cids
    BY UsersCount DEF Keeps, TypeOK
  <2>2. ASSUME NEW t \in Threads
        PROVE  /\ KeepsIndex(t) /\ KeepsBearer(t) /\ KeepsSecond(t)
    BY <2>1 DEF KeepsHold, KeepsAt
  <2>3. ASSUME NEW t \in Threads, Reuse(t), c = thread[t].bearer PROVE FALSE
    <3>1. thread[t].pc = "reuse"
      BY <2>3, Zenon DEF Reuse, At
    <3> QED BY <2>1, <2>2, <2>3, <3>1 DEF KeepsBearer
  <2>4. ASSUME NEW t \in Threads, Activate(t), c = thread[t].index PROVE FALSE
    BY <2>1, <2>2, <2>4 DEF KeepsIndex, SearchPCs, EarlyPCs, Activate, At
  <2>5. ASSUME NEW t \in Threads, Second(t), c = thread[t].second PROVE FALSE
    BY <2>1, <2>2, <2>5 DEF KeepsSecond, Second, At
  <2>6. ASSUME NEW t \in Threads, Deactivate(t), c \in {thread[t].index, thread[t].second} PROVE FALSE
    BY <2>1, <2>2, <2>6 DEF KeepsIndex, KeepsSecond, Deactivate, At
  <2>7. ASSUME NEW t \in Threads, Fallback(t) PROVE At(t, "fallback")
    BY <2>7 DEF Fallback
  <2>8. ASSUME NEW d \in Cids, NetworkDrops(d) PROVE Len(lines') > Len(lines)
    <3>1. lines' = Append(lines, d) /\ lines \in Seq(Cids)
      BY <2>8 DEF NetworkDrops, TypeOK
    <3> QED BY <3>1
  <2> QED BY <2>3, <2>4, <2>5, <2>6, <2>7, <2>8, WhoDeactivates
<1>2. TypeOK /\ Keeps /\ [Next]_vars => [Kept]_vars
  BY <1>1
<1>3. Spec => [][Kept]_vars
  BY <1>2, KeepsInvariant, PTL DEF Spec
<1> QED BY <1>3 DEF KeptWhileUsed, KeptExcuses
=============================================================================
