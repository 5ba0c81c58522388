-------------------------- MODULE RadioLocksProofs --------------------------
(***************************************************************************)
(* Proofs about s_radioPowerMutex for any number of requests of the two    *)
(* SIMs, any number of channels and any commands that fail.                *)
(*                                                                         *)
(* The argument: a handler is entered with every mutex of its request      *)
(* locked, in the order of Mutexes, and only unlockRadioPower of the same  *)
(* request gives them up.  A request that applies a capability has both    *)
(* mutexes, every other one of those below has at least one of them.       *)
(***************************************************************************)
EXTENDS RadioLocks, TLAPS

\* The places of a handler, by the kind of its request.
PowerOnPlaces    == {"powerOn", "probe", "probing", "probed", "turnOn"}
CapabilityPlaces == {"capability", "shutDown", "restart"}
AllowPlaces      == {"allow", "detach"}
OtherPlaces      == {"powerOff", "emergency", "deactivate"}
Handling == PowerOnPlaces \cup CapabilityPlaces \cup AllowPlaces \cup OtherPlaces
Outside  == {"queued", "channel", "put", "returned"}

\* A handler is run for a request of its kind.
PlaceFitsKind ==
  \A r \in Requests :
    /\ pc[r] \in PowerOnPlaces => KindOf[r] = "powerOn"
    /\ pc[r] \in CapabilityPlaces => KindOf[r] = "capability"
    /\ pc[r] \in AllowPlaces => KindOf[r] = "allow"
    /\ pc[r] \in OtherPlaces => KindOf[r] = pc[r]

\* Before it is in its handler, a request has locked its first mutexes.
Locking ==
  \A r \in Requests :
    /\ pc[r] \in {"queued", "channel"} => cursor[r] = 1
    /\ pc[r] = "lock" =>
         \A i \in 1 .. Len(Mutexes(r)) : i < cursor[r] => powerMutex[Mutexes(r)[i]] = r

\* In its handler, and until it unlocks them, it has all of them.
Holding ==
  \A r \in Requests : pc[r] \in Handling \cup {"unlock"} =>
    \A m \in MutexesOf(r) : powerMutex[m] = r

LockInv ==
  /\ pc \in [Requests -> Handling \cup Outside \cup {"lock", "unlock"}]
  /\ cursor \in [Requests -> Int]
  /\ powerMutex \in [Sims -> Requests \cup {NoOne}]
  /\ PlaceFitsKind
  /\ Locking
  /\ Holding

-----------------------------------------------------------------------------
\* The mutexes of a request are mutexes of SIMs.
LEMMA MutexesAreSims ==
  ASSUME NEW r \in Requests
  PROVE  /\ Len(Mutexes(r)) \in Nat
         /\ \A i \in 1 .. Len(Mutexes(r)) : Mutexes(r)[i] \in Sims /\ Mutexes(r)[i] \in MutexesOf(r)
         /\ MutexesOf(r) \subseteq Sims
<1>1. SimOf[r] \in Sims /\ Other(SimOf[r]) \in Sims /\ KindOf[r] \in Kinds
  BY RequestsAssumption DEF Other, Sims
<1>2. Mutexes(r) \in Seq(Sims)
  <2>1. CASE KindOf[r] \in {"powerOn", "powerOff", "emergency"}
    <3>1. Mutexes(r) = <<SimOf[r]>>
      BY <2>1 DEF Mutexes
    <3> QED
      BY <1>1, <3>1
  <2>2. CASE KindOf[r] = "capability"
    <3>1. Mutexes(r) = <<1, 2>> /\ 1 \in Sims /\ 2 \in Sims
      BY <2>2 DEF Mutexes, Sims
    <3> QED
      BY <3>1
  <2>3. CASE KindOf[r] = "deactivate"
    <3>1. Mutexes(r) = <<Other(SimOf[r])>>
      BY <2>3 DEF Mutexes
    <3> QED
      BY <1>1, <3>1
  <2>4. CASE KindOf[r] = "allow"
    <3>1. Mutexes(r) = <<>>
      BY <2>4 DEF Mutexes
    <3> QED
      BY <3>1
  <2> QED
    BY <1>1, <2>1, <2>2, <2>3, <2>4 DEF Kinds
<1> QED
  BY <1>2 DEF MutexesOf

\* What a handler locks meets what applySetRadioCapability locks.
LEMMA CapabilityHasBoth ==
  ASSUME NEW r \in Requests
  PROVE  /\ KindOf[r] = "capability" => MutexesOf(r) = Sims
         /\ KindOf[r] \in Kinds \ {"allow"} => MutexesOf(r) # {}
<1>1. KindOf[r] = "capability" => MutexesOf(r) = Sims
  <2> SUFFICES ASSUME KindOf[r] = "capability" PROVE MutexesOf(r) = Sims
    OBVIOUS
  <2>1. Mutexes(r) = <<1, 2>>
    BY DEF Mutexes
  <2>2. 1 .. Len(Mutexes(r)) = {1, 2} /\ Mutexes(r)[1] = 1 /\ Mutexes(r)[2] = 2
    BY <2>1
  <2> QED
    BY <2>2 DEF MutexesOf, Sims
<1>2. KindOf[r] \in Kinds \ {"allow"} => Len(Mutexes(r)) >= 1
  BY DEF Mutexes, Kinds
<1>3. KindOf[r] \in Kinds \ {"allow"} => Mutexes(r)[1] \in MutexesOf(r)
  BY <1>2, MutexesAreSims
<1> QED
  BY <1>1, <1>3

LEMMA LockInit == Init => LockInv
  BY DEF Init, LockInv, PlaceFitsKind, Locking, Holding, Handling, Outside, PowerOnPlaces,
         CapabilityPlaces, AllowPlaces, OtherPlaces

\* A handler moves on: the mutexes stay as they are, and so does its kind.
LEMMA HandlerKeepsLocks ==
  ASSUME LockInv, NEW r \in Requests, handler(r)
  PROVE  LockInv'
<1> USE DEF LockInv, PlaceFitsKind, Locking, Holding, Handling, Outside, PowerOnPlaces,
            CapabilityPlaces, AllowPlaces, OtherPlaces
<1>k. KindOf[r] \in Kinds
  BY RequestsAssumption
<1>1. /\ UNCHANGED powerMutex
      /\ pc[r] \in Handling
      /\ cursor' \in [Requests -> Int]
      /\ \A q \in Requests \ {r} : cursor'[q] = cursor[q]
      /\ \E p \in Handling \cup {"unlock", "put"} :
            /\ pc' = [pc EXCEPT ![r] = p]
            /\ \/ p \in {"unlock", "put"}
               \/ {pc[r], p} \subseteq PowerOnPlaces
               \/ {pc[r], p} \subseteq CapabilityPlaces
               \/ {pc[r], p} \subseteq AllowPlaces
  <2>1. CASE powerOff(r) \/ powerOn(r) \/ probeNext(r) \/ probeGetsChannel(r) \/ turnOn(r)
    BY <2>1 DEF powerOff, powerOn, probeNext, probeGetsChannel, turnOn, GoTo
  <2>2. CASE probeSIM(r)
    <3>1. /\ pc[r] = "probed"
          /\ cursor' = [cursor EXCEPT ![r] = cursor[r] + 1]
          /\ pc' = [pc EXCEPT ![r] = IF cursor[r] = 2 THEN "turnOn" ELSE "probe"]
          /\ UNCHANGED powerMutex
      BY <2>2 DEF probeSIM, GoTo
    <3>2. PICK p \in {"turnOn", "probe"} : pc' = [pc EXCEPT ![r] = p]
      BY <3>1
    <3>3. {pc[r], p} \subseteq PowerOnPlaces
      BY <3>1
    <3>4. cursor' \in [Requests -> Int] /\ \A q \in Requests \ {r} : cursor'[q] = cursor[q]
      BY <3>1
    <3> QED
      BY <3>1, <3>2, <3>3, <3>4
  <2>3. CASE capability(r) \/ shutDownGetsChannel(r)
    BY <2>3 DEF capability, shutDownGetsChannel, GoTo
  <2>4. CASE shutDown(r) \/ shutDownFails(r)
    BY <2>4 DEF shutDown, shutDownFails, GoTo
  <2>5. CASE restart(r, FALSE) \/ restartFails(r)
    BY <2>5 DEF restart, restartFails, GoTo
  <2>6. CASE workUnderMutex(r) \/ detachGetsChannel(r) \/ doDetachGPRS(r)
    BY <2>6 DEF workUnderMutex, detachGetsChannel, doDetachGPRS, GoTo
  <2> QED
    BY <2>1, <2>2, <2>3, <2>4, <2>5, <2>6 DEF handler
<1>2. PICK p \in Handling \cup {"unlock", "put"} :
            /\ pc' = [pc EXCEPT ![r] = p]
            /\ \/ p \in {"unlock", "put"}
               \/ {pc[r], p} \subseteq PowerOnPlaces
               \/ {pc[r], p} \subseteq CapabilityPlaces
               \/ {pc[r], p} \subseteq AllowPlaces
  BY <1>1
<1> QED
  BY <1>1, <1>2

LEMMA LockStep == LockInv /\ [Next]_vars => LockInv'
<1> SUFFICES ASSUME LockInv, [Next]_vars PROVE LockInv'
  OBVIOUS
<1> USE DEF LockInv, PlaceFitsKind, Locking, Holding, Handling, Outside, PowerOnPlaces,
            CapabilityPlaces, AllowPlaces, OtherPlaces
<1>1. ASSUME NEW r \in Requests, processRequest(r) \/ getOwnChannel(r) \/ putOwnChannel(r)
      PROVE  LockInv'
  BY <1>1 DEF processRequest, getOwnChannel, putOwnChannel, GoTo
<1>2. ASSUME NEW r \in Requests, lockRadioPower(r) PROVE LockInv'
  <2>1. CASE cursor[r] > Len(Mutexes(r))
    <3>1. /\ pc' = [pc EXCEPT ![r] = KindOf[r]] /\ pc[r] = "lock"
          /\ cursor' = [cursor EXCEPT ![r] = 1] /\ UNCHANGED powerMutex
      BY <1>2, <2>1 DEF lockRadioPower, GoTo
    <3>2. \A m \in MutexesOf(r) : powerMutex[m] = r
      BY <2>1, <3>1, MutexesAreSims DEF MutexesOf
    <3>3. KindOf[r] \in Kinds
      BY RequestsAssumption
    <3> QED
      BY <3>1, <3>2, <3>3 DEF Kinds
  <2>2. CASE ~(cursor[r] > Len(Mutexes(r)))
    <3> DEFINE m == Mutexes(r)[cursor[r]]
    <3>1. /\ powerMutex[m] = NoOne /\ pc[r] = "lock"
          /\ powerMutex' = [powerMutex EXCEPT ![m] = r]
          /\ cursor' = [cursor EXCEPT ![r] = cursor[r] + 1] /\ UNCHANGED pc
      BY <1>2, <2>2 DEF lockRadioPower
    <3>2. \A q \in Requests, n \in Sims : powerMutex[n] = q => powerMutex'[n] = q
      BY <3>1, RequestsAssumption
    <3>3. ASSUME NEW i \in 1 .. Len(Mutexes(r)), i < cursor[r] + 1
          PROVE  powerMutex'[Mutexes(r)[i]] = r
      <4>1. CASE i = cursor[r]
        BY <3>1, <4>1, MutexesAreSims
      <4>2. CASE i # cursor[r]
        <5>1. i < cursor[r] /\ Mutexes(r)[i] \in Sims
          BY <3>3, <4>2, MutexesAreSims
        <5> QED
          BY <3>1, <3>2, <5>1
      <4> QED
        BY <4>1, <4>2
    <3>4. Locking'
      <4>1. ASSUME NEW q \in Requests \ {r}, pc[q] = "lock", NEW i \in 1 .. Len(Mutexes(q)), i < cursor[q]
            PROVE  powerMutex'[Mutexes(q)[i]] = q
        BY <3>2, <4>1, MutexesAreSims
      <4> QED
        BY <3>1, <3>3, <4>1
    <3>5. Holding'
      BY <3>1, <3>2, MutexesAreSims
    <3>6. cursor' \in [Requests -> Int] /\ powerMutex' \in [Sims -> Requests \cup {NoOne}]
      <4>1. cursor[r] + 1 \in Int /\ cursor \in [Requests -> Int]
        OBVIOUS
      <4>2. cursor' \in [Requests -> Int]
        BY ONLY <3>1, <4>1
      <4>3. powerMutex \in [Sims -> Requests \cup {NoOne}]
        OBVIOUS
      <4>4. powerMutex' \in [Sims -> Requests \cup {NoOne}]
        BY ONLY <3>1, <4>3, r \in Requests
      <4> QED
        BY <4>2, <4>4
    <3>7. PlaceFitsKind' /\ pc' \in [Requests -> Handling \cup Outside \cup {"lock", "unlock"}]
      BY <3>1
    <3> QED
      BY ONLY <3>4, <3>5, <3>6, <3>7 DEF LockInv
  <2> QED
    BY <2>1, <2>2
<1>3. ASSUME NEW r \in Requests, handler(r) PROVE LockInv'
  BY <1>3, HandlerKeepsLocks
<1>4. ASSUME NEW r \in Requests, unlockRadioPower(r) PROVE LockInv'
  <2>1. /\ pc[r] = "unlock" /\ pc' = [pc EXCEPT ![r] = "put"] /\ UNCHANGED cursor
        /\ powerMutex' = [m \in Sims |-> IF m \in MutexesOf(r) THEN NoOne ELSE powerMutex[m]]
    BY <1>4 DEF unlockRadioPower, GoTo
  <2>2. \A q \in Requests \ {r}, m \in Sims : powerMutex[m] = q => powerMutex'[m] = q
    BY <2>1
  <2>3. Locking'
    <3>1. ASSUME NEW q \in Requests \ {r}, pc[q] = "lock", NEW i \in 1 .. Len(Mutexes(q)), i < cursor[q]
          PROVE  powerMutex'[Mutexes(q)[i]] = q
      BY <2>2, <3>1, MutexesAreSims
    <3> QED
      BY <2>1, <3>1
  <2>4. Holding'
    BY <2>1, <2>2, MutexesAreSims
  <2> QED
    BY <2>1, <2>3, <2>4
<1>5. CASE UNCHANGED vars
  BY <1>5 DEF vars
<1> QED
  BY <1>1, <1>2, <1>3, <1>4, <1>5 DEF Next, Step

(* While applySetRadioCapability restarts the radios, no other request is  *)
(* between its look at the state of a radio and its change, however many   *)
(* requests of either SIM there are and whichever commands fail.           *)
THEOREM RestartsAreAlone == Spec => []RestartIsAlone
<1>1. LockInv => RestartIsAlone
  <2> SUFFICES ASSUME LockInv, NEW q \in Requests, NEW r \in Requests \ {q},
                      pc[q] \in CapabilityPlaces,
                      pc[r] \in PowerOnPlaces \cup CapabilityPlaces \cup OtherPlaces
               PROVE  FALSE
    BY DEF RestartIsAlone, PowerOnPlaces, CapabilityPlaces, OtherPlaces
  <2>1. KindOf[q] = "capability"
    BY DEF LockInv, PlaceFitsKind
  <2>2. KindOf[r] \in Kinds \ {"allow"}
    BY DEF LockInv, PlaceFitsKind, OtherPlaces, Kinds
  <2>3. PICK m \in MutexesOf(r) : m \in Sims
    BY <2>2, CapabilityHasBoth, MutexesAreSims
  <2>4. powerMutex[m] = r /\ powerMutex[m] = q
    BY <2>1, <2>3, CapabilityHasBoth DEF LockInv, Holding, Handling
  <2> QED
    BY <2>4
<1> QED
  BY LockInit, LockStep, <1>1, PTL DEF Spec

-----------------------------------------------------------------------------
(* What a request keeps.  A mutex is locked only for a request that is     *)
(* between lockRadioPower and unlockRadioPower; how many channels a        *)
(* request has is a matter of its place and of the SIM its loop is at.     *)

Inside == Handling \cup {"lock", "unlock"}

Owners ==
  \A r \in Requests, m \in Sims : powerMutex[m] = r => pc[r] \in Inside /\ m \in MutexesOf(r)

\* The places in which a loop over the SIMs is at cursor or about to begin.
InLoop == {"powerOn", "probe", "probing", "probed", "capability", "shutDown", "restart"}

\* The channels of its own SIM: the one of processRequest, and the one of
\* initSIMPresentState while it probes that SIM.
OwnChannels(r) ==
  /\ pc[r] \in {"queued", "channel", "returned"} => held[r][SimOf[r]] = 0
  /\ pc[r] \in Inside \cup {"put"} =>
       held[r][SimOf[r]] = IF pc[r] = "probed" /\ cursor[r] = SimOf[r] THEN 2 ELSE 1

\* When it may have one of the other SIM.
MayHaveOther(r) ==
  \/ pc[r] = "probed" /\ cursor[r] = Other(SimOf[r])
  \/ pc[r] \in {"detach", "shutDown"}
  \/ pc[r] = "restart" /\ (CommandsFail \/ cursor[r] <= Other(SimOf[r]))
  \/ CommandsFail /\ KindOf[r] = "capability" /\ pc[r] \in {"unlock", "put", "returned"}

OtherChannels(r) ==
  /\ held[r][Other(SimOf[r])] \in {0, 1}
  /\ held[r][Other(SimOf[r])] = 1 => MayHaveOther(r)

Borrowed ==
  \A r \in Requests : /\ pc[r] \in InLoop => cursor[r] \in {1, 2}
                      /\ OwnChannels(r)
                      /\ OtherChannels(r)

KeepInv ==
  /\ LockInv
  /\ cursor \in [Requests -> Nat \ {0}]
  /\ held \in [Requests -> [Sims -> Int]]
  /\ Owners
  /\ Borrowed

LEMMA TwoSims ==
  ASSUME NEW r \in Requests
  PROVE  /\ SimOf[r] \in {1, 2} /\ Other(SimOf[r]) \in {1, 2}
         /\ Other(SimOf[r]) # SimOf[r]
         /\ \A s \in {1, 2} : s = SimOf[r] \/ s = Other(SimOf[r])
         /\ Sims = {1, 2} /\ KindOf[r] \in Kinds
  BY RequestsAssumption DEF Other, Sims

LEMMA ChannelGot ==
  ASSUME held \in [Requests -> [Sims -> Int]], NEW r \in Requests, NEW s \in Sims, getChannel(r, s)
  PROVE  /\ held' \in [Requests -> [Sims -> Int]]
         /\ held'[r][s] = held[r][s] + 1
         /\ \A x \in Sims \ {s} : held'[r][x] = held[r][x]
         /\ \A q \in Requests \ {r} : held'[q] = held[q]
<1>1. held' = [held EXCEPT ![r] = [held[r] EXCEPT ![s] = held[r][s] + 1]]
  BY DEF getChannel
<1>2. [held[r] EXCEPT ![s] = held[r][s] + 1] \in [Sims -> Int]
  OBVIOUS
<1> QED BY <1>1, <1>2

LEMMA ChannelPut ==
  ASSUME held \in [Requests -> [Sims -> Int]], NEW r \in Requests, NEW s \in Sims, putChannel(r, s)
  PROVE  /\ held' \in [Requests -> [Sims -> Int]]
         /\ held'[r][s] = IF held[r][s] = 0 THEN 0 ELSE held[r][s] - 1
         /\ \A x \in Sims \ {s} : held'[r][x] = held[r][x]
         /\ \A q \in Requests \ {r} : held'[q] = held[q]
<1>1. CASE held[r][s] = 0
  BY <1>1 DEF putChannel
<1>2. CASE held[r][s] # 0
  <2>1. held' = [held EXCEPT ![r] = [held[r] EXCEPT ![s] = held[r][s] - 1]]
    BY <1>2 DEF putChannel
  <2>2. [held[r] EXCEPT ![s] = held[r][s] - 1] \in [Sims -> Int]
    OBVIOUS
  <2> QED BY <1>2, <2>1, <2>2
<1> QED BY <1>1, <1>2

(* The requests that do not take the step keep what they have.             *)
LEMMA OthersKeep ==
  ASSUME Borrowed, NEW r \in Requests,
         \A q \in Requests \ {r} : /\ pc'[q] = pc[q] /\ cursor'[q] = cursor[q]
                                   /\ held'[q] = held[q],
         pc'[r] \in InLoop => cursor'[r] \in {1, 2},
         OwnChannels(r)', OtherChannels(r)'
  PROVE  Borrowed'
<1>1. ASSUME NEW q \in Requests \ {r}
      PROVE  /\ (pc[q] \in InLoop => cursor[q] \in {1, 2})'
             /\ OwnChannels(q)' /\ OtherChannels(q)'
  BY DEF Borrowed, OwnChannels, OtherChannels, MayHaveOther
<1> QED BY <1>1 DEF Borrowed

LEMMA KeepInit == Init => KeepInv
<1> SUFFICES ASSUME Init PROVE KeepInv
  OBVIOUS
<1>1. /\ LockInv /\ Owners
      /\ held \in [Requests -> [Sims -> Int]] /\ cursor \in [Requests -> Nat \ {0}]
  BY LockInit, RequestsAssumption DEF Init, Owners
<1>2. Borrowed
  BY TwoSims
  DEF Init, Borrowed, OwnChannels, OtherChannels, MayHaveOther, InLoop, Inside, Handling,
      PowerOnPlaces, CapabilityPlaces, AllowPlaces, OtherPlaces
<1> QED BY <1>1, <1>2 DEF KeepInv

-----------------------------------------------------------------------------
(* Only lockRadioPower locks a mutex, and unlockRadioPower comes after it. *)
LEMMA OwnersStep ==
  ASSUME LockInv, cursor \in [Requests -> Nat \ {0}], Owners, NEW r \in Requests, Step(r)
  PROVE  Owners'
<1> USE DEF Inside, Handling, PowerOnPlaces, CapabilityPlaces, AllowPlaces, OtherPlaces
<1>t. /\ pc \in [Requests -> Handling \cup Outside \cup {"lock", "unlock"}]
      /\ powerMutex \in [Sims -> Requests \cup {NoOne}]
      /\ PlaceFitsKind
  BY DEF LockInv
<1>1. CASE processRequest(r) \/ getOwnChannel(r) \/ putOwnChannel(r)
  BY <1>t, <1>1 DEF processRequest, getOwnChannel, putOwnChannel, GoTo, Owners
<1>2. CASE lockRadioPower(r)
  <2>1. CASE cursor[r] > Len(Mutexes(r))
    <3>1. pc' = [pc EXCEPT ![r] = KindOf[r]] /\ UNCHANGED powerMutex /\ KindOf[r] \in Kinds
      BY <1>2, <2>1, TwoSims DEF lockRadioPower, GoTo
    <3> QED BY <1>t, <3>1 DEF Owners, Kinds
  <2>2. CASE ~(cursor[r] > Len(Mutexes(r)))
    <3>1. PICK m : /\ m = Mutexes(r)[cursor[r]] /\ pc[r] = "lock" /\ UNCHANGED pc
                   /\ powerMutex' = [powerMutex EXCEPT ![m] = r]
      BY <1>2, <2>2 DEF lockRadioPower
    <3>2. cursor[r] \in 1 .. Len(Mutexes(r))
      BY <2>2, MutexesAreSims
    <3>3. m \in MutexesOf(r)
      BY <3>1, <3>2, MutexesAreSims
    <3> QED BY <1>t, <3>1, <3>3 DEF Owners
  <2> QED BY <2>1, <2>2
<1>3. CASE handler(r) /\ ~doDetachGPRS(r)
  <2>1. UNCHANGED powerMutex /\ pc[r] \in Handling
    BY <1>3
    DEF handler, powerOff, powerOn, probeNext, probeGetsChannel, probeSIM, turnOn, capability,
        shutDownGetsChannel, shutDown, shutDownFails, restart, restartFails, workUnderMutex,
        detachGetsChannel
  <2>2. \E p \in Inside : pc' = [pc EXCEPT ![r] = p]
    <3>1. CASE powerOff(r) \/ powerOn(r) \/ probeNext(r) \/ probeGetsChannel(r) \/ turnOn(r)
      BY <1>t, <3>1 DEF powerOff, powerOn, probeNext, probeGetsChannel, turnOn, GoTo
    <3>2. CASE probeSIM(r)
      BY <3>2 DEF probeSIM, GoTo
    <3>3. CASE capability(r) \/ shutDownGetsChannel(r)
      BY <1>t, <3>3 DEF capability, shutDownGetsChannel, GoTo
    <3>4. CASE shutDown(r) \/ shutDownFails(r)
      BY <1>t, <3>4 DEF shutDown, shutDownFails, GoTo
    <3>5. CASE restart(r, FALSE) \/ restartFails(r)
      BY <1>t, <3>5 DEF restart, restartFails, GoTo
    <3>6. CASE workUnderMutex(r) \/ detachGetsChannel(r)
      BY <3>6 DEF workUnderMutex, detachGetsChannel, GoTo
    <3> QED BY <1>3, <3>1, <3>2, <3>3, <3>4, <3>5, <3>6 DEF handler
  <2> QED BY <1>t, <2>1, <2>2 DEF Owners
<1>4. CASE doDetachGPRS(r)
  <2>1. pc[r] = "detach" /\ UNCHANGED powerMutex /\ pc' = [pc EXCEPT ![r] = "put"]
    BY <1>4 DEF doDetachGPRS, GoTo
  <2>2. KindOf[r] = "allow"
    BY <1>t, <2>1 DEF PlaceFitsKind
  <2>3. MutexesOf(r) = {}
    <3>1. Mutexes(r) = <<>>
      BY <2>2 DEF Mutexes
    <3> QED BY <3>1 DEF MutexesOf
  <2> QED BY <1>t, <2>1, <2>3 DEF Owners
<1>5. CASE unlockRadioPower(r)
  BY <1>t, <1>5, RequestsAssumption DEF unlockRadioPower, GoTo, Owners
<1> QED BY <1>1, <1>2, <1>3, <1>4, <1>5 DEF Step

-----------------------------------------------------------------------------
(* What each step does to the channels of the request that takes it.       *)
LEMMA BorrowedStep ==
  ASSUME LockInv, held \in [Requests -> [Sims -> Int]], Borrowed, NEW r \in Requests, Step(r)
  PROVE  held' \in [Requests -> [Sims -> Int]] /\ Borrowed'
<1> USE DEF Inside, Handling, PowerOnPlaces, CapabilityPlaces, AllowPlaces, OtherPlaces, InLoop,
            OwnChannels, OtherChannels, MayHaveOther
<1> DEFINE own == SimOf[r]
           oth == Other(SimOf[r])
<1>s. /\ own \in {1, 2} /\ oth \in {1, 2} /\ oth # own /\ Sims = {1, 2}
      /\ \A s \in {1, 2} : s = own \/ s = oth
      /\ KindOf[r] \in Kinds
  BY TwoSims
<1> HIDE DEF own, oth
<1>t. /\ pc \in [Requests -> Handling \cup Outside \cup {"lock", "unlock"}]
      /\ cursor \in [Requests -> Int]
      /\ PlaceFitsKind
  BY DEF LockInv
<1>b. /\ pc[r] \in InLoop => cursor[r] \in {1, 2}
      /\ OwnChannels(r) /\ OtherChannels(r)
  BY DEF Borrowed
<1>1. CASE processRequest(r) \/ lockRadioPower(r) \/ unlockRadioPower(r)
  <2>1. /\ UNCHANGED held
        /\ \A q \in Requests \ {r} : pc'[q] = pc[q] /\ cursor'[q] = cursor[q]
    BY <1>t, <1>1 DEF processRequest, lockRadioPower, unlockRadioPower, GoTo
  <2>2. \/ pc[r] = "queued" /\ pc'[r] \in {"channel", "returned"}
        \/ pc[r] = "lock" /\ pc'[r] = "lock"
        \/ pc[r] = "lock" /\ pc'[r] = KindOf[r] /\ cursor'[r] = 1
        \/ pc[r] = "unlock" /\ pc'[r] = "put" /\ cursor'[r] = cursor[r]
    BY <1>t, <1>1 DEF processRequest, lockRadioPower, unlockRadioPower, GoTo
  <2> QED BY <1>s, <1>b, <2>1, <2>2, OthersKeep DEF Kinds, own, oth
<1>2. CASE getOwnChannel(r) \/ detachGetsChannel(r) \/ probeGetsChannel(r) \/ shutDownGetsChannel(r)
  <2>1. PICK s \in Sims : /\ getChannel(r, s)
                          /\ \/ getOwnChannel(r) /\ s = own
                             \/ detachGetsChannel(r) /\ s = oth
                             \/ probeGetsChannel(r) /\ s = cursor[r]
                             \/ shutDownGetsChannel(r) /\ s = cursor[r]
    BY <1>s, <1>b, <1>2
    DEF getOwnChannel, detachGetsChannel, probeGetsChannel, shutDownGetsChannel, own, oth
  <2>2. /\ held' \in [Requests -> [Sims -> Int]]
        /\ held'[r][s] = held[r][s] + 1
        /\ \A x \in Sims \ {s} : held'[r][x] = held[r][x]
        /\ \A q \in Requests \ {r} : held'[q] = held[q]
    BY <2>1, ChannelGot
  <2>3. /\ UNCHANGED cursor
        /\ \A q \in Requests \ {r} : pc'[q] = pc[q]
        /\ \/ pc[r] = "channel" /\ pc'[r] = "lock" /\ s = own
           \/ pc[r] = "allow" /\ pc'[r] = "detach" /\ s = oth
           \/ pc[r] = "probing" /\ pc'[r] = "probed" /\ s = cursor[r]
           \/ pc[r] = "shutDown" /\ pc'[r] = "shutDown" /\ s # own /\ held[r][s] = 0
    BY <1>t, <2>1
    DEF getOwnChannel, detachGetsChannel, probeGetsChannel, shutDownGetsChannel, GoTo, own
  <2> QED BY <1>s, <1>b, <2>2, <2>3, OthersKeep DEF own, oth
<1>3. CASE powerOff(r) \/ powerOn(r) \/ turnOn(r) \/ probeNext(r) \/ capability(r)
           \/ shutDown(r) \/ workUnderMutex(r)
  <2>1. /\ UNCHANGED held
        /\ \A q \in Requests \ {r} : pc'[q] = pc[q] /\ cursor'[q] = cursor[q]
    BY <1>t, <1>3
    DEF powerOff, powerOn, turnOn, probeNext, capability, shutDown, workUnderMutex, GoTo
  <2>2. \/ pc[r] \in {"powerOff", "turnOn", "deactivate", "emergency"} /\ pc'[r] = "unlock"
        \/ pc[r] = "powerOn" /\ pc'[r] \in {"unlock", "probe"} /\ cursor'[r] = cursor[r]
        \/ pc[r] = "probe" /\ pc'[r] = "probing" /\ cursor'[r] = cursor[r]
        \/ pc[r] = "probe" /\ pc'[r] \in {"probe", "turnOn"}
           /\ (pc'[r] = "probe" => cursor[r] # 2 /\ cursor'[r] = cursor[r] + 1)
        \/ pc[r] = "capability" /\ pc'[r] \in {"unlock", "shutDown"} /\ cursor'[r] = cursor[r]
        \/ pc[r] = "shutDown" /\ pc'[r] = "shutDown" /\ cursor'[r] \in {1, 2}
        \/ pc[r] = "shutDown" /\ pc'[r] = "restart" /\ cursor'[r] = 1
    BY <1>t, <1>3
    DEF powerOff, powerOn, turnOn, probeNext, capability, shutDown, workUnderMutex, GoTo
  <2> QED BY <1>s, <1>b, <2>1, <2>2, OthersKeep DEF own, oth
<1>4. CASE probeSIM(r) \/ doDetachGPRS(r) \/ putOwnChannel(r)
  <2>1. PICK s \in Sims : /\ putChannel(r, s)
                          /\ \/ probeSIM(r) /\ s = cursor[r]
                             \/ doDetachGPRS(r) /\ s = oth
                             \/ putOwnChannel(r) /\ s = own
    BY <1>s, <1>b, <1>4 DEF probeSIM, doDetachGPRS, putOwnChannel, own, oth
  <2>2. /\ held' \in [Requests -> [Sims -> Int]]
        /\ held'[r][s] = IF held[r][s] = 0 THEN 0 ELSE held[r][s] - 1
        /\ \A x \in Sims \ {s} : held'[r][x] = held[r][x]
        /\ \A q \in Requests \ {r} : held'[q] = held[q]
    BY <2>1, ChannelPut
  <2>3. \A q \in Requests \ {r} : pc'[q] = pc[q] /\ cursor'[q] = cursor[q]
    BY <1>t, <2>1 DEF probeSIM, doDetachGPRS, putOwnChannel, GoTo
  <2>4. \/ /\ pc[r] = "probed" /\ s = cursor[r] /\ pc'[r] \in {"turnOn", "probe"}
           /\ pc'[r] = "probe" => cursor'[r] = cursor[r] + 1 /\ cursor[r] # 2
        \/ pc[r] = "detach" /\ pc'[r] = "put" /\ s = oth
        \/ pc[r] = "put" /\ pc'[r] = "returned" /\ s = own
    BY <1>t, <2>1 DEF probeSIM, doDetachGPRS, putOwnChannel, GoTo
  <2> QED BY <1>s, <1>b, <2>2, <2>3, <2>4, OthersKeep DEF own, oth
<1>5. CASE shutDownFails(r)
  <2>1. /\ CommandsFail /\ pc[r] = "shutDown" /\ pc'[r] = "unlock" /\ KindOf[r] = "capability"
        /\ \A q \in Requests \ {r} : pc'[q] = pc[q] /\ cursor'[q] = cursor[q]
    BY <1>t, <1>5 DEF shutDownFails, GoTo, PlaceFitsKind
  <2>2. /\ held' \in [Requests -> [Sims -> Int]]
        /\ held'[r][oth] \in {held[r][oth], 0, held[r][oth] - 1}
        /\ held[r][oth] = 0 => held'[r][oth] = 0
        /\ held'[r][own] = held[r][own]
        /\ \A q \in Requests \ {r} : held'[q] = held[q]
    <3>1. UNCHANGED held \/ putChannel(r, oth)
      BY <1>5 DEF shutDownFails, oth
    <3> QED BY <1>s, <3>1, ChannelPut
  <2> QED BY <1>s, <1>b, <2>1, <2>2, OthersKeep DEF own, oth
<1>6. CASE restart(r, FALSE) \/ restartFails(r)
  <2>1. /\ pc[r] = "restart" /\ pc'[r] \in {"restart", "unlock"} /\ KindOf[r] = "capability"
        /\ cursor'[r] = cursor[r] + 1
        /\ cursor[r] = 2 => pc'[r] = "unlock"
        /\ pc'[r] = "unlock" => CommandsFail \/ cursor[r] = 2
        /\ \A q \in Requests \ {r} : pc'[q] = pc[q] /\ cursor'[q] = cursor[q]
    BY <1>t, <1>6 DEF restart, restartFails, GoTo, PlaceFitsKind
  <2>2. /\ held' \in [Requests -> [Sims -> Int]]
        /\ held'[r][own] = held[r][own]
        /\ held'[r][oth] = IF cursor[r] = oth /\ held[r][oth] # 0 THEN held[r][oth] - 1
                           ELSE held[r][oth]
        /\ \A q \in Requests \ {r} : held'[q] = held[q]
    <3>1. IF cursor[r] = oth THEN putChannel(r, oth) ELSE UNCHANGED held
      BY <1>s, <1>b, <1>6, <2>1 DEF restart, restartFails, own
    <3> QED BY <1>s, <1>b, <3>1, ChannelPut
  <2> QED BY <1>s, <1>b, <2>1, <2>2, OthersKeep DEF own, oth
<1> QED BY <1>1, <1>2, <1>3, <1>4, <1>5, <1>6 DEF Step, handler

-----------------------------------------------------------------------------
LEMMA KeepStep == KeepInv /\ [Next]_vars => KeepInv'
<1> SUFFICES ASSUME KeepInv, [Next]_vars PROVE KeepInv'
  OBVIOUS
<1>1. ASSUME NEW r \in Requests, Step(r) PROVE KeepInv'
  <2>1. LockInv'
    BY <1>1, LockStep DEF KeepInv, Next
  <2>2. cursor' \in [Requests -> Nat \ {0}]
    BY <1>1
    DEF KeepInv, Step, handler, processRequest, getOwnChannel, lockRadioPower, unlockRadioPower,
        putOwnChannel, powerOff, powerOn, probeNext, probeGetsChannel, probeSIM, turnOn,
        capability, shutDownGetsChannel, shutDown, shutDownFails, restart, restartFails,
        workUnderMutex, detachGetsChannel, doDetachGPRS
  <2>3. Owners'
    BY <1>1, OwnersStep DEF KeepInv
  <2>4. held' \in [Requests -> [Sims -> Int]] /\ Borrowed'
    BY <1>1, BorrowedStep DEF KeepInv
  <2> QED BY <2>1, <2>2, <2>3, <2>4 DEF KeepInv
<1>2. CASE UNCHANGED vars
  <2>1. LockInv'
    BY <1>2, LockStep DEF KeepInv
  <2> QED
    BY <1>2, <2>1
    DEF KeepInv, Owners, Borrowed, OwnChannels, OtherChannels, MayHaveOther, vars
<1> QED BY <1>1, <1>2 DEF Next

(* A request that has returned has unlocked the mutexes and put the        *)
(* channels, whatever way its handler took, but for the one channel of the *)
(* other SIM that applySetRadioCapability keeps after a command that failed*)
(* (ril_network.c 3084-3095, 3129-3140).                                   *)
THEOREM ReturnsWhatItTook == Spec => []NothingKept
<1>1. KeepInv => NothingKept
  <2> SUFFICES ASSUME KeepInv, NEW r \in Requests, pc[r] = "returned"
               PROVE  /\ \A m \in Sims : powerMutex[m] # r
                      /\ held[r][SimOf[r]] = 0
                      /\ held[r][Other(SimOf[r])]
                           <= IF CommandsFail /\ KindOf[r] = "capability" THEN 1 ELSE 0
    BY DEF NothingKept
  <2>1. \A m \in Sims : powerMutex[m] # r
    BY DEF KeepInv, Owners, Inside, Handling, PowerOnPlaces, CapabilityPlaces, AllowPlaces,
           OtherPlaces
  <2> QED BY <2>1 DEF KeepInv, Borrowed, OwnChannels, OtherChannels, MayHaveOther
<1> QED BY KeepInit, KeepStep, <1>1, PTL DEF Spec
=============================================================================
