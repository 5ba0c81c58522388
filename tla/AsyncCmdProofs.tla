--------------------------- MODULE AsyncCmdProofs ---------------------------
(***************************************************************************)
(* Proofs about the requests that an unsolicited line or a timer answers,  *)
(* for any number of requests of any kind on the two SIMs, any threads and *)
(* any number of retries.  Commands may fail at any time, also after their *)
(* entry was used up.                                                      *)
(*                                                                         *)
(* The argument: a request's entry is on one of the two lists at most      *)
(* once, and from the moment it is added exactly one of the line, the      *)
(* timer and the request's own thread takes it away; whoever does answers, *)
(* and so does a thread that finds it gone, which missed counts.  As long  *)
(* as no thread has, the request holds its mutexes while its entry is      *)
(* there, so the one who uses it up unlocks what nobody else holds.        *)
(***************************************************************************)
EXTENDS AsyncCmd, SequenceTheorems, TLAPS

PCs == {"new", "start", "add", "run", "send", "waitAT", "sent", "retry", "fail",
        "finish", "answer", "unlock", "done"}

TypeOK ==
    /\ pc \in [Requests -> PCs]
    /\ locked \in [Requests -> Nat]
    /\ held \in [Sims -> Requests \cup {Free}]
    /\ timerList \in Seq(Requests)
    /\ pendingList \in Seq(Requests)
    /\ urcDue \in SUBSET Requests
    /\ retries \in [Requests -> Nat]
    /\ completed \in [Requests -> Nat]
    /\ missed \in [Requests -> Nat]

Distinct(s) == \A i, j \in DOMAIN s : s[i] = s[j] => i = j

Timed   == Elements(timerList)
Expired == Elements(pendingList)
Listed  == Timed \cup Expired

EntriesOnce ==
    /\ Distinct(timerList)
    /\ Distinct(pendingList)
    /\ Timed \cap Expired = {}

\* Where the thread of r is while its entry is on a list.
EntryPlace(r) ==
    /\ r \in Listed => Async(r)
    /\ r \in Timed => pc[r] \in {"send", "waitAT", "sent", "retry", "fail"}
    /\ r \in Expired => pc[r] \notin {"new", "start", "add", "run", "retry"}
    /\ r \in Expired /\ TestMode(r) => pc[r] = "sent"
    /\ pc[r] \in {"add", "send", "waitAT", "sent", "retry", "fail"} => Async(r)
    /\ pc[r] = "retry" => TestMode(r)

\* One answer of r is given or its entry stands for it.
Due == {"send", "waitAT", "sent", "retry", "fail", "unlock", "done"}

Committed(r) == pc[r] \in Due

Entries(r) == IF r \in Listed THEN 1 ELSE 0

\* The answers of r, given and standing on a list, are one, from the moment its
\* thread commits itself to one, and one for each entry the thread missed.
Accounted(r) ==
    /\ Committed(r)  => completed[r] + Entries(r) = missed[r] + 1
    /\ ~Committed(r) => completed[r] + Entries(r) = missed[r]

LockedSoFar(r) ==
    /\ pc[r] = "new" => locked[r] = 0
    /\ pc[r] = "start" => locked[r] <= Len(Locks(r))

PerRequest(r) == EntryPlace(r) /\ Accounted(r) /\ LockedSoFar(r)

\* On its way in a request holds the mutexes it has locked so far.
HoldsOnEntry(r) == pc[r] = "start" => \A i \in 1 .. locked[r] : held[Locks(r)[i]] = r

\* Inside it holds them all.
HoldsInside(r) == Inside(r) => \A s \in LockSet(r) : held[s] = r

AsyncInv ==
    /\ TypeOK
    /\ EntriesOnce
    /\ \A r \in Requests : PerRequest(r)
    /\ NoneMissed => \A r \in Requests : HoldsOnEntry(r) /\ HoldsInside(r)

-----------------------------------------------------------------------------
(* The lists.                                                              *)
LEMMA AppendFacts ==
  ASSUME NEW S, NEW s \in Seq(S), NEW e \in S, Distinct(s), e \notin Elements(s)
  PROVE  /\ Append(s, e) \in Seq(S)
         /\ Distinct(Append(s, e))
         /\ Elements(Append(s, e)) = Elements(s) \cup {e}
<1>1. /\ Append(s, e) \in Seq(S) /\ Append(s, e)[Len(s) + 1] = e
      /\ \A i \in DOMAIN s : i \in DOMAIN Append(s, e) /\ Append(s, e)[i] = s[i]
      /\ \A i \in DOMAIN Append(s, e) : i \in DOMAIN s \/ i = Len(s) + 1
      /\ Len(s) + 1 \in DOMAIN Append(s, e)
  OBVIOUS
<1>2. \A i \in DOMAIN s : s[i] # e
  BY DEF Elements
<1>3. Distinct(Append(s, e))
  BY <1>1, <1>2 DEF Distinct
<1>4. Elements(Append(s, e)) = Elements(s) \cup {e}
  BY <1>1 DEF Elements
<1> QED
  BY <1>1, <1>3, <1>4

LEMMA TailFacts ==
  ASSUME NEW S, NEW s \in Seq(S), s # <<>>, Distinct(s)
  PROVE  /\ Tail(s) \in Seq(S)
         /\ Distinct(Tail(s))
         /\ Head(s) \in Elements(s)
         /\ Elements(Tail(s)) = Elements(s) \ {Head(s)}
<1>1. /\ Tail(s) \in Seq(S) /\ 1 \in DOMAIN s /\ Head(s) = s[1]
      /\ \A i \in DOMAIN Tail(s) :
            i \in Nat \ {0} /\ i + 1 \in DOMAIN s /\ Tail(s)[i] = s[i + 1]
      /\ \A i \in DOMAIN s : i # 1 => i - 1 \in DOMAIN Tail(s) /\ Tail(s)[i - 1] = s[i]
  OBVIOUS
<1>2. Distinct(Tail(s))
  <2> SUFFICES ASSUME NEW i \in DOMAIN Tail(s), NEW j \in DOMAIN Tail(s),
                      Tail(s)[i] = Tail(s)[j]
               PROVE  i = j
    BY DEF Distinct
  <2>1. /\ i \in Nat /\ j \in Nat /\ i + 1 \in DOMAIN s /\ j + 1 \in DOMAIN s
        /\ s[i + 1] = s[j + 1]
    BY <1>1
  <2>2. i + 1 = j + 1
    BY <2>1 DEF Distinct
  <2> QED
    BY <2>1, <2>2
<1>3. Elements(Tail(s)) \subseteq Elements(s) \ {Head(s)}
  <2> SUFFICES ASSUME NEW i \in DOMAIN Tail(s)
               PROVE  Tail(s)[i] \in Elements(s) /\ Tail(s)[i] # Head(s)
    BY DEF Elements
  <2>1. i \in Nat \ {0} /\ i + 1 \in DOMAIN s /\ Tail(s)[i] = s[i + 1]
    BY <1>1
  <2>2. i + 1 # 1
    BY <2>1
  <2>3. s[i + 1] # s[1]
    BY <1>1, <2>1, <2>2 DEF Distinct
  <2> QED
    BY <1>1, <2>1, <2>3 DEF Elements
<1>4. Elements(s) \ {Head(s)} \subseteq Elements(Tail(s))
  <2> SUFFICES ASSUME NEW i \in DOMAIN s, s[i] # s[1] PROVE s[i] \in Elements(Tail(s))
    BY <1>1 DEF Elements
  <2> QED
    BY <1>1 DEF Elements
<1>5. Head(s) \in Elements(s)
  BY <1>1 DEF Elements
<1> QED
  BY <1>1, <1>2, <1>3, <1>4, <1>5

LEMMA WithoutFacts ==
  ASSUME NEW S, NEW s \in Seq(S), NEW i \in DOMAIN s, Distinct(s)
  PROVE  /\ WithoutAt(s, i) \in Seq(S)
         /\ Distinct(WithoutAt(s, i))
         /\ Elements(WithoutAt(s, i)) = Elements(s) \ {s[i]}
<1> DEFINE a == SubSeq(s, 1, i - 1)
           b == SubSeq(s, i + 1, Len(s))
           w == WithoutAt(s, i)
<1>1. i \in Nat /\ Len(s) \in Nat /\ 1 <= i /\ i <= Len(s) /\ DOMAIN s = 1 .. Len(s)
      /\ \A j \in 1 .. Len(s) : s[j] \in S
  OBVIOUS
<1>2. /\ a \in Seq(S) /\ Len(a) = i - 1
      /\ \A j \in 1 .. i - 1 : a[j] = s[j]
  <2>1. \A j \in 1 .. i - 1 : s[j] \in S /\ 1 + j - 1 = j
    BY <1>1
  <2>2. Len(a) = IF 1 <= i - 1 THEN i - 1 - 1 + 1 ELSE 0
    BY <1>1, <2>1, SubSeqProperties
  <2>3. a \in Seq(S) /\ \A j \in 1 .. i - 1 - 1 + 1 : a[j] = s[1 + j - 1]
    BY <1>1, <2>1, SubSeqProperties
  <2> HIDE DEF a
  <2>4. Len(a) = i - 1
    BY <1>1, <2>2
  <2>5. i - 1 - 1 + 1 = i - 1
    BY <1>1
  <2> QED
    BY <2>1, <2>3, <2>4, <2>5
<1>3. /\ b \in Seq(S) /\ Len(b) = Len(s) - i
      /\ \A j \in 1 .. Len(s) - i : b[j] = s[i + j]
  <2>1. \A j \in i + 1 .. Len(s) : s[j] \in S
    BY <1>1
  <2>2. Len(b) = IF i + 1 <= Len(s) THEN Len(s) - (i + 1) + 1 ELSE 0
    BY <1>1, <2>1, SubSeqProperties
  <2>3. b \in Seq(S) /\ \A j \in 1 .. Len(s) - (i + 1) + 1 : b[j] = s[i + 1 + j - 1]
    BY <1>1, <2>1, SubSeqProperties
  <2> HIDE DEF b
  <2>4. Len(b) = Len(s) - i
    BY <1>1, <2>2
  <2>5. Len(s) - (i + 1) + 1 = Len(s) - i /\ \A j \in 1 .. Len(s) - i : i + 1 + j - 1 = i + j
    BY <1>1
  <2> QED
    BY <2>3, <2>4, <2>5
<1>w. w = a \o b
  BY DEF WithoutAt
<1> HIDE DEF a, b, w
<1>4. /\ w \in Seq(S) /\ Len(w) = Len(s) - 1
      /\ \A j \in 1 .. Len(s) - 1 : w[j] = IF j < i THEN s[j] ELSE s[j + 1]
  <2>1. w \in Seq(S) /\ Len(w) = Len(a) + Len(b)
    BY <1>w, <1>2, <1>3, ConcatProperties
  <2>2. \A j \in 1 .. Len(a) + Len(b) : w[j] = IF j <= Len(a) THEN a[j] ELSE b[j - Len(a)]
    BY <1>w, <1>2, <1>3, ConcatProperties
  <2>3. Len(a) + Len(b) = Len(s) - 1
    BY <1>1, <1>2, <1>3
  <2>4. ASSUME NEW j \in 1 .. Len(s) - 1 PROVE w[j] = IF j < i THEN s[j] ELSE s[j + 1]
    <3>1. CASE j < i
      <4>1. j <= Len(a) /\ j \in 1 .. i - 1
        BY <1>1, <1>2, <3>1
      <4> QED
        BY <1>2, <2>2, <2>3, <3>1, <4>1
    <3>2. CASE ~(j < i)
      <4>1. ~(j <= Len(a)) /\ j - Len(a) \in 1 .. Len(s) - i /\ i + (j - Len(a)) = j + 1
        BY <1>1, <1>2, <3>2
      <4> QED
        BY <1>3, <2>2, <2>3, <3>2, <4>1
    <3> QED
      BY <3>1, <3>2
  <2> QED
    BY <2>1, <2>3, <2>4
<1>5. DOMAIN w = 1 .. Len(s) - 1
  BY <1>4
<1>6. \A j \in DOMAIN w : \E k \in DOMAIN s :
         w[j] = s[k] /\ k # i /\ k = IF j < i THEN j ELSE j + 1
  BY <1>1, <1>4, <1>5
<1>7. \A k \in DOMAIN s : k # i => \E j \in DOMAIN w : w[j] = s[k]
  <2> SUFFICES ASSUME NEW k \in DOMAIN s, k # i PROVE \E j \in DOMAIN w : w[j] = s[k]
    OBVIOUS
  <2>1. CASE k < i
    BY <1>1, <1>4, <1>5, <2>1
  <2>2. CASE k > i
    <3>1. k - 1 \in DOMAIN w /\ ~(k - 1 < i) /\ (k - 1) + 1 = k
      BY <1>1, <1>5, <2>2
    <3> QED
      BY <1>4, <1>5, <3>1
  <2> QED
    BY <1>1, <2>1, <2>2
<1>8. Distinct(w)
  <2> SUFFICES ASSUME NEW j \in DOMAIN w, NEW k \in DOMAIN w, w[j] = w[k] PROVE j = k
    BY DEF Distinct
  <2>1. (IF j < i THEN j ELSE j + 1) = (IF k < i THEN k ELSE k + 1)
    BY <1>6 DEF Distinct
  <2> QED
    BY <1>1, <1>5, <2>1
<1>9. Elements(w) = Elements(s) \ {s[i]}
  <2>1. ASSUME NEW j \in DOMAIN w PROVE w[j] \in Elements(s) /\ w[j] # s[i]
    BY <1>6 DEF Elements, Distinct
  <2>2. ASSUME NEW k \in DOMAIN s, s[k] # s[i] PROVE s[k] \in Elements(w)
    BY <1>7, <2>2 DEF Elements
  <2> QED
    BY <2>1, <2>2 DEF Elements
<1> QED
  BY <1>4, <1>8, <1>9 DEF w

-----------------------------------------------------------------------------
(* The mutexes of the kinds.                                               *)
LEMMA KindFacts ==
  ASSUME NEW r \in Requests
  PROVE  /\ Locks(r) \in Seq(Sims) /\ Len(Locks(r)) \in Nat
         /\ LockSet(r) \subseteq Sims
         /\ LockSet(r) = {Locks(r)[i] : i \in 1 .. Len(Locks(r))}
         /\ TestMode(r) => LockSet(r) = Sims
         /\ Async(r) /\ ~TestMode(r) => LockSet(r) = {}
         /\ KindOf[r] = "radioCapability" => TestMode(r)
<1>1. SimOf[r] \in Sims /\ KindOf[r] \in Kinds
  BY AsyncCmdAssumption
<1>2. CASE TestMode(r)
  <2>1. Locks(r) = <<RIL_SOCKET_1, RIL_SOCKET_2>>
    BY <1>2 DEF Locks, TestMode
  <2>2. DOMAIN Locks(r) = {1, 2} /\ Locks(r) \in Seq(Sims) /\ Len(Locks(r)) = 2
    BY <2>1 DEF Sims
  <2>3. LockSet(r) = Sims
    BY <2>1, <2>2 DEF LockSet, Sims
  <2> QED
    BY <1>2, <2>2, <2>3 DEF LockSet
<1>3. CASE KindOf[r] = "facilityLock"
  <2>1. Locks(r) = <<>> /\ ~TestMode(r)
    BY <1>3 DEF Locks, TestMode
  <2> QED
    BY <1>3, <2>1 DEF LockSet
<1>4. CASE KindOf[r] \in {"radioPower", "deactivateData"}
  <2>1. PICK x \in Sims : Locks(r) = <<x>>
    BY <1>1, <1>4 DEF Locks, TestMode, Other, Sims
  <2>2. DOMAIN Locks(r) = {1} /\ Locks(r) \in Seq(Sims) /\ Len(Locks(r)) = 1
    BY <2>1
  <2>3. LockSet(r) \subseteq Sims
    BY <2>1, <2>2 DEF LockSet
  <2> QED
    BY <1>4, <2>2, <2>3 DEF LockSet, TestMode, Async
<1> QED
  BY <1>1, <1>2, <1>3, <1>4 DEF Kinds, TestMode

LEMMA AsyncInit == Init => AsyncInv
<1> SUFFICES ASSUME Init PROVE AsyncInv
  OBVIOUS
<1>1. Timed = {} /\ Expired = {} /\ Listed = {}
  BY DEF Init, Elements, Timed, Expired, Listed
<1>2. TypeOK
  BY AsyncCmdAssumption DEF Init, TypeOK, PCs
<1>3. EntriesOnce
  BY <1>1 DEF Init, EntriesOnce, Distinct
<1>4. ASSUME NEW r \in Requests PROVE PerRequest(r) /\ HoldsOnEntry(r) /\ HoldsInside(r)
  <2>1. pc[r] = "new" /\ locked[r] = 0 /\ completed[r] = 0 /\ missed[r] = 0
    BY DEF Init
  <2>2. EntryPlace(r) /\ LockedSoFar(r) /\ HoldsOnEntry(r)
    BY <1>1, <2>1 DEF EntryPlace, LockedSoFar, HoldsOnEntry
  <2>3. Accounted(r)
    BY <1>1, <2>1 DEF Accounted, Committed, Due, Entries
  <2>4. HoldsInside(r)
    BY <1>1, <2>1 DEF HoldsInside, Inside, Listed, Timed, Expired
  <2> QED
    BY <2>2, <2>3, <2>4 DEF PerRequest
<1> QED
  BY <1>2, <1>3, <1>4 DEF AsyncInv

LEMMA InsideIs ==
  \A r : Inside(r) <=> pc[r] \in {"run", "add", "finish", "unlock"} \/ r \in Listed
  BY DEF Inside, Listed, Timed, Expired

LEMMA InsideIsNext ==
  \A r : Inside(r)' <=> pc'[r] \in {"run", "add", "finish", "unlock"} \/ r \in Listed'
  BY DEF Inside, Listed, Timed, Expired

\* A step that concerns the request r alone.
LEMMA StepOfOne ==
  ASSUME AsyncInv, NEW r \in Requests, TypeOK', EntriesOnce', PerRequest(r)',
         \A q \in Requests \ {r} :
            /\ pc'[q] = pc[q] /\ locked'[q] = locked[q]
            /\ completed'[q] = completed[q] /\ missed'[q] = missed[q]
            /\ q \in Timed' <=> q \in Timed
            /\ q \in Expired' <=> q \in Expired
            /\ NoneMissed => \A s \in Sims : held[s] = q => held'[s] = q,
         missed'[r] = 0 => missed[r] = 0,
         NoneMissed /\ NoneMissed' => HoldsOnEntry(r)' /\ HoldsInside(r)'
  PROVE  AsyncInv'
<1>1. ASSUME NEW q \in Requests PROVE PerRequest(q)'
  <2>1. CASE q = r
    BY <2>1
  <2>2. CASE q # r
    <3>1. PerRequest(q)
      BY DEF AsyncInv
    <3>2. q \in Listed' <=> q \in Listed
      BY <2>2 DEF Listed
    <3>3. EntryPlace(q)'
      BY <2>2, <3>1, <3>2 DEF PerRequest, EntryPlace, Async, TestMode
    <3>4. Accounted(q)'
      BY <2>2, <3>1, <3>2 DEF PerRequest, Accounted, Committed, Due, Entries
    <3>5. LockedSoFar(q)'
      BY <2>2, <3>1 DEF PerRequest, LockedSoFar, Locks, TestMode
    <3> QED
      BY <3>3, <3>4, <3>5 DEF PerRequest
  <2> QED
    BY <2>1, <2>2
<1>2. NoneMissed' => NoneMissed
  BY DEF NoneMissed, TestMode
<1>3. ASSUME NoneMissed', NEW q \in Requests PROVE HoldsOnEntry(q)' /\ HoldsInside(q)'
  <2>1. CASE q = r
    BY <1>2, <1>3, <2>1
  <2>2. CASE q # r
    <3>1. HoldsOnEntry(q) /\ HoldsInside(q) /\ PerRequest(q)
      BY <1>2, <1>3 DEF AsyncInv
    <3>2. q \in Listed' <=> q \in Listed
      BY <2>2 DEF Listed
    <3>3. \A s \in Sims : held[s] = q => held'[s] = q
      BY <1>2, <1>3, <2>2
    <3>4. HoldsInside(q)'
      <4> SUFFICES ASSUME Inside(q)', NEW s \in LockSet(q) PROVE held'[s] = q
        BY DEF HoldsInside, LockSet, Locks, TestMode
      <4>1. Inside(q)
        BY <2>2, <3>2, InsideIs, InsideIsNext
      <4> QED
        BY <3>1, <3>3, <4>1, KindFacts DEF HoldsInside
    <3>5. HoldsOnEntry(q)'
      <4> SUFFICES ASSUME pc[q] = "start", NEW i \in 1 .. locked[q]
                   PROVE  held'[Locks(q)[i]] = q
        BY <2>2 DEF HoldsOnEntry, Locks, TestMode
      <4>1. locked[q] <= Len(Locks(q)) /\ locked[q] \in Nat /\ held[Locks(q)[i]] = q
        BY <3>1 DEF PerRequest, LockedSoFar, HoldsOnEntry, AsyncInv, TypeOK
      <4>2. Locks(q)[i] \in Sims
        BY <4>1, KindFacts
      <4> QED
        BY <3>3, <4>1, <4>2
    <3> QED
      BY <3>4, <3>5
  <2> QED
    BY <2>1, <2>2
<1> QED
  BY <1>1, <1>3 DEF AsyncInv

\* What the invariant says of one request.
LEMMA InvOf ==
  ASSUME AsyncInv, NEW r \in Requests
  PROVE  /\ EntryPlace(r) /\ Accounted(r) /\ LockedSoFar(r)
         /\ NoneMissed => HoldsOnEntry(r) /\ HoldsInside(r)
         /\ pc[r] \in PCs /\ locked[r] \in Nat /\ retries[r] \in Nat
         /\ completed[r] \in Nat /\ missed[r] \in Nat
         /\ Entries(r) \in {0, 1}
  BY DEF AsyncInv, TypeOK, PerRequest, Entries

\* The thread of r moves from one state to another and leaves the lists and the
\* mutexes alone; it answers r or it does not.
LEMMA ThreadMoves ==
  ASSUME AsyncInv, NEW r \in Requests, NEW p \in PCs, pc' = [pc EXCEPT ![r] = p],
         UNCHANGED <<held, locked, timerList, pendingList, missed>>,
         urcDue' \subseteq urcDue \cup {r}, retries' \in [Requests -> Nat],
         NEW n \in {0, 1}, completed' = [completed EXCEPT ![r] = @ + n],
         Committed(r)  => p \in Due /\ n = 0,
         ~Committed(r) => n = IF p \in Due THEN 1 ELSE 0,
         r \in Timed => p \in {"send", "waitAT", "sent", "retry", "fail"},
         r \in Expired => p \notin {"new", "start", "add", "run", "retry"},
         r \in Expired /\ TestMode(r) => p = "sent",
         p \in {"add", "send", "waitAT", "sent", "retry", "fail"} => Async(r),
         p = "retry" => TestMode(r),
         p # "new", p = "start" => locked[r] = 0,
         NoneMissed /\ p \in {"run", "add", "finish", "unlock"} =>
            \A s \in LockSet(r) : held[s] = r
  PROVE  AsyncInv'
<1>1. PICK c \in Nat : c = completed[r] /\ c + n \in Nat
  BY InvOf
<1>2. completed' = [completed EXCEPT ![r] = c + n]
  BY <1>1
<1>3. TypeOK'
  BY <1>1, <1>2 DEF AsyncInv, TypeOK
<1>4. Timed' = Timed /\ Expired' = Expired /\ Listed' = Listed
  BY DEF Timed, Expired, Listed
<1>5. EntriesOnce'
  BY <1>4 DEF AsyncInv, EntriesOnce
<1>6. /\ pc'[r] = p /\ completed'[r] = c + n /\ missed'[r] = missed[r]
      /\ \A q \in Requests \ {r} : pc'[q] = pc[q] /\ completed'[q] = completed[q]
  BY <1>2 DEF AsyncInv, TypeOK
<1>7. PerRequest(r)'
  <2>1. EntryPlace(r)'
    BY <1>4, <1>6, InvOf DEF EntryPlace, Async, TestMode
  <2>2. Accounted(r)'
    <3>1. Entries(r)' = Entries(r)
      BY <1>4 DEF Entries
    <3>2. Committed(r)' <=> p \in Due
      BY <1>6 DEF Committed, Due
    <3> QED
      BY <1>1, <1>6, <3>1, <3>2, InvOf DEF Accounted
  <2>3. LockedSoFar(r)'
    BY <1>6, InvOf, KindFacts DEF LockedSoFar, Locks, TestMode
  <2> QED
    BY <2>1, <2>2, <2>3 DEF PerRequest
<1>8. ASSUME NoneMissed PROVE HoldsOnEntry(r)' /\ HoldsInside(r)'
  <2>1. HoldsOnEntry(r)'
    BY <1>6 DEF HoldsOnEntry
  <2>2. HoldsInside(r)'
    <3> SUFFICES ASSUME Inside(r)', NEW s \in LockSet(r) PROVE held[s] = r
      BY DEF HoldsInside, LockSet, Locks, TestMode
    <3>1. p \in {"run", "add", "finish", "unlock"} \/ Inside(r)
      BY <1>4, <1>6, InsideIs, InsideIsNext
    <3> QED
      BY <1>8, <3>1, InvOf DEF HoldsInside
  <2> QED
    BY <2>1, <2>2
<1> QED
  BY <1>3, <1>4, <1>5, <1>6, <1>7, <1>8, StepOfOne

\* The steps of a thread that leave the lists and the mutexes alone.
LEMMA QuietSteps ==
  ASSUME AsyncInv, NEW r \in Requests,
         \/ onRequest(r) \/ begin(r) \/ runLocked(r) \/ at_send_command(r)
         \/ commandAccepted(r) \/ commandRefused(r) \/ commandTimesOut(r)
         \/ answerRequest(r)
  PROVE  AsyncInv'
<1>t. /\ completed \in [Requests -> Nat] /\ completed = [completed EXCEPT ![r] = @ + 0]
      /\ retries \in [Requests -> Nat]
      /\ urcDue \subseteq urcDue \cup {r} /\ urcDue \ {r} \subseteq urcDue \cup {r}
  BY DEF AsyncInv, TypeOK
<1>e. EntryPlace(r)
  BY InvOf
<1> USE DEF Move, lockVars, listVars, doneVars
<1>1. CASE onRequest(r)
  <2>1. /\ pc[r] = "new" /\ pc' = [pc EXCEPT ![r] = "start"]
        /\ UNCHANGED <<lockVars, listVars, urcDue, retries, doneVars>>
    BY <1>1 DEF onRequest
  <2>2. r \notin Timed /\ r \notin Expired
    BY <1>e, <2>1 DEF EntryPlace, Listed
  <2>3. locked[r] = 0
    BY <2>1, InvOf DEF LockedSoFar
  <2>4. ~Committed(r) /\ completed' = [completed EXCEPT ![r] = @ + 0]
    BY <1>t, <2>1 DEF Committed, Due
  <2>5. /\ UNCHANGED <<held, locked, timerList, pendingList, missed>>
        /\ urcDue' \subseteq urcDue \cup {r} /\ retries' \in [Requests -> Nat]
    BY <1>t, <2>1
  <2>6. pc' = [pc EXCEPT ![r] = "start"]
    BY <2>1
  <2>7. PICK n \in {0, 1} :
           n = 0 /\ ~Committed(r) /\ completed' = [completed EXCEPT ![r] = @ + n]
    BY <2>4
  <2> QED
    BY <2>2, <2>3, <2>5, <2>6, <2>7, ThreadMoves DEF PCs, Due
<1>2. CASE begin(r)
  <2>1. PICK p \in {"add", "finish", "run"} :
            /\ pc[r] = "start" /\ pc' = [pc EXCEPT ![r] = p]
            /\ p = "add" => Async(r)
    BY <1>2 DEF begin
  <2>2. NoneMissed => \A s \in LockSet(r) : held[s] = r
    <3>1. ASSUME NoneMissed
          PROVE  locked[r] = Len(Locks(r)) /\ \A i \in 1 .. locked[r] : held[Locks(r)[i]] = r
      BY <1>2, <2>1, <3>1, InvOf DEF begin, HoldsOnEntry
    <3> QED
      BY <3>1, KindFacts
  <2>3. UNCHANGED <<lockVars, listVars, urcDue, retries, doneVars>>
    BY <1>2 DEF begin
  <2>4. r \notin Timed /\ r \notin Expired
    BY <1>e, <2>1 DEF EntryPlace
  <2>5. ~Committed(r) /\ completed' = [completed EXCEPT ![r] = @ + 0]
    BY <1>t, <2>1, <2>3 DEF Committed, Due
  <2>6. /\ UNCHANGED <<held, locked, timerList, pendingList, missed>>
        /\ urcDue' \subseteq urcDue \cup {r} /\ retries' \in [Requests -> Nat]
    BY <1>t, <2>3
  <2>7. PICK n \in {0, 1} :
           n = 0 /\ ~Committed(r) /\ completed' = [completed EXCEPT ![r] = @ + n]
    BY <2>5
  <2> QED
    BY <2>1, <2>2, <2>4, <2>6, <2>7, ThreadMoves DEF PCs, Due
<1>3. CASE runLocked(r)
  <2>1. /\ pc[r] = "run" /\ pc' = [pc EXCEPT ![r] = "unlock"] /\ Inside(r)
        /\ completed' = [completed EXCEPT ![r] = @ + 1]
        /\ UNCHANGED <<lockVars, listVars, urcDue, retries, missed>>
    BY <1>3 DEF runLocked, Inside, Complete
  <2>2. r \notin Timed /\ r \notin Expired
    BY <1>e, <2>1 DEF EntryPlace
  <2>3. NoneMissed => \A s \in LockSet(r) : held[s] = r
    BY <2>1, InvOf DEF HoldsInside
  <2> QED
    BY <1>t, <2>1, <2>2, <2>3, ThreadMoves DEF PCs, Committed, Due
<1>4. CASE at_send_command(r)
  <2>1. /\ pc[r] = "send" /\ pc' = [pc EXCEPT ![r] = "waitAT"]
        /\ UNCHANGED <<lockVars, listVars, retries, doneVars>>
        /\ urcDue' = urcDue \cup {r}
    BY <1>4 DEF at_send_command
  <2> QED
    BY <1>t, <1>e, <2>1, ThreadMoves DEF EntryPlace, Committed, Due, PCs
<1>5. CASE commandAccepted(r)
  <2>1. /\ pc[r] = "waitAT" /\ pc' = [pc EXCEPT ![r] = "sent"]
        /\ UNCHANGED <<lockVars, listVars, urcDue, retries, doneVars>>
    BY <1>5 DEF commandAccepted
  <2> QED
    BY <1>t, <1>e, <2>1, ThreadMoves DEF EntryPlace, Committed, Due, PCs
<1>6. CASE commandRefused(r) \/ commandTimesOut(r)
  <2>1. PICK p \in {"retry", "fail"} :
            /\ pc[r] = "waitAT" /\ pc' = [pc EXCEPT ![r] = p]
            /\ p = "retry" => TestMode(r)
    BY <1>6 DEF commandRefused, commandTimesOut
  <2>2. retries' \in [Requests -> Nat] /\ urcDue' \subseteq urcDue \cup {r}
    BY <1>6, <1>t DEF commandRefused, commandTimesOut
  <2>3. UNCHANGED <<held, locked, timerList, pendingList, completed, missed>>
    BY <1>6 DEF commandRefused, commandTimesOut
  <2>4. Committed(r) /\ completed' = [completed EXCEPT ![r] = @ + 0] /\ Async(r)
    BY <1>t, <1>e, <2>1, <2>3 DEF EntryPlace, Committed, Due
  <2>5. r \notin Expired \/ ~TestMode(r)
    BY <1>e, <2>1 DEF EntryPlace
  <2> QED
    BY <1>t, <2>1, <2>2, <2>3, <2>4, <2>5, ThreadMoves DEF PCs, Due
<1>7. CASE answerRequest(r)
  <2>1. PICK p \in {"done", "unlock"} :
            /\ pc[r] \in {"answer", "finish"} /\ pc' = [pc EXCEPT ![r] = p]
            /\ p = "unlock" => Inside(r)
            /\ TestMode(r) \/ p = "done"
    BY <1>7 DEF answerRequest, Inside, TestMode
  <2>2. /\ completed' = [completed EXCEPT ![r] = @ + 1]
        /\ UNCHANGED <<lockVars, listVars, urcDue, retries, missed>>
    BY <1>7 DEF answerRequest, Complete
  <2>3. r \notin Timed /\ (TestMode(r) => r \notin Expired)
    BY <1>e, <2>1 DEF EntryPlace
  <2>4. NoneMissed /\ p = "unlock" => \A s \in LockSet(r) : held[s] = r
    BY <2>1, InvOf DEF HoldsInside
  <2> QED
    BY <1>t, <2>1, <2>2, <2>3, <2>4, ThreadMoves DEF PCs, Committed, Due
<1> QED
  BY <1>1, <1>2, <1>3, <1>4, <1>5, <1>6, <1>7

LEMMA LockStep ==
  ASSUME AsyncInv, NEW r \in Requests, lockNext(r)
  PROVE  AsyncInv'
<1>k. PICK k \in Nat : k = locked[r]
  BY DEF AsyncInv, TypeOK
<1>x. PICK x \in Sims : x = Locks(r)[k + 1]
  <2>1. k + 1 \in 1 .. Len(Locks(r)) /\ Locks(r) \in Seq(Sims)
    BY <1>k, KindFacts DEF lockNext
  <2> QED
    BY <2>1
<1>t. /\ pc[r] = "start" /\ k < Len(Locks(r)) /\ held[x] = Free
      /\ held' = [held EXCEPT ![x] = r] /\ locked' = [locked EXCEPT ![r] = k + 1]
      /\ UNCHANGED <<pc, timerList, pendingList, urcDue, retries, completed, missed>>
  BY <1>k, <1>x DEF lockNext, listVars, doneVars
<1>o. /\ held'[x] = r /\ \A s \in Sims \ {x} : held'[s] = held[s]
      /\ locked'[r] = k + 1 /\ \A q \in Requests \ {r} : locked'[q] = locked[q]
      /\ Free \notin Requests
  BY <1>t, AsyncCmdAssumption DEF AsyncInv, TypeOK
<1>1. TypeOK'
  BY <1>t DEF AsyncInv, TypeOK
<1>2. Timed' = Timed /\ Expired' = Expired /\ Listed' = Listed
  BY <1>t DEF Timed, Expired, Listed
<1>3. EntriesOnce'
  BY <1>t, <1>2 DEF AsyncInv, EntriesOnce
<1>4. PerRequest(r)'
  <2>1. EntryPlace(r)' /\ Accounted(r)'
    BY <1>t, <1>2, InvOf
       DEF EntryPlace, Accounted, Committed, Due, Entries, Async, TestMode
  <2>2. LockedSoFar(r)'
    <3>1. k + 1 <= Len(Locks(r)) /\ pc'[r] = "start" /\ locked'[r] = k + 1
      BY <1>t, <1>o, KindFacts
    <3>2. Locks(r)' = Locks(r)
      BY DEF Locks, TestMode
    <3> QED
      BY <3>1, <3>2 DEF LockedSoFar
  <2> QED
    BY <2>1, <2>2 DEF PerRequest
<1>5. ASSUME NEW q \in Requests \ {r}, NEW s \in Sims, held[s] = q PROVE held'[s] = q
  BY <1>t, <1>o, <1>5
<1>6. ASSUME NoneMissed PROVE HoldsOnEntry(r)' /\ HoldsInside(r)'
  <2>1. ASSUME NEW i \in 1 .. k + 1 PROVE held'[Locks(r)[i]] = r
    <3>1. CASE i = k + 1
      BY <1>x, <1>o, <3>1
    <3>2. CASE i # k + 1
      <4>1. i \in 1 .. k
        BY <3>2
      <4>2. held[Locks(r)[i]] = r
        BY <1>k, <1>t, <1>6, <4>1, InvOf DEF HoldsOnEntry
      <4>3. Locks(r)[i] \in Sims
        BY <1>t, <4>1, KindFacts
      <4> QED
        BY <1>o, <4>2, <4>3
    <3> QED
      BY <3>1, <3>2
  <2>2. HoldsOnEntry(r)'
    BY <1>o, <2>1 DEF HoldsOnEntry, Locks, TestMode
  <2>3. ~Inside(r)'
    BY <1>t, <1>2, InvOf, InsideIsNext DEF EntryPlace, Listed
  <2> QED
    BY <2>2, <2>3 DEF HoldsInside
<1> QED
  BY <1>t, <1>o, <1>1, <1>2, <1>3, <1>4, <1>5, <1>6, StepOfOne

\* The entry of a request goes on the list.
LEMMA AddStep ==
  ASSUME AsyncInv, NEW r \in Requests, addAsyncCmdList(r)
  PROVE  AsyncInv'
<1>t. /\ pc[r] = "add" /\ pc' = [pc EXCEPT ![r] = "send"]
      /\ timerList' = Append(timerList, r)
      /\ UNCHANGED <<locked, held, pendingList, urcDue, retries, completed, missed>>
  BY DEF addAsyncCmdList, Move, lockVars, doneVars
<1>o. /\ pc'[r] = "send" /\ \A q \in Requests \ {r} : pc'[q] = pc[q]
      /\ timerList \in Seq(Requests) /\ pc' \in [Requests -> PCs]
  BY <1>t DEF AsyncInv, TypeOK, PCs
<1>a. r \notin Listed /\ r \notin Timed /\ r \notin Expired /\ Async(r)
  BY <1>t, InvOf DEF EntryPlace, Listed
<1>1. /\ timerList' \in Seq(Requests) /\ Distinct(timerList') /\ Timed' = Timed \cup {r}
      /\ Expired' = Expired /\ Listed' = Listed \cup {r}
  BY <1>t, <1>o, <1>a, AppendFacts DEF AsyncInv, EntriesOnce, Timed, Expired, Listed
<1>2. TypeOK'
  BY <1>t, <1>o, <1>1 DEF AsyncInv, TypeOK
<1>3. EntriesOnce'
  BY <1>t, <1>a, <1>1 DEF AsyncInv, EntriesOnce
<1>4. PerRequest(r)'
  <2>1. EntryPlace(r)'
    BY <1>o, <1>a, <1>1 DEF EntryPlace, Async, TestMode
  <2>2. Accounted(r)'
    <3>1. ~Committed(r) /\ Committed(r)' /\ Entries(r) = 0 /\ Entries(r)' = 1
      BY <1>t, <1>o, <1>a, <1>1 DEF Committed, Due, Entries
    <3> QED
      BY <1>t, <3>1, InvOf DEF Accounted
  <2>3. LockedSoFar(r)'
    BY <1>o DEF LockedSoFar
  <2> QED
    BY <2>1, <2>2, <2>3 DEF PerRequest
<1>5. NoneMissed => HoldsOnEntry(r)' /\ HoldsInside(r)'
  <2>1. Inside(r)
    BY <1>t DEF Inside
  <2>2. NoneMissed => \A s \in LockSet(r) : held[s] = r
    BY <2>1, InvOf DEF HoldsInside
  <2> QED
    BY <1>t, <1>o, <2>2 DEF HoldsOnEntry, HoldsInside, LockSet, Locks, TestMode
<1> QED
  BY <1>t, <1>o, <1>1, <1>2, <1>3, <1>4, <1>5, StepOfOne

\* The thread of a failing command takes its entry off again.
LEMMA RemoveStep ==
  ASSUME AsyncInv, NEW r \in Requests, removeAsyncCmdList(r), r \in Timed
  PROVE  AsyncInv'
<1>p. PICK p \in {"add", "finish"} :
         /\ pc[r] \in {"retry", "fail"} /\ pc' = [pc EXCEPT ![r] = p]
         /\ p = "add" => pc[r] = "retry"
  BY DEF removeAsyncCmdList, Move
<1>a. r \notin Expired /\ Inside(r) /\ Async(r)
  BY InvOf, InsideIs DEF AsyncInv, EntriesOnce, EntryPlace, Listed
<1>t. UNCHANGED <<locked, held, pendingList, urcDue, retries, completed, missed>>
  BY DEF removeAsyncCmdList, lockVars, Timed
<1>o. /\ pc'[r] = p /\ \A q \in Requests \ {r} : pc'[q] = pc[q]
      /\ timerList \in Seq(Requests) /\ pc' \in [Requests -> PCs]
  BY <1>p DEF AsyncInv, TypeOK, PCs
<1>i. PICK i \in DOMAIN timerList : timerList[i] = r /\ timerList' = WithoutAt(timerList, i)
  BY DEF removeAsyncCmdList, Timed
<1>1. /\ timerList' \in Seq(Requests) /\ Distinct(timerList') /\ Timed' = Timed \ {r}
      /\ Expired' = Expired /\ Listed' = Listed \ {r}
  BY <1>t, <1>o, <1>a, <1>i, WithoutFacts DEF AsyncInv, EntriesOnce, Timed, Expired, Listed
<1>2. TypeOK'
  BY <1>t, <1>o, <1>1 DEF AsyncInv, TypeOK
<1>3. EntriesOnce'
  BY <1>t, <1>1 DEF AsyncInv, EntriesOnce
<1>4. PerRequest(r)'
  <2>1. EntryPlace(r)'
    BY <1>p, <1>o, <1>a, <1>1, InvOf DEF EntryPlace, Async, TestMode
  <2>2. Accounted(r)'
    <3>1. Committed(r) /\ ~Committed(r)' /\ Entries(r) = 1 /\ Entries(r)' = 0
      BY <1>p, <1>o, <1>1 DEF Committed, Due, Entries, Listed
    <3> QED
      BY <1>t, <3>1, InvOf DEF Accounted
  <2>3. LockedSoFar(r)'
    BY <1>o DEF LockedSoFar
  <2> QED
    BY <2>1, <2>2, <2>3 DEF PerRequest
<1>5. NoneMissed => HoldsOnEntry(r)' /\ HoldsInside(r)'
  <2>1. NoneMissed => \A s \in LockSet(r) : held[s] = r
    BY <1>a, InvOf DEF HoldsInside
  <2> QED
    BY <1>t, <1>o, <2>1 DEF HoldsOnEntry, HoldsInside, LockSet, Locks, TestMode
<1> QED
  BY <1>t, <1>o, <1>1, <1>2, <1>3, <1>4, <1>5, StepOfOne

\* The thread of a failing command finds its entry used up.
LEMMA MissStep ==
  ASSUME AsyncInv, NEW r \in Requests, removeAsyncCmdList(r), r \notin Timed
  PROVE  AsyncInv'
<1>p. PICK p \in {"add", "finish"} :
         /\ pc[r] \in {"retry", "fail"} /\ pc' = [pc EXCEPT ![r] = p]
         /\ p = "add" => pc[r] = "retry"
  BY DEF removeAsyncCmdList, Move
<1>m. PICK m \in Nat : m = missed[r] /\ m + 1 \in Nat /\ m + 1 # 0
  BY InvOf
<1>t. /\ UNCHANGED <<locked, held, timerList, pendingList, urcDue, retries, completed>>
      /\ missed' = [missed EXCEPT ![r] = m + 1]
  BY <1>m DEF removeAsyncCmdList, lockVars, Timed, Elements
<1>o. /\ pc'[r] = p /\ \A q \in Requests \ {r} : pc'[q] = pc[q] /\ missed'[q] = missed[q]
      /\ missed'[r] = m + 1 /\ pc' \in [Requests -> PCs]
  BY <1>p, <1>t DEF AsyncInv, TypeOK, PCs
<1>1. Timed' = Timed /\ Expired' = Expired /\ Listed' = Listed
  BY <1>t DEF Timed, Expired, Listed
<1>2. TypeOK'
  BY <1>m, <1>t, <1>o DEF AsyncInv, TypeOK
<1>3. EntriesOnce'
  BY <1>t, <1>1 DEF AsyncInv, EntriesOnce
<1>4. PerRequest(r)'
  <2>1. EntryPlace(r)'
    BY <1>p, <1>o, <1>1, InvOf DEF EntryPlace, Async, TestMode
  <2>2. Accounted(r)'
    <3>1. Committed(r) /\ ~Committed(r)' /\ Entries(r)' = Entries(r)
      BY <1>p, <1>o, <1>1 DEF Committed, Due, Entries
    <3> QED
      BY <1>m, <1>t, <1>o, <3>1, InvOf DEF Accounted
  <2>3. LockedSoFar(r)'
    BY <1>o DEF LockedSoFar
  <2> QED
    BY <2>1, <2>2, <2>3 DEF PerRequest
<1>5. NoneMissed' => HoldsOnEntry(r)' /\ HoldsInside(r)'
  <2>1. HoldsOnEntry(r)'
    BY <1>o DEF HoldsOnEntry
  <2>2. CASE TestMode(r)
    <3>1. ~NoneMissed'
      BY <1>m, <1>o, <2>2 DEF NoneMissed, TestMode
    <3> QED
      BY <3>1
  <2>3. CASE Async(r) /\ ~TestMode(r)
    BY <2>1, <2>3, KindFacts DEF HoldsInside, LockSet, Locks, TestMode
  <2>4. Async(r)
    BY <1>p, InvOf DEF EntryPlace
  <2> QED
    BY <2>2, <2>3, <2>4
<1> QED
  BY <1>m, <1>t, <1>o, <1>1, <1>2, <1>3, <1>4, <1>5, StepOfOne

LEMMA UnlockStep ==
  ASSUME AsyncInv, NEW r \in Requests, unlockMutexes(r)
  PROVE  AsyncInv'
<1>p. PICK p \in {"answer", "done"} :
         /\ pc[r] = IF p = "answer" THEN "finish" ELSE "unlock"
         /\ pc' = [pc EXCEPT ![r] = p]
  BY DEF unlockMutexes, Move
<1>t. /\ Unlock(LockSet(r))
      /\ UNCHANGED <<locked, timerList, pendingList, urcDue, retries, completed, missed>>
  BY DEF unlockMutexes, listVars, doneVars
<1>o. /\ pc'[r] = p /\ \A q \in Requests \ {r} : pc'[q] = pc[q]
      /\ pc' \in [Requests -> PCs]
  BY <1>p DEF AsyncInv, TypeOK, PCs
<1>u. /\ held' \in [Sims -> Requests \cup {Free}]
      /\ NoneMissed => \A q \in Requests \ {r} : \A s \in Sims : held[s] = q => held'[s] = q
  <2>1. NoneMissed => \A s \in LockSet(r) : held[s] = r
    BY <1>p, InvOf DEF HoldsInside, Inside
  <2> QED
    BY <1>t, <2>1 DEF Unlock, AsyncInv, TypeOK
<1>1. Timed' = Timed /\ Expired' = Expired /\ Listed' = Listed
  BY <1>t DEF Timed, Expired, Listed
<1>2. TypeOK'
  BY <1>t, <1>o, <1>u DEF AsyncInv, TypeOK
<1>3. EntriesOnce'
  BY <1>t, <1>1 DEF AsyncInv, EntriesOnce
<1>4. PerRequest(r)'
  <2>1. EntryPlace(r)'
    BY <1>p, <1>o, <1>1, InvOf DEF EntryPlace, Async, TestMode
  <2>2. Accounted(r)'
    <3>1. (Committed(r)' <=> Committed(r)) /\ Entries(r)' = Entries(r)
      BY <1>p, <1>o, <1>1 DEF Committed, Due, Entries
    <3> QED
      BY <1>t, <3>1, InvOf DEF Accounted
  <2>3. LockedSoFar(r)'
    BY <1>o DEF LockedSoFar
  <2> QED
    BY <2>1, <2>2, <2>3 DEF PerRequest
<1>5. HoldsOnEntry(r)' /\ HoldsInside(r)'
  <2>1. HoldsOnEntry(r)'
    BY <1>o DEF HoldsOnEntry
  <2>2. CASE Async(r) /\ ~TestMode(r)
    BY <2>1, <2>2, KindFacts DEF HoldsInside, LockSet, Locks, TestMode
  <2>3. CASE TestMode(r) \/ ~Async(r)
    <3>1. r \notin Listed
      BY <1>p, <2>3, InvOf DEF EntryPlace, Listed
    <3>2. ~Inside(r)'
      BY <1>o, <1>1, <3>1, InsideIsNext
    <3> QED
      BY <2>1, <3>2 DEF HoldsInside
  <2> QED
    BY <2>2, <2>3
<1> QED
  BY <1>t, <1>o, <1>u, <1>1, <1>2, <1>3, <1>4, <1>5, StepOfOne

\* Line or timer uses up the entry of e, answers it and unlocks its mutexes.
LEMMA EntryUsedUp ==
  ASSUME AsyncInv, NEW e \in Requests, e \in Listed,
         EntriesOnce', e \notin Timed', e \notin Expired',
         \A q \in Requests \ {e} : (q \in Timed' <=> q \in Timed)
                                    /\ (q \in Expired' <=> q \in Expired),
         timerList' \in Seq(Requests), pendingList' \in Seq(Requests),
         Complete(e), IF TestMode(e) THEN Unlock(Sims) ELSE UNCHANGED held,
         UNCHANGED <<pc, locked, retries>>, urcDue' \subseteq urcDue
  PROVE  AsyncInv'
<1>c. PICK c \in Nat : c = completed[e] /\ c + 1 \in Nat
  BY InvOf
<1>1. completed' = [completed EXCEPT ![e] = c + 1] /\ UNCHANGED missed
  BY <1>c DEF Complete
<1>2. completed'[e] = c + 1 /\ \A q \in Requests \ {e} : completed'[q] = completed[q]
  BY <1>1 DEF AsyncInv, TypeOK
<1>u. /\ held' \in [Sims -> Requests \cup {Free}]
      /\ NoneMissed => \A q \in Requests \ {e} : \A s \in Sims : held[s] = q => held'[s] = q
  <2>1. CASE TestMode(e)
    <3>1. NoneMissed => \A s \in Sims : held[s] = e
      BY <2>1, InvOf, InsideIs, KindFacts DEF HoldsInside
    <3> QED
      BY <2>1, <3>1 DEF Unlock, AsyncInv, TypeOK
  <2>2. CASE ~TestMode(e)
    BY <2>2 DEF AsyncInv, TypeOK
  <2> QED
    BY <2>1, <2>2
<1>3. TypeOK'
  BY <1>c, <1>1, <1>u DEF AsyncInv, TypeOK
<1>4. e \notin Listed'
  BY DEF Listed
<1>p. pc[e] \notin {"new", "start", "add", "run"}
  BY InvOf DEF EntryPlace, Listed
<1>5. PerRequest(e)'
  <2>1. EntryPlace(e)'
    BY <1>4, <1>p, InvOf DEF EntryPlace, Async, TestMode
  <2>2. Accounted(e)'
    <3>1. (Committed(e)' <=> Committed(e)) /\ Entries(e) = 1 /\ Entries(e)' = 0
      BY <1>4 DEF Committed, Due, Entries
    <3> QED
      BY <1>c, <1>1, <1>2, <3>1, InvOf DEF Accounted
  <2>3. LockedSoFar(e)'
    BY <1>p DEF LockedSoFar
  <2> QED
    BY <2>1, <2>2, <2>3 DEF PerRequest
<1>6. HoldsOnEntry(e)' /\ HoldsInside(e)'
  <2>1. HoldsOnEntry(e)'
    BY <1>p DEF HoldsOnEntry
  <2>2. CASE TestMode(e)
    <3>1. pc[e] \in {"send", "waitAT", "sent", "retry", "fail"}
      BY <2>2, InvOf DEF EntryPlace, Listed
    <3>2. ~Inside(e)'
      BY <1>4, <3>1, InsideIsNext
    <3> QED
      BY <2>1, <3>2 DEF HoldsInside
  <2>3. CASE ~TestMode(e)
    <3>1. Async(e)
      BY InvOf DEF EntryPlace
    <3> QED
      BY <2>1, <2>3, <3>1, KindFacts DEF HoldsInside, LockSet, Locks, TestMode
  <2> QED
    BY <2>2, <2>3
<1> QED
  BY <1>1, <1>2, <1>3, <1>5, <1>6, <1>u, StepOfOne

LEMMA NothingMoves ==
  ASSUME AsyncInv,
         UNCHANGED <<pc, locked, held, timerList, pendingList, retries, completed, missed>>,
         urcDue' \subseteq urcDue
  PROVE  AsyncInv'
<1>1. TypeOK' /\ EntriesOnce'
  BY DEF AsyncInv, TypeOK, EntriesOnce, Timed, Expired
<1>2. ASSUME NEW r \in Requests PROVE PerRequest(r)'
  BY InvOf
     DEF PerRequest, EntryPlace, Accounted, Committed, Due, Entries, LockedSoFar, Listed, Timed,
         Expired, Async, TestMode, Locks
<1>3. ASSUME NoneMissed', NEW r \in Requests PROVE HoldsOnEntry(r)' /\ HoldsInside(r)'
  <2>1. NoneMissed
    BY <1>3 DEF NoneMissed, TestMode
  <2> QED
    BY <2>1, InvOf DEF HoldsOnEntry, HoldsInside, Inside, LockSet, Locks, TestMode
<1> QED
  BY <1>1, <1>2, <1>3 DEF AsyncInv

LEMMA LineStep ==
  ASSUME AsyncInv, NEW u \in Requests, checkAndCompleteRequest(u)
  PROVE  AsyncInv'
<1>t. /\ UNCHANGED <<pc, locked, pendingList, retries>> /\ urcDue' \subseteq urcDue
      /\ timerList \in Seq(Requests) /\ Distinct(timerList)
      /\ pendingList \in Seq(Requests)
  BY DEF checkAndCompleteRequest, AsyncInv, TypeOK, EntriesOnce
<1>1. ASSUME NEW i \in DOMAIN timerList, SameCommand(timerList[i], u),
             timerList' = WithoutAt(timerList, i), Complete(timerList[i]),
             IF TestMode(u) THEN Unlock(Sims) ELSE UNCHANGED held
      PROVE  AsyncInv'
  <2>e. PICK e \in Requests : e = timerList[i]
    BY <1>t
  <2>1. e \in Timed /\ e \notin Expired /\ e \in Listed
    BY <2>e DEF Timed, Listed, Elements, AsyncInv, EntriesOnce
  <2>2. IF TestMode(e) THEN Unlock(Sims) ELSE UNCHANGED held
    BY <1>1, <2>e DEF SameCommand
  <2>3. /\ timerList' \in Seq(Requests) /\ Distinct(timerList') /\ Timed' = Timed \ {e}
        /\ Expired' = Expired
    BY <1>1, <1>t, <2>e, WithoutFacts DEF Timed, Expired
  <2>4. EntriesOnce'
    BY <1>t, <2>1, <2>3 DEF AsyncInv, EntriesOnce
  <2> QED
    BY <1>1, <1>t, <2>e, <2>1, <2>2, <2>3, <2>4, EntryUsedUp
<1>2. CASE UNCHANGED <<timerList, held, doneVars>>
  BY <1>t, <1>2, NothingMoves DEF doneVars
<1> QED
  BY <1>1, <1>2 DEF checkAndCompleteRequest

LEMMA ExpireStep ==
  ASSUME AsyncInv, processTimeouts
  PROVE  AsyncInv'
<1>t. /\ UNCHANGED <<pc, locked, held, urcDue, retries, completed, missed>>
      /\ timerList \in Seq(Requests) /\ pendingList \in Seq(Requests)
      /\ Distinct(timerList) /\ Distinct(pendingList)
  BY DEF processTimeouts, lockVars, doneVars, AsyncInv, TypeOK, EntriesOnce
<1>i. PICK i \in DOMAIN timerList :
         /\ TestMode(timerList[i]) => pc[timerList[i]] = "sent"
         /\ timerList' = WithoutAt(timerList, i)
         /\ pendingList' = Append(pendingList, timerList[i])
  BY DEF processTimeouts
<1>e. PICK e \in Requests : e = timerList[i]
  BY <1>t
<1>1. e \in Timed /\ e \notin Expired
  BY <1>i, <1>e DEF Timed, Elements, AsyncInv, EntriesOnce
<1>2. /\ timerList' \in Seq(Requests) /\ Distinct(timerList') /\ Timed' = Timed \ {e}
  BY <1>t, <1>i, <1>e, WithoutFacts DEF Timed
<1>3. /\ pendingList' \in Seq(Requests) /\ Distinct(pendingList')
      /\ Expired' = Expired \cup {e}
  BY <1>t, <1>i, <1>e, <1>1, AppendFacts DEF Expired
<1>4. Listed' = Listed
  BY <1>1, <1>2, <1>3 DEF Listed
<1>5. EntriesOnce'
  BY <1>2, <1>3 DEF AsyncInv, EntriesOnce
<1>6. TypeOK'
  BY <1>t, <1>2, <1>3 DEF AsyncInv, TypeOK
<1>7. PerRequest(e)'
  <2>1. EntryPlace(e)'
    BY <1>t, <1>i, <1>e, <1>1, <1>2, <1>3, <1>4, InvOf DEF EntryPlace, Async, TestMode
  <2>2. Accounted(e)' /\ LockedSoFar(e)'
    BY <1>t, <1>4, InvOf DEF Accounted, Committed, Due, Entries, LockedSoFar, Locks, TestMode
  <2> QED
    BY <2>1, <2>2 DEF PerRequest
<1>8. NoneMissed => HoldsOnEntry(e)' /\ HoldsInside(e)'
  <2>1. Inside(e)' <=> Inside(e)
    BY <1>t, <1>4, InsideIs, InsideIsNext
  <2> QED
    BY <1>t, <2>1, InvOf DEF HoldsOnEntry, HoldsInside, LockSet, Locks, TestMode
<1> QED
  BY <1>t, <1>1, <1>2, <1>3, <1>5, <1>6, <1>7, <1>8, StepOfOne

LEMMA FireStep ==
  ASSUME AsyncInv, userTimerCallback
  PROVE  AsyncInv'
<1>t. /\ UNCHANGED <<pc, locked, timerList, urcDue, retries>>
      /\ timerList \in Seq(Requests) /\ pendingList \in Seq(Requests)
      /\ Distinct(timerList) /\ Distinct(pendingList) /\ pendingList # <<>>
      /\ pendingList' = Tail(pendingList)
  BY DEF userTimerCallback, AsyncInv, TypeOK, EntriesOnce
<1>e. PICK e \in Requests : e = Head(pendingList)
  BY <1>t
<1>1. /\ pendingList' \in Seq(Requests) /\ Distinct(pendingList') /\ e \in Expired
      /\ Expired' = Expired \ {e} /\ Timed' = Timed
  BY <1>t, <1>e, TailFacts DEF Expired, Timed
<1>2. e \notin Timed /\ e \in Listed
  BY <1>1 DEF Listed, AsyncInv, EntriesOnce
<1>3. EntriesOnce'
  BY <1>t, <1>1, <1>2 DEF AsyncInv, EntriesOnce
<1>4. Complete(e) /\ IF TestMode(e) THEN Unlock(Sims) ELSE UNCHANGED held
  BY <1>e DEF userTimerCallback
<1> QED
  BY <1>t, <1>1, <1>2, <1>3, <1>4, EntryUsedUp

LEMMA AsyncStep == AsyncInv /\ [Next]_vars => AsyncInv'
<1> SUFFICES ASSUME AsyncInv, [Next]_vars PROVE AsyncInv'
  OBVIOUS
<1>1. ASSUME NEW r \in Requests, onRequest(r) \/ requestThread(r) PROVE AsyncInv'
  BY <1>1, QuietSteps, LockStep, AddStep, RemoveStep, MissStep, UnlockStep DEF requestThread
<1>2. ASSUME NEW u \in Requests, checkAndCompleteRequest(u) PROVE AsyncInv'
  BY <1>2, LineStep
<1>3. ASSUME processTimeouts PROVE AsyncInv'
  BY <1>3, ExpireStep, Zenon
<1>4. ASSUME userTimerCallback PROVE AsyncInv'
  BY <1>4, FireStep
<1>5. CASE UNCHANGED vars
  BY <1>5, NothingMoves DEF vars
<1> QED
  BY <1>1, <1>2, <1>3, <1>4, <1>5 DEF Next

(* Every request is answered once by its line, its timer or its own        *)
(* thread, although all three may do it, and once more only for each time  *)
(* its thread comes to remove an entry that line or timer has used up      *)
(* (checkAndCompleteRequest, userTimerCallback, removeAsyncCmdList).       *)
THEOREM AnsweredAtMostOnce == Spec => []CompletedOnce
<1>1. AsyncInv => CompletedOnce
  <2> SUFFICES ASSUME AsyncInv, NEW r \in Requests PROVE completed[r] <= 1 + missed[r]
    BY DEF CompletedOnce
  <2> QED
    BY InvOf DEF Accounted
<1> QED
  BY AsyncInit, AsyncStep, <1>1, PTL DEF Spec

(* Until an AT+SPTESTMODE fails after its line came, whoever changes the   *)
(* working mode or the power of a SIM holds all the mutexes it takes,      *)
(* although the line or the timer of a working mode unlocks them for it    *)
(* (processNetworkRequests, dispatchSPTESTMODE).                           *)
THEOREM PowerMutexesHeld == Spec => []RadioPowerExclusive
<1>1. AsyncInv => RadioPowerExclusive
  BY DEF AsyncInv, RadioPowerExclusive, HoldsInside
<1> QED
  BY AsyncInit, AsyncStep, <1>1, PTL DEF Spec
=============================================================================
