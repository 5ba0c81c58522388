--------------------------- MODULE ThreadPoolProofs ---------------------------
(***************************************************************************)
(* Proofs about the worker pool for any number of threads, any thr_max and *)
(* any number of jobs.                                                     *)
(*                                                                         *)
(* The argument: thr_queue and thr_alive follow the two sets of workers    *)
(* they count through every critical section, so that at most thr_max      *)
(* workers exist; a worker leaves only an empty queue, so that a job that  *)
(* no leaving worker saw has a worker that is still in its loop.           *)
(***************************************************************************)
EXTENDS ThreadPool, FiniteSetTheorems, FunctionTheorems, TLAPS

TypeOK ==
  /\ queue \in Seq(Jobs)
  /\ dispatched \in 0 .. MaxJobs
  /\ thr_queue \in Int
  /\ thr_alive \in Int
  /\ state \in {"POOL_VALID", "POOL_EXIT", "FREED"}
  /\ pc \in [Threads -> PCs]
  /\ job \in [Threads -> Jobs \cup {NoJob}]
  /\ \A t \in Threads : job[t] # NoJob <=> pc[t] = "run"
  /\ done \in SUBSET Jobs
  /\ failures \in Nat

AtMostMax == thr_alive <= thr_max

\* Only the first destroyEnd takes away the pool, when all workers have gone.
FreedIsEmpty == state = "FREED" => \A t \in Threads : pc[t] = "none"

\* While no pthread_create has failed, a job that was dispatched when no worker
\* was leaving has a worker that has yet to look at the queue.
Served ==
  failures = 0 /\ (\E i \in DOMAIN queue : queue[i] \notin raced)
    => \E t \in Threads : pc[t] \notin {"none", "exit"}

PoolInv == TypeOK /\ CountersAgree /\ AtMostMax /\ FreedIsEmpty /\ Served

-----------------------------------------------------------------------------
(* How the sets of workers at some places change when workers move.        *)

Alive == PCs \ {"none"}

LEMMA AliveIsNotNone ==
  ASSUME pc \in [Threads -> PCs]
  PROVE  Threads \ At({"none"}) = At(Alive)
  BY DEF At, Alive

LEMMA AtIsFinite ==
  ASSUME NEW S
  PROVE  IsFiniteSet(At(S)) /\ Cardinality(At(S)) \in Nat
<1>1. At(S) \in SUBSET Threads
  BY DEF At
<1>2. IsFiniteSet(At(S))
  BY <1>1, FS_Subset, ThreadPoolAssumption
<1> QED
  BY <1>2, FS_CardinalityType

\* One worker moves on.
LEMMA MovedCount ==
  ASSUME pc \in [Threads -> PCs], NEW t \in Threads, NEW q \in PCs,
         pc' = [pc EXCEPT ![t] = q], NEW S
  PROVE  Cardinality(At(S)') =
           Cardinality(At(S)) + (IF q \in S THEN 1 ELSE 0) - (IF pc[t] \in S THEN 1 ELSE 0)
<1>1. CASE q \in S
  <2>1. At(S)' = At(S) \cup {t}
    BY <1>1 DEF At
  <2>2. t \in At(S) <=> pc[t] \in S
    BY DEF At
  <2> QED
    BY <1>1, <2>1, <2>2, AtIsFinite, FS_AddElement
<1>2. CASE q \notin S
  <2>1. At(S)' = At(S) \ {t}
    BY <1>2 DEF At
  <2>2. t \in At(S) <=> pc[t] \in S
    BY DEF At
  <2>3. Cardinality(At(S) \ {t}) = IF t \in At(S) THEN Cardinality(At(S)) - 1 ELSE Cardinality(At(S))
    BY AtIsFinite, FS_RemoveElement
  <2> QED
    BY <1>2, <2>1, <2>2, <2>3, AtIsFinite
<1> QED
  BY <1>1, <1>2

\* Workers that move within S or outside S are still as many.
LEMMA SameCount ==
  ASSUME NEW S, \A t \in Threads : pc'[t] \in S <=> pc[t] \in S
  PROVE  At(S)' = At(S)
  BY DEF At

LEMMA Places ==
  /\ Waiting \subseteq PCs /\ Alive \subseteq PCs
  /\ \A q \in PCs : q \in Waiting <=> q \in {"wait", "woken", "timedOut"}
  /\ \A q \in PCs : q \in Alive <=> q # "none"
  BY DEF Waiting, PCs, Alive

\* A signal wakes a waiting worker, which goes on waiting for the mutex.
LEMMA SignalKeepsPlaces ==
  ASSUME NEW p \in [Threads -> PCs], Signal(p)
  PROVE  /\ pc' \in [Threads -> PCs]
         /\ \A t \in Threads : /\ pc'[t] \in Waiting <=> p[t] \in Waiting
                               /\ pc'[t] \in Alive <=> p[t] \in Alive
                               /\ pc'[t] \in {"run", "exit"} \/ p[t] \in {"run", "exit"}
                                    => pc'[t] = p[t]
  BY DEF Signal, Waiting, PCs, Alive

\* The next-state relation, one disjunct per action.
LEMMA StepCases ==
  ASSUME [Next]_vars
  PROVE  \/ thread_pool_dispatch \/ destroyBegin \/ destroyEnd \/ UNCHANGED vars
         \/ \E t \in Threads : \/ enterWait(t) \/ leaveWait(t) \/ runHandler(t)
                               \/ exitWorker(t) \/ waitTimeout(t)
  BY DEF Next, thread_pool_worker

\* thread_pool_dispatch starts a worker or none, and signals.
LEMMA DispatchCases ==
  ASSUME TypeOK, thread_pool_dispatch
  PROVE  \E p \in [Threads -> PCs] :
           /\ Signal(p)
           /\ \/ /\ p = pc /\ thr_alive' = thr_alive
                 /\ \/ failures' = failures + 1
                    \/ failures' = failures /\ ~(thr_queue = 0 /\ thr_alive < thr_max)
              \/ /\ thr_queue = 0 /\ thr_alive < thr_max
                 /\ thr_alive' = thr_alive + 1
                 /\ failures' = failures
                 /\ \E t \in Threads : pc[t] = "none" /\ p = [pc EXCEPT ![t] = "top"]
<1>1. CASE thr_queue = 0 /\ thr_alive < thr_max /\ \E t \in Threads : createWorker(t)
  <2>1. PICK t \in Threads : createWorker(t)
    BY <1>1
  <2>2. [pc EXCEPT ![t] = "top"] \in [Threads -> PCs]
    BY DEF TypeOK, PCs
  <2> QED
    BY <1>1, <2>1, <2>2 DEF createWorker
<1>2. CASE thr_queue = 0 /\ thr_alive < thr_max /\ createFails
  BY <1>2 DEF createFails, TypeOK
<1>3. CASE ~(thr_queue = 0 /\ thr_alive < thr_max)
  BY <1>3 DEF thread_pool_dispatch, TypeOK
<1> QED
  BY <1>1, <1>2, <1>3 DEF thread_pool_dispatch

-----------------------------------------------------------------------------
\* Taking the head of the queue leaves a queue of jobs.
LEMMA TakeJob ==
  ASSUME TypeOK, NEW t \in Threads, queue # <<>>, takeJob(t)
  PROVE  /\ queue' \in Seq(Jobs) /\ Head(queue) \in Jobs
         /\ job' \in [Threads -> Jobs \cup {NoJob}]
         /\ pc' \in [Threads -> PCs]
         /\ \A u \in Threads : job'[u] # NoJob <=> pc'[u] = "run"
<1>1. queue' \in Seq(Jobs) /\ Head(queue) \in Jobs
  BY DEF TypeOK, takeJob
<1>2. NoJob \notin Jobs
  BY DEF Jobs, NoJob
<1> QED
  BY <1>1, <1>2 DEF TypeOK, takeJob, PCs

LEMMA TypeStep == TypeOK /\ [Next]_vars => TypeOK'
<1> SUFFICES ASSUME TypeOK, [Next]_vars PROVE TypeOK'
  OBVIOUS
<1>1. CASE thread_pool_dispatch
  <2>1. dispatched' \in Jobs /\ dispatched' \in 0 .. MaxJobs
    BY <1>1, ThreadPoolAssumption DEF thread_pool_dispatch, TypeOK, Jobs
  <2>2. queue' \in Seq(Jobs)
    BY <1>1, <2>1 DEF thread_pool_dispatch, PushBack, TypeOK
  <2>3. PICK p \in [Threads -> PCs] :
           /\ Signal(p)
           /\ \A t \in Threads : p[t] = pc[t] \/ (pc[t] = "none" /\ p[t] = "top")
           /\ thr_alive' \in Int
           /\ failures' \in Nat
    BY <1>1, DispatchCases DEF thread_pool_dispatch, createFails, TypeOK
  <2>4. pc' \in [Threads -> PCs] /\ \A t \in Threads : pc'[t] = "run" <=> pc[t] = "run"
    BY <2>3, SignalKeepsPlaces
  <2> QED
    BY <1>1, <2>1, <2>2, <2>3, <2>4 DEF thread_pool_dispatch, TypeOK
<1>2. ASSUME NEW t \in Threads, enterWait(t) PROVE TypeOK'
  BY <1>2, TakeJob DEF enterWait, TypeOK, PCs
<1>3. ASSUME NEW t \in Threads, leaveWait(t) PROVE TypeOK'
  BY <1>3, TakeJob DEF leaveWait, TypeOK, PCs
<1>4. ASSUME NEW t \in Threads, runHandler(t) PROVE TypeOK'
  BY <1>4 DEF runHandler, TypeOK, PCs, NoJob
<1>5. ASSUME NEW t \in Threads, exitWorker(t) PROVE TypeOK'
  BY <1>5 DEF exitWorker, TypeOK, PCs
<1>6. ASSUME NEW t \in Threads, waitTimeout(t) PROVE TypeOK'
  BY <1>6 DEF waitTimeout, TypeOK, PCs
<1>7. CASE destroyBegin
  BY <1>7 DEF destroyBegin, TypeOK, PCs
<1>8. CASE destroyEnd
  BY <1>8 DEF destroyEnd, TypeOK
<1>9. CASE UNCHANGED vars
  BY <1>9 DEF vars, TypeOK
<1> QED
  BY <1>1, <1>2, <1>3, <1>4, <1>5, <1>6, <1>7, <1>8, <1>9, StepCases


-----------------------------------------------------------------------------
LEMMA CountersInit == thread_pool_init => PoolInv
<1> SUFFICES ASSUME thread_pool_init PROVE PoolInv
  OBVIOUS
<1>1. At(Waiting) = {} /\ Threads \ At({"none"}) = {}
  BY DEF thread_pool_init, At, Waiting
<1>2. CountersAgree
  BY <1>1, FS_EmptySet DEF thread_pool_init, CountersAgree
<1> QED
  BY <1>2, ThreadPoolAssumption
     DEF thread_pool_init, PoolInv, TypeOK, AtMostMax, FreedIsEmpty, Served, PCs

\* A worker that moves on in a step that counts what changes of it.
LEMMA CountedMove ==
  ASSUME TypeOK, CountersAgree, NEW t \in Threads, NEW q \in PCs, pc' = [pc EXCEPT ![t] = q],
         thr_queue' = thr_queue + (IF q \in Waiting THEN 1 ELSE 0) - (IF pc[t] \in Waiting THEN 1 ELSE 0),
         thr_alive' = thr_alive + (IF q # "none" THEN 1 ELSE 0) - (IF pc[t] # "none" THEN 1 ELSE 0)
  PROVE  CountersAgree'
<1>1. pc' \in [Threads -> PCs] /\ pc \in [Threads -> PCs]
  BY DEF TypeOK
<1>2. Threads \ At({"none"}) = At(Alive) /\ Threads \ At({"none"})' = At(Alive)'
  BY <1>1, AliveIsNotNone DEF At, Alive
<1>3. thr_queue' = Cardinality(At(Waiting)')
  BY <1>1, MovedCount DEF CountersAgree
<1>4. thr_alive' = Cardinality(At(Alive)')
  <2>1. Cardinality(At(Alive)') =
          Cardinality(At(Alive)) + (IF q \in Alive THEN 1 ELSE 0) - (IF pc[t] \in Alive THEN 1 ELSE 0)
    BY <1>1, MovedCount
  <2>2. (q \in Alive <=> q # "none") /\ (pc[t] \in Alive <=> pc[t] # "none")
    BY <1>1, Places
  <2>3. thr_alive = Cardinality(At(Alive))
    BY <1>2 DEF CountersAgree
  <2> QED
    BY <2>1, <2>2, <2>3
<1> QED
  BY <1>2, <1>3, <1>4 DEF CountersAgree

\* A step that leaves the counters alone, and every worker in its class.
LEMMA QuietCounters ==
  ASSUME TypeOK, CountersAgree, UNCHANGED <<thr_queue, thr_alive>>,
         \A t \in Threads : /\ pc'[t] \in Waiting <=> pc[t] \in Waiting
                            /\ pc'[t] = "none" <=> pc[t] = "none"
  PROVE  CountersAgree'
  BY SameCount DEF CountersAgree, At

LEMMA CountersStep == TypeOK /\ CountersAgree /\ AtMostMax /\ [Next]_vars
                        => CountersAgree' /\ AtMostMax'
<1> SUFFICES ASSUME TypeOK, CountersAgree, AtMostMax, [Next]_vars
             PROVE  CountersAgree' /\ AtMostMax'
  OBVIOUS
<1>t. TypeOK'
  BY TypeStep
<1>1. CASE thread_pool_dispatch
  <2>1. PICK p \in [Threads -> PCs] :
           /\ Signal(p)
           /\ \/ p = pc /\ thr_alive' = thr_alive
              \/ /\ thr_alive < thr_max
                 /\ thr_alive' = thr_alive + 1
                 /\ \E t \in Threads : pc[t] = "none" /\ p = [pc EXCEPT ![t] = "top"]
    BY <1>1, DispatchCases
  <2>2. UNCHANGED thr_queue
    BY <1>1 DEF thread_pool_dispatch
  <2>3. \A t \in Threads : /\ pc'[t] \in Waiting <=> p[t] \in Waiting
                           /\ pc'[t] = "none" <=> p[t] = "none"
    BY <1>t, <2>1, SignalKeepsPlaces, Places DEF TypeOK
  <2>4. CASE p = pc /\ thr_alive' = thr_alive
    BY <2>2, <2>3, <2>4, QuietCounters DEF AtMostMax
  <2>5. ASSUME NEW t \in Threads, pc[t] = "none", p = [pc EXCEPT ![t] = "top"],
               thr_alive < thr_max, thr_alive' = thr_alive + 1
        PROVE  CountersAgree' /\ AtMostMax'
    <3>1. At(Waiting)' = At(Waiting)
      BY <2>3, <2>5, SameCount DEF TypeOK, Waiting
    <3>2. Threads \ At({"none"})' = (Threads \ At({"none"})) \cup {t}
      BY <2>3, <2>5 DEF TypeOK, At
    <3>3. t \notin Threads \ At({"none"}) /\ IsFiniteSet(Threads \ At({"none"}))
      <4>1. Threads \ At({"none"}) = At(Alive)
        BY AliveIsNotNone DEF TypeOK
      <4> QED
        BY <2>5, <4>1, AtIsFinite DEF At
    <3>4. Cardinality(Threads \ At({"none"})') = thr_alive + 1
      BY <3>2, <3>3, FS_AddElement DEF CountersAgree
    <3>5. CountersAgree'
      BY <2>2, <2>5, <3>1, <3>4 DEF CountersAgree
    <3>6. AtMostMax'
      BY <2>5, ThreadPoolAssumption DEF AtMostMax, TypeOK
    <3> QED
      BY <3>5, <3>6
  <2> QED
    BY <2>1, <2>4, <2>5
<1>2. ASSUME NEW t \in Threads, enterWait(t) PROVE CountersAgree' /\ AtMostMax'
  BY <1>2, CountedMove DEF enterWait, takeJob, TypeOK, PCs, Waiting, AtMostMax
<1>3. ASSUME NEW t \in Threads, leaveWait(t) PROVE CountersAgree' /\ AtMostMax'
  BY <1>3, CountedMove DEF leaveWait, takeJob, TypeOK, PCs, Waiting, AtMostMax
<1>4. ASSUME NEW t \in Threads, runHandler(t) PROVE CountersAgree' /\ AtMostMax'
  <2> DEFINE q == "top"
  <2>1. /\ q \in PCs
        /\ pc' = [pc EXCEPT ![t] = q]
        /\ thr_queue' = thr_queue + (IF q \in Waiting THEN 1 ELSE 0) - (IF pc[t] \in Waiting THEN 1 ELSE 0)
        /\ thr_alive' = thr_alive + (IF q # "none" THEN 1 ELSE 0) - (IF pc[t] # "none" THEN 1 ELSE 0)
        /\ AtMostMax'
    BY <1>4 DEF runHandler, TypeOK, PCs, Waiting, AtMostMax
  <2> HIDE DEF q
  <2> QED
    BY <2>1, CountedMove DEF AtMostMax
<1>5. ASSUME NEW t \in Threads, exitWorker(t) PROVE CountersAgree' /\ AtMostMax'
  <2>1. CountersAgree'
    <3> DEFINE q == "none"
    <3>1. /\ q \in PCs
          /\ pc' = [pc EXCEPT ![t] = q]
          /\ thr_queue' = thr_queue + (IF q \in Waiting THEN 1 ELSE 0) - (IF pc[t] \in Waiting THEN 1 ELSE 0)
          /\ thr_alive' = thr_alive + (IF q # "none" THEN 1 ELSE 0) - (IF pc[t] # "none" THEN 1 ELSE 0)
      BY <1>5 DEF exitWorker, TypeOK, PCs, Waiting
    <3> HIDE DEF q
    <3> QED
      BY <3>1, CountedMove
  <2>2. AtMostMax'
    BY <1>5, ThreadPoolAssumption DEF exitWorker, TypeOK, AtMostMax
  <2> QED
    BY <2>1, <2>2
<1>6. ASSUME NEW t \in Threads, waitTimeout(t) PROVE CountersAgree' /\ AtMostMax'
  BY <1>6, QuietCounters DEF waitTimeout, TypeOK, Waiting, AtMostMax
<1>7. CASE destroyBegin
  BY <1>7, QuietCounters DEF destroyBegin, TypeOK, Waiting, AtMostMax
<1>8. CASE destroyEnd \/ UNCHANGED vars
  BY <1>8 DEF destroyEnd, vars, CountersAgree, AtMostMax, At
<1> QED
  BY <1>1, <1>2, <1>3, <1>4, <1>5, <1>6, <1>7, <1>8, StepCases

-----------------------------------------------------------------------------
\* Somebody is alive when thr_alive is not 0, somebody waits when thr_queue is not.
LEMMA CountedExist ==
  ASSUME TypeOK, CountersAgree
  PROVE  /\ thr_alive = 0 <=> \A t \in Threads : pc[t] = "none"
         /\ thr_queue # 0 => \E t \in Threads : pc[t] \in Waiting
<1>1. Threads \ At({"none"}) = At(Alive)
  BY AliveIsNotNone DEF TypeOK
<1>2. thr_alive = 0 <=> At(Alive) = {}
  BY <1>1, AtIsFinite, FS_EmptySet DEF CountersAgree
<1>3. thr_queue # 0 => At(Waiting) # {}
  BY FS_EmptySet DEF CountersAgree
<1> QED
  BY <1>2, <1>3 DEF At, Alive, TypeOK

\* No worker is born in a pool that is freed.
LEMMA FreedStep == TypeOK /\ CountersAgree /\ FreedIsEmpty /\ [Next]_vars => FreedIsEmpty'
<1> SUFFICES ASSUME TypeOK, CountersAgree, FreedIsEmpty, [Next]_vars PROVE FreedIsEmpty'
  OBVIOUS
<1>1. CASE thread_pool_dispatch
  BY <1>1 DEF thread_pool_dispatch, FreedIsEmpty
<1>2. ASSUME NEW t \in Threads,
             enterWait(t) \/ leaveWait(t) \/ runHandler(t) \/ exitWorker(t) \/ waitTimeout(t)
      PROVE  FreedIsEmpty'
  <2>1. state' = state /\ pc[t] # "none"
    BY <1>2 DEF enterWait, leaveWait, runHandler, exitWorker, waitTimeout
  <2> QED
    BY <2>1 DEF FreedIsEmpty
<1>3. CASE destroyBegin
  BY <1>3 DEF destroyBegin, FreedIsEmpty
<1>4. CASE destroyEnd
  BY <1>4, CountedExist DEF destroyEnd, FreedIsEmpty
<1>5. CASE UNCHANGED vars
  BY <1>5 DEF vars, FreedIsEmpty
<1> QED
  BY <1>1, <1>2, <1>3, <1>4, <1>5, StepCases

\* What a dispatch that creates nobody relies on: the one that is there.
LEMMA DispatchServes ==
  ASSUME TypeOK, CountersAgree, AtMostMax, thread_pool_dispatch, failures' = 0,
         At({"exit"}) = {}
  PROVE  \E t \in Threads : pc'[t] \notin {"none", "exit"}
<1>1. PICK p \in [Threads -> PCs] :
         /\ Signal(p)
         /\ \/ p = pc /\ ~(thr_queue = 0 /\ thr_alive < thr_max)
            \/ \E t \in Threads : p = [pc EXCEPT ![t] = "top"]
  BY DispatchCases DEF TypeOK
<1>2. CASE p = pc /\ ~(thr_queue = 0 /\ thr_alive < thr_max)
  <2>1. thr_queue # 0 \/ thr_alive # 0
    BY <1>2, ThreadPoolAssumption DEF AtMostMax, TypeOK
  <2>2. \E t \in Threads : p[t] \notin {"none", "exit"}
    BY <1>2, <2>1, CountedExist DEF Waiting, At
  <2> QED
    BY <1>1, <2>2, SignalKeepsPlaces DEF Alive, PCs
<1>3. CASE \E t \in Threads : p = [pc EXCEPT ![t] = "top"]
  <2>1. \E t \in Threads : p[t] = "top"
    BY <1>3 DEF TypeOK
  <2> QED
    BY <1>1, <2>1, SignalKeepsPlaces DEF Alive, PCs
<1> QED
  BY <1>1, <1>2, <1>3

LEMMA ServedStep ==
  TypeOK /\ CountersAgree /\ AtMostMax /\ Served /\ [Next]_vars => Served'
<1> SUFFICES ASSUME TypeOK, CountersAgree, AtMostMax, Served, [Next]_vars,
                    failures' = 0, NEW i \in DOMAIN queue', queue'[i] \notin raced'
             PROVE  \E t \in Threads : pc'[t] \notin {"none", "exit"}
  BY DEF Served
<1>1. CASE thread_pool_dispatch
  <2>1. CASE At({"exit"}) = {}
    BY <1>1, <2>1, DispatchServes
  <2>2. CASE At({"exit"}) # {}
    <3>1. queue' = Append(queue, dispatched') /\ raced' = raced \cup {dispatched'}
      BY <1>1, <2>2 DEF thread_pool_dispatch, PushBack
    <3>2. i \in DOMAIN queue /\ queue[i] \notin raced
      BY <3>1 DEF TypeOK
    <3>3. failures = 0
      BY <1>1, DispatchCases DEF TypeOK
    <3>4. PICK t \in Threads : pc[t] \notin {"none", "exit"}
      BY <3>2, <3>3 DEF Served
    <3>5. PICK p \in [Threads -> PCs] :
             Signal(p) /\ (p = pc \/ \E u \in Threads : pc[u] = "none" /\ p = [pc EXCEPT ![u] = "top"])
      BY <1>1, DispatchCases
    <3>6. p[t] = pc[t]
      BY <3>4, <3>5
    <3> QED
      BY <3>4, <3>5, <3>6, SignalKeepsPlaces DEF Alive, PCs
  <2> QED
    BY <2>1, <2>2
<1>2. ASSUME NEW t \in Threads, enterWait(t) \/ leaveWait(t)
      PROVE  \E u \in Threads : pc'[u] \notin {"none", "exit"}
  <2>1. queue # <<>>
    BY <1>2 DEF enterWait, leaveWait
  <2>2. pc'[t] = "run"
    BY <1>2, <2>1 DEF enterWait, leaveWait, takeJob, TypeOK
  <2> QED
    BY <2>2
<1>3. ASSUME NEW t \in Threads, runHandler(t) \/ exitWorker(t) \/ waitTimeout(t)
      PROVE  \E u \in Threads : pc'[u] \notin {"none", "exit"}
  <2>1. UNCHANGED <<queue, raced, failures>>
    BY <1>3 DEF runHandler, exitWorker, waitTimeout
  <2>2. PICK u \in Threads : pc[u] \notin {"none", "exit"}
    BY <2>1 DEF Served
  <2>3. pc'[u] \notin {"none", "exit"}
    BY <1>3, <2>2 DEF runHandler, exitWorker, waitTimeout, TypeOK
  <2> QED
    BY <2>3
<1>4. CASE destroyBegin
  BY <1>4 DEF destroyBegin, Served
<1>5. CASE destroyEnd \/ UNCHANGED vars
  BY <1>5 DEF destroyEnd, vars, Served
<1> QED
  BY <1>1, <1>2, <1>3, <1>4, <1>5, StepCases

LEMMA PoolStep == PoolInv /\ [Next]_vars => PoolInv'
  BY TypeStep, CountersStep, FreedStep, ServedStep DEF PoolInv

(* thr_queue and thr_alive count the workers that wait and that exist, for *)
(* any number of them.                                                     *)
THEOREM CountersAlwaysAgree == Spec => []CountersAgree
<1>1. PoolInv => CountersAgree
  BY DEF PoolInv
<1> QED
  BY CountersInit, PoolStep, <1>1, PTL DEF Spec

(* thread_pool_destroy frees a pool without workers, and without a job     *)
(* that was dispatched when no worker was leaving.                         *)
THEOREM FreedOnlyWhenQuiet == Spec => []FreedWhenQuiet
<1>1. PoolInv => FreedWhenQuiet
  BY DEF PoolInv, FreedWhenQuiet, FreedIsEmpty, Served, At, TypeOK
<1> QED
  BY CountersInit, PoolStep, <1>1, PTL DEF Spec

-----------------------------------------------------------------------------
(* ThreadPool implements JobPool: jobs are numbered as they come, so that  *)
(* the queue and the workers never have the same one twice.                *)

JobsOnce ==
  /\ \A i, j \in DOMAIN queue : queue[i] = queue[j] => i = j
  /\ \A i \in DOMAIN queue : queue[i] <= dispatched
  /\ \A t \in Threads : job[t] <= dispatched
  /\ \A t \in Threads : \A i \in DOMAIN queue : job[t] # queue[i]
  /\ \A t, u \in Threads : job[t] = job[u] /\ t # u => job[t] = NoJob
  /\ \A j \in done : j <= dispatched

LEMMA JobsInit == thread_pool_init => JobsOnce
  BY DEF thread_pool_init, JobsOnce, NoJob

\* A worker takes the head of the queue.
LEMMA TakenOnce ==
  ASSUME TypeOK, JobsOnce, NEW t \in Threads, pc[t] # "run", queue # <<>>, takeJob(t),
         UNCHANGED <<dispatched, done>>
  PROVE  JobsOnce'
<1>1. /\ Head(queue) = queue[1] /\ 1 \in DOMAIN queue
      /\ \A i \in DOMAIN queue' : queue'[i] = queue[i + 1] /\ i + 1 \in DOMAIN queue /\ i + 1 # 1
  BY DEF takeJob, TypeOK
<1>2. job' = [job EXCEPT ![t] = queue[1]]
  BY <1>1 DEF takeJob
<1>3. \A i, j \in DOMAIN queue' : queue'[i] = queue'[j] => i = j
  <2> SUFFICES ASSUME NEW i \in DOMAIN queue', NEW j \in DOMAIN queue', queue'[i] = queue'[j]
               PROVE  i = j
    OBVIOUS
  <2>1. i + 1 = j + 1
    BY <1>1 DEF JobsOnce
  <2>2. i \in Nat /\ j \in Nat
    BY TypeStep DEF takeJob, TypeOK
  <2> QED
    BY <2>1, <2>2
<1>4. \A u \in Threads : \A i \in DOMAIN queue' : job'[u] # queue'[i]
  BY <1>1, <1>2 DEF JobsOnce, TypeOK
<1>5. \A u, v \in Threads : job'[u] = job'[v] /\ u # v => job'[u] = NoJob
  BY <1>1, <1>2 DEF JobsOnce, TypeOK
<1> QED
  BY <1>1, <1>2, <1>3, <1>4, <1>5 DEF JobsOnce, TypeOK

LEMMA JobsStep == TypeOK /\ JobsOnce /\ [Next]_vars => JobsOnce'
<1> SUFFICES ASSUME TypeOK, JobsOnce, [Next]_vars PROVE JobsOnce'
  OBVIOUS
<1>1. CASE thread_pool_dispatch
  <2>1. /\ queue' = Append(queue, dispatched + 1) /\ dispatched' = dispatched + 1
        /\ UNCHANGED <<job, done>>
    BY <1>1 DEF thread_pool_dispatch, PushBack
  <2>2. /\ \A i \in DOMAIN queue' : \/ i \in DOMAIN queue /\ queue'[i] = queue[i]
                                    \/ i = Len(queue) + 1 /\ queue'[i] = dispatched + 1
        /\ \A i \in DOMAIN queue : queue[i] \in Jobs
        /\ dispatched \in Int /\ \A j \in Jobs : j \in Int
    <3>1. queue \in Seq(Jobs) /\ dispatched \in Int /\ \A j \in Jobs : j \in Int
      BY DEF TypeOK, Jobs
    <3>2. /\ Len(queue) \in Nat /\ DOMAIN queue = 1 .. Len(queue)
          /\ DOMAIN queue' = 1 .. Len(queue) + 1
          /\ \A i \in 1 .. Len(queue) : queue'[i] = queue[i]
          /\ queue'[Len(queue) + 1] = dispatched + 1
      BY <2>1, <3>1
    <3> QED
      BY <3>1, <3>2
  <2>3. \A t \in Threads : job[t] \in Int
    BY DEF TypeOK, Jobs, NoJob
  <2>4. \A j \in done : j \in Int
    BY DEF TypeOK, Jobs
  <2> QED
    BY <2>1, <2>2, <2>3, <2>4 DEF JobsOnce
<1>2. ASSUME NEW t \in Threads, enterWait(t) \/ leaveWait(t) PROVE JobsOnce'
  <2>1. CASE queue # <<>>
    BY <1>2, <2>1, TakenOnce DEF enterWait, leaveWait
  <2>2. CASE queue = <<>>
    BY <1>2, <2>2 DEF enterWait, leaveWait, JobsOnce
  <2> QED
    BY <2>1, <2>2
<1>3. ASSUME NEW t \in Threads, runHandler(t) PROVE JobsOnce'
  <2>1. /\ UNCHANGED <<queue, dispatched>>
        /\ job' = [job EXCEPT ![t] = NoJob]
        /\ done' = done \cup {job[t]}
    BY <1>3 DEF runHandler
  <2>2. NoJob <= dispatched /\ \A i \in DOMAIN queue : queue[i] # NoJob
    BY ThreadPoolAssumption DEF TypeOK, Jobs, NoJob
  <2> QED
    BY <2>1, <2>2 DEF JobsOnce, TypeOK
<1>4. CASE UNCHANGED <<queue, dispatched, job, done>>
  BY <1>4 DEF JobsOnce
<1> QED
  BY <1>1, <1>2, <1>3, <1>4, StepCases DEF exitWorker, waitTimeout, destroyBegin, destroyEnd, vars

LEMMA RunningBounded ==
  ASSUME TypeOK, CountersAgree, AtMostMax, NEW t \in Threads, pc[t] \notin {"none", "run"}
  PROVE  Cardinality({job[u] : u \in At({"run"})}) < thr_max
<1> DEFINE R == At({"run"})
           J == {job[u] : u \in R}
           f == [u \in R |-> job[u]]
<1>1. f \in Surjection(R, J)
  BY Fun_IsSurj
<1>2. Cardinality(J) <= Cardinality(R)
  BY <1>1, AtIsFinite, FS_Surjection
<1>3. R \cup {t} \in SUBSET At(Alive) /\ t \notin R
  BY DEF At, Alive, TypeOK
<1>4. Cardinality(R) + 1 <= Cardinality(At(Alive))
  BY <1>3, AtIsFinite, FS_AddElement, FS_Subset
<1>5. Cardinality(At(Alive)) <= thr_max
  BY AliveIsNotNone DEF TypeOK, CountersAgree, AtMostMax
<1>6. Cardinality(J) \in Nat
  BY <1>1, AtIsFinite, FS_Surjection, FS_CardinalityType
<1> QED
  BY <1>2, <1>4, <1>5, <1>6, AtIsFinite, ThreadPoolAssumption

Running == {job[u] : u \in At({"run"})}

\* A worker takes a job: JobPool starts its first.
LEMMA TakeStarts ==
  ASSUME TypeOK, CountersAgree, AtMostMax, NEW t \in Threads, pc[t] \notin {"none", "run"},
         queue # <<>>, takeJob(t), done' = done
  PROVE  Pool!StartJob
<1>1. Cardinality(Running) < thr_max
  BY RunningBounded DEF Running
<1>2. At({"run"})' = At({"run"}) \cup {t}
  BY DEF takeJob, At, TypeOK
<1>3. Running' = Running \cup {Head(queue)}
  BY <1>2 DEF takeJob, TypeOK, Running, At
<1>4. queue' = Tail(queue)
  BY DEF takeJob
<1>5. Pool!Cardinality(Running) = Cardinality(Running)
  BY DEF Pool!Cardinality, Cardinality
<1> QED
  BY <1>1, <1>3, <1>4, <1>5 DEF Pool!StartJob, Running

LEMMA Quiet ==
  ASSUME UNCHANGED <<queue, job, done>>,
         \A t \in Threads : pc'[t] = "run" <=> pc[t] = "run"
  PROVE  UNCHANGED Pool!vars
  BY DEF At, Pool!vars

LEMMA PoolSteps ==
  TypeOK /\ CountersAgree /\ AtMostMax /\ JobsOnce /\ [Next]_vars => [Pool!Next]_(Pool!vars)
<1> SUFFICES ASSUME TypeOK, CountersAgree, AtMostMax, JobsOnce, [Next]_vars
             PROVE  [Pool!Next]_(Pool!vars)
  OBVIOUS
<1>1. CASE thread_pool_dispatch
  <2>1. /\ queue' = Append(queue, dispatched') /\ dispatched' = dispatched + 1
        /\ UNCHANGED <<job, done>>
    BY <1>1 DEF thread_pool_dispatch, PushBack
  <2>2. dispatched' \in Jobs
    BY <1>1, ThreadPoolAssumption DEF thread_pool_dispatch, TypeOK, Jobs
  <2>3. \A t \in Threads : pc'[t] = "run" <=> pc[t] = "run"
    <3>1. PICK p \in [Threads -> PCs] :
             Signal(p) /\ (p = pc \/ \E u \in Threads : pc[u] = "none" /\ p = [pc EXCEPT ![u] = "top"])
      BY <1>1, DispatchCases
    <3>2. \A t \in Threads : p[t] = "run" <=> pc[t] = "run"
      BY <3>1 DEF TypeOK
    <3> QED
      BY <3>1, <3>2, SignalKeepsPlaces
  <2>4. Running' = Running
    BY <2>1, <2>3 DEF Running, At
  <2>5. dispatched' \notin Running \cup done /\ \A i \in DOMAIN queue : queue[i] # dispatched'
    BY <2>1 DEF JobsOnce, Running, At, TypeOK
  <2>6. PICK j \in Jobs : j = dispatched'
    BY <2>2
  <2>7. Pool!DispatchJob(j)
    BY <2>1, <2>4, <2>5, <2>6 DEF Pool!DispatchJob, Running
  <2> QED
    BY <2>7 DEF Pool!Next
<1>2. ASSUME NEW t \in Threads, enterWait(t) \/ leaveWait(t) PROVE [Pool!Next]_(Pool!vars)
  <2>1. CASE queue # <<>>
    BY <1>2, <2>1, TakeStarts DEF enterWait, leaveWait, Pool!Next
  <2>2. CASE queue = <<>>
    <3>1. \A u \in Threads : pc'[u] = "run" <=> pc[u] = "run"
      BY <1>2, <2>2 DEF enterWait, leaveWait, TypeOK
    <3> QED
      BY <1>2, <2>2, <3>1, Quiet DEF enterWait, leaveWait
  <2> QED
    BY <2>1, <2>2
<1>3. ASSUME NEW t \in Threads, runHandler(t) PROVE [Pool!Next]_(Pool!vars)
  <2>1. At({"run"})' = At({"run"}) \ {t} /\ t \in At({"run"})
    BY <1>3 DEF runHandler, At, TypeOK
  <2>2. job[t] \in Jobs /\ job[t] \in Running
    BY <1>3, <2>1 DEF runHandler, TypeOK, NoJob, Jobs, Running
  <2>3. Running' = Running \ {job[t]}
    <3>1. \A u \in At({"run"}) : job[u] = job[t] => u = t
      BY <2>1, <2>2 DEF JobsOnce, At, Jobs, NoJob
    <3>2. \A u \in Threads \ {t} : job'[u] = job[u]
      BY <1>3 DEF runHandler, TypeOK
    <3> QED
      BY <2>1, <3>1, <3>2 DEF Running, At
  <2>4. PICK j \in Jobs : j = job[t]
    BY <2>2
  <2>5. Pool!FinishJob(j)
    BY <1>3, <2>2, <2>3, <2>4 DEF Pool!FinishJob, Running, runHandler
  <2> QED
    BY <2>5 DEF Pool!Next
<1>4. ASSUME NEW t \in Threads, exitWorker(t) \/ waitTimeout(t) PROVE [Pool!Next]_(Pool!vars)
  BY <1>4, Quiet DEF exitWorker, waitTimeout, TypeOK
<1>5. CASE destroyBegin \/ destroyEnd \/ UNCHANGED vars
  BY <1>5, Quiet DEF destroyBegin, destroyEnd, vars, TypeOK
<1> QED
  BY <1>1, <1>2, <1>3, <1>4, <1>5, StepCases

(* The pool gives what otherDispatch relies on: jobs are started in the    *)
(* order of their dispatch, each is run once, at most thr_max at a time.   *)
THEOREM PoolImplementsJobPool == Spec => ImplementsJobPool
<1>1. thread_pool_init => Pool!Init
  BY DEF thread_pool_init, Pool!Init, At
<1> QED
  BY <1>1, CountersInit, PoolStep, JobsInit, JobsStep, PoolSteps, PTL
     DEF Spec, ImplementsJobPool, Pool!Spec, PoolInv

=============================================================================
