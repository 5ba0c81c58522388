----------------------------- MODULE ThreadPool -----------------------------
(***************************************************************************)
(* The worker pool of libril_threads/thread_pool.cpp.  A worker counts     *)
(* itself in thr_queue while it waits for a job, leaves the pool when the  *)
(* wait times out with nothing to do, and only afterwards, in a second     *)
(* critical section, takes itself off thr_alive.  thread_pool_dispatch     *)
(* appends a job, creates a worker if none waits and fewer than thr_max    *)
(* are alive, and signals.  A critical section is one action.              *)
(*                                                                         *)
(* Abstracted: a job is a number, in dispatch order; the idle timeout is a *)
(* choice; the failures of pthread_mutex_lock, which end the process, are  *)
(* left out.                                                               *)
(***************************************************************************)
EXTENDS Naturals, Sequences, FiniteSets

CONSTANTS Threads,       \* names for the threads pthread_create makes
          thr_max,       \* the limit given to thread_pool_init
          MaxJobs,       \* bound: number of jobs dispatched
          MaxFailures,   \* bound: how often pthread_create fails
          MayDestroy     \* whether thread_pool_destroy is called

ASSUME ThreadPoolAssumption ==
    /\ thr_max \in Nat \ {0}
    /\ MaxJobs \in Nat
    /\ MaxFailures \in Nat
    /\ MayDestroy \in BOOLEAN
    /\ IsFiniteSet(Threads)
    /\ thr_max <= Cardinality(Threads)

Jobs  == 1 .. MaxJobs
NoJob == 0

VARIABLES queue,        \* queue_head: the jobs no worker has taken
          dispatched,   \* number of jobs thread_pool_dispatch has accepted
          thr_queue,    \* workers that wait for a job
          thr_alive,    \* workers that exist
          state,        \* POOL_VALID, POOL_EXIT, or "FREED"
          pc,           \* [Threads -> control state of the worker]
          job,          \* [Threads -> Jobs \cup {NoJob}]: worker->data
          done,         \* jobs whose handler has returned
          failures,     \* failed pthread_create calls
          raced         \* history: jobs dispatched while a worker was leaving

vars == <<queue, dispatched, thr_queue, thr_alive, state, pc, job, done,
          failures, raced>>

\* "none": the thread does not exist; "top": before the lock at the top of the
\* loop; "wait": in pthread_cond_timedwait; "woken" and "timedOut": returned
\* from it, before it has the mutex back; "run": in the handler; "exit": out of
\* the loop, before thr_alive is decremented.
PCs     == {"none", "top", "wait", "woken", "timedOut", "run", "exit"}
Waiting == {"wait", "woken", "timedOut"}

At(S) == {t \in Threads : pc[t] \in S}

thread_pool_init ==
    /\ queue = <<>>
    /\ dispatched = 0
    /\ thr_queue = 0
    /\ thr_alive = 0
    /\ state = "POOL_VALID"
    /\ pc = [t \in Threads |-> "none"]
    /\ job = [t \in Threads |-> NoJob]
    /\ done = {}
    /\ failures = 0
    /\ raced = {}

-----------------------------------------------------------------------------
(* Plausible mistakes; the mutants of PROJECT.json put each in the place   *)
(* of the operation it varies.                                             *)

\* thread_pool_dispatch does not signal.
NoSignal(p) == pc' = p

\* Jobs are pushed on the front of the list.
PushFront(j) == <<j>> \o queue

\* A worker that times out breaks out of the loop without thr_queue--.
TimeoutKeepsCount(t) ==
    /\ pc[t] \in {"woken", "timedOut"}
    /\ \/ /\ queue # <<>>
          /\ job' = [job EXCEPT ![t] = Head(queue)]
          /\ queue' = Tail(queue)
          /\ pc' = [pc EXCEPT ![t] = "run"]
          /\ thr_queue' = thr_queue - 1
       \/ /\ queue = <<>>
          /\ pc[t] = "timedOut"
          /\ pc' = [pc EXCEPT ![t] = "exit"]
          /\ UNCHANGED <<queue, job, thr_queue>>
    /\ UNCHANGED <<dispatched, thr_alive, state, done, failures, raced>>

\* thread_pool_destroy waits until no worker waits for a job.
DestroyIgnoresBusy ==
    /\ state = "POOL_EXIT"
    /\ thr_queue = 0
    /\ state' = "FREED"
    /\ UNCHANGED <<queue, dispatched, thr_queue, thr_alive, pc, job, done,
                   failures, raced>>

-----------------------------------------------------------------------------
(* pthread_cond_signal wakes one of the waiting workers, if there is one;  *)
(* p is the control state of the workers before the signal.                *)
Signal(p) ==
    IF \E t \in Threads : p[t] = "wait"
    THEN \E t \in Threads : p[t] = "wait" /\ pc' = [p EXCEPT ![t] = "woken"]
    ELSE pc' = p

-----------------------------------------------------------------------------
(* thread_pool_dispatch.                                                   *)

createWorker(t) ==
    /\ pc[t] = "none"
    /\ thr_alive' = thr_alive + 1
    /\ Signal([pc EXCEPT ![t] = "top"])
    /\ UNCHANGED failures

createFails ==
    /\ failures < MaxFailures
    /\ failures' = failures + 1
    /\ Signal(pc)
    /\ UNCHANGED thr_alive

PushBack(j) == Append(queue, j)

thread_pool_dispatch ==
    /\ state = "POOL_VALID"
    /\ dispatched < MaxJobs
    /\ dispatched' = dispatched + 1
    /\ queue' = PushBack(dispatched')
    /\ raced' = IF At({"exit"}) # {} THEN raced \cup {dispatched'} ELSE raced
    /\ IF thr_queue = 0 /\ thr_alive < thr_max
       THEN (\E t \in Threads : createWorker(t)) \/ createFails
       ELSE Signal(pc) /\ UNCHANGED <<thr_alive, failures>>
    /\ UNCHANGED <<thr_queue, state, job, done>>

(* thread_pool_worker.                                                     *)

takeJob(t) ==
    /\ job' = [job EXCEPT ![t] = Head(queue)]
    /\ queue' = Tail(queue)
    /\ pc' = [pc EXCEPT ![t] = "run"]

\* The top of the loop: the worker counts itself in thr_queue, and out again at
\* once if there is a job or the pool is being destroyed.
enterWait(t) ==
    /\ pc[t] = "top"
    /\ \/ /\ queue # <<>>
          /\ takeJob(t)
          /\ UNCHANGED thr_queue
       \/ /\ queue = <<>> /\ state = "POOL_VALID"
          /\ thr_queue' = thr_queue + 1
          /\ pc' = [pc EXCEPT ![t] = "wait"]
          /\ UNCHANGED <<queue, job>>
       \/ /\ queue = <<>> /\ state = "POOL_EXIT"
          /\ pc' = [pc EXCEPT ![t] = "exit"]
          /\ UNCHANGED <<queue, job, thr_queue>>
    /\ UNCHANGED <<dispatched, thr_alive, state, done, failures, raced>>

waitTimeout(t) ==
    /\ pc[t] = "wait"
    /\ pc' = [pc EXCEPT ![t] = "timedOut"]
    /\ UNCHANGED <<queue, dispatched, thr_queue, thr_alive, state, job, done,
                   failures, raced>>

\* pthread_cond_timedwait has the mutex again.  After a timeout the worker
\* leaves the pool unless a job came meanwhile; woken with nothing to do it
\* waits again.
leaveWait(t) ==
    /\ pc[t] \in {"woken", "timedOut"}
    /\ \/ /\ queue # <<>>
          /\ takeJob(t)
          /\ thr_queue' = thr_queue - 1
       \/ /\ queue = <<>>
          /\ pc[t] = "timedOut" \/ state = "POOL_EXIT"
          /\ thr_queue' = thr_queue - 1
          /\ pc' = [pc EXCEPT ![t] = "exit"]
          /\ UNCHANGED <<queue, job>>
       \/ /\ queue = <<>>
          /\ pc[t] = "woken" /\ state = "POOL_VALID"
          /\ pc' = [pc EXCEPT ![t] = "wait"]
          /\ UNCHANGED <<queue, job, thr_queue>>
    /\ UNCHANGED <<dispatched, thr_alive, state, done, failures, raced>>

runHandler(t) ==
    /\ pc[t] = "run"
    /\ done' = done \cup {job[t]}
    /\ job' = [job EXCEPT ![t] = NoJob]
    /\ pc' = [pc EXCEPT ![t] = "top"]
    /\ UNCHANGED <<queue, dispatched, thr_queue, thr_alive, state, failures,
                   raced>>

\* The second critical section.  The broadcast of the last worker is for
\* thread_pool_destroy, the only one left to wait on the condition.
exitWorker(t) ==
    /\ pc[t] = "exit"
    /\ thr_alive' = thr_alive - 1
    /\ pc' = [pc EXCEPT ![t] = "none"]
    /\ UNCHANGED <<queue, dispatched, thr_queue, state, job, done, failures,
                   raced>>

(* thread_pool_destroy, whose callers are outside this repository: the     *)
(* broadcast, and then the wait for thr_alive to become 0.                 *)

destroyBegin ==
    /\ MayDestroy
    /\ state = "POOL_VALID"
    /\ state' = "POOL_EXIT"
    /\ pc' = [t \in Threads |-> IF pc[t] = "wait" THEN "woken" ELSE pc[t]]
    /\ UNCHANGED <<queue, dispatched, thr_queue, thr_alive, job, done, failures,
                   raced>>

destroyEnd ==
    /\ state = "POOL_EXIT"
    /\ thr_alive = 0
    /\ state' = "FREED"
    /\ UNCHANGED <<queue, dispatched, thr_queue, thr_alive, pc, job, done,
                   failures, raced>>

-----------------------------------------------------------------------------
thread_pool_worker(t) ==
    enterWait(t) \/ leaveWait(t) \/ runHandler(t) \/ exitWorker(t)

Next ==
    \/ thread_pool_dispatch
    \/ \E t \in Threads : thread_pool_worker(t) \/ waitTimeout(t)
    \/ destroyBegin \/ destroyEnd

Spec == thread_pool_init /\ [][Next]_vars

(* Every worker that can run does; nothing forces a job, a timeout or the  *)
(* destruction of the pool.                                                *)
FairSpec ==
    /\ Spec
    /\ \A t \in Threads : WF_vars(thread_pool_worker(t))
    /\ WF_vars(destroyEnd)

-----------------------------------------------------------------------------
(* Properties.                                                             *)

\* thr_queue and thr_alive count what they claim to count in every critical
\* section, so that the test of thread_pool_dispatch (lines 199-200) never
\* creates more than thr_max workers, nor a worker while another one waits.
CountersAgree ==
    /\ thr_queue = Cardinality(At(Waiting))
    /\ thr_alive = Cardinality(Threads \ At({"none"}))

\* The pool is freed only when no worker is left that could touch it, and the
\* jobs accepted before thread_pool_destroy have been run unless stranded.
FreedWhenQuiet ==
    state = "FREED" =>
        /\ At(PCs \ {"none"}) = {}
        /\ failures = 0 => \A i \in DOMAIN queue : queue[i] \in raced

\* The pool implements JobPool: each job once, in order, at most thr_max.
Pool == INSTANCE JobPool WITH
    waiting  <- queue,
    running  <- {job[t] : t \in At({"run"})},
    finished <- done

ImplementsJobPool == Pool!Spec

\* A job dispatched while no worker is leaving is run in the end, whatever
\* timeouts, exits and creations of workers surround it, unless pthread_create
\* fails (line 202 tells nobody).
UnracedJobRun ==
    \A j \in Jobs : dispatched >= j /\ j \notin raced ~> (j \in done \/ failures > 0)

=============================================================================
