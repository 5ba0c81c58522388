------------------------------- MODULE JobPool -------------------------------
(***************************************************************************)
(* What otherDispatch relies on when it hands jobs to the thread pool      *)
(* (libril_threads/thread_pool.cpp): every job is run at most once, jobs   *)
(* are started in the order in which they were dispatched, and never more  *)
(* than thr_max of them run at the same time.                              *)
(***************************************************************************)
EXTENDS Naturals, Sequences, FiniteSets

CONSTANTS Jobs, thr_max

VARIABLES waiting,      \* Seq(Jobs): dispatched, not started
          running,      \* SUBSET Jobs: in their handler
          finished      \* SUBSET Jobs

vars == <<waiting, running, finished>>

Init == waiting = <<>> /\ running = {} /\ finished = {}

DispatchJob(j) ==
    /\ j \notin running \cup finished
    /\ \A i \in DOMAIN waiting : waiting[i] # j
    /\ waiting' = Append(waiting, j)
    /\ UNCHANGED <<running, finished>>

StartJob ==
    /\ waiting # <<>>
    /\ Cardinality(running) < thr_max
    /\ running' = running \cup {Head(waiting)}
    /\ waiting' = Tail(waiting)
    /\ UNCHANGED finished

FinishJob(j) ==
    /\ j \in running
    /\ running' = running \ {j}
    /\ finished' = finished \cup {j}
    /\ UNCHANGED waiting

Next == StartJob \/ \E j \in Jobs : DispatchJob(j) \/ FinishJob(j)

Spec == Init /\ [][Next]_vars
=============================================================================
