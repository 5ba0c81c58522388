--------------------------- MODULE RequestService ---------------------------
(***************************************************************************)
(* What the vendor RIL promises the framework about the requests it        *)
(* accepts (the comment above onRequest in sprd-ril/sprd_ril.c): each one  *)
(* is completed, "from any thread, before or after this function returns". *)
(* The requests of a dispatch list that one thread serves are taken up in  *)
(* the order in which they were submitted, and each is answered before the *)
(* next is taken up, except that the handlers of some may put theirs       *)
(* aside: an unsolicited line of the modem or a timer answers them later,  *)
(* in any order.  The requests of the remaining class ("other") are        *)
(* answered in any order.                                                  *)
(***************************************************************************)
EXTENDS Sequences

CONSTANTS Requests,     \* the requests the framework may submit
          Fifos,        \* the dispatch lists served in order
          FifoOf,       \* [Requests -> Fifos \cup {anything else}]
          Deferrable    \* the requests that may be put aside

VARIABLES fifo,         \* [Fifos -> Seq(Requests)]: not answered nor put aside
          loose,        \* submitted, not answered, in no fifo
          answered      \* the requests that have been completed

vars == <<fifo, loose, answered>>

Ordered(r) == FifoOf[r] \in Fifos

Submitted(r) ==
    \/ r \in answered \cup loose
    \/ Ordered(r) /\ \E i \in DOMAIN fifo[FifoOf[r]] : fifo[FifoOf[r]][i] = r

Init == /\ fifo = [f \in Fifos |-> <<>>]
        /\ loose = {}
        /\ answered = {}

Submit(r) ==
    /\ ~Submitted(r)
    /\ IF Ordered(r)
       THEN /\ fifo' = [fifo EXCEPT ![FifoOf[r]] = Append(@, r)]
            /\ UNCHANGED loose
       ELSE /\ loose' = loose \cup {r}
            /\ UNCHANGED fifo
    /\ UNCHANGED answered

Answer(r) ==
    /\ r \notin answered
    /\ answered' = answered \cup {r}
    /\ \/ /\ Ordered(r)
          /\ fifo[FifoOf[r]] # <<>>
          /\ r = Head(fifo[FifoOf[r]])
          /\ fifo' = [fifo EXCEPT ![FifoOf[r]] = Tail(@)]
          /\ UNCHANGED loose
       \/ /\ r \in loose
          /\ loose' = loose \ {r}
          /\ UNCHANGED fifo

\* The handler of a request returns and leaves the answer to a line or a timer.
PutAside(r) ==
    /\ r \in Deferrable
    /\ Ordered(r)
    /\ fifo[FifoOf[r]] # <<>>
    /\ r = Head(fifo[FifoOf[r]])
    /\ fifo' = [fifo EXCEPT ![FifoOf[r]] = Tail(@)]
    /\ loose' = loose \cup {r}
    /\ UNCHANGED answered

Next == \E r \in Requests : Submit(r) \/ Answer(r) \/ PutAside(r)

Spec == Init /\ [][Next]_vars

\* With fairness: a submitted request is answered in the end.
FairSpec == Spec /\ \A r \in Requests : WF_vars(Answer(r))
=============================================================================
