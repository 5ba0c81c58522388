----------------------------- MODULE MCAsyncCmd -----------------------------
(* Requests of every kind on two SIMs.                                     *)
EXTENDS AsyncCmd, TLC

CONSTANTS sim1, sim2, rc, rc2, pn, p1, f1

SimOfAll  == [r \in {rc, rc2, p1, f1} |-> sim1] @@ (pn :> sim2)
KindOfAll == [r \in {rc, rc2} |-> "radioCapability"] @@ (pn :> "preferredNetwork")
             @@ (p1 :> "radioPower") @@ (f1 :> "facilityLock")

\* The normal thread of each SIM and the slow thread of the first.
ThreadOfAll ==
    [r \in {rc, rc2, p1} |-> "normal1"] @@ (pn :> "normal2") @@ (f1 :> "slow1")

MCSimOf    == [r \in Requests |-> SimOfAll[r]]
MCKindOf   == [r \in Requests |-> KindOfAll[r]]
MCThreadOf == [r \in Requests |-> ThreadOfAll[r]]

\* The requests of one behaviour: one of each kind, or two of one SIM whose
\* late lines may meet each other's entries, and one of the other.  Only
\* onRequest is cut off by this, to which fairness owes nothing.
OneScenario ==
    LET started == {r \in Requests : pc[r] # "new"} IN
    started \subseteq {rc, pn, p1, f1} \/ started \subseteq {rc, rc2, pn}
=============================================================================
