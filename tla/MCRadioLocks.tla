---------------------------- MODULE MCRadioLocks ----------------------------
(* Requests of two SIMs that meet at the channels and the mutexes.         *)
EXTENDS RadioLocks, TLC

CONSTANTS on1, on2, off1, rc1, rd1, em2, da2, db2, al1, al2

SimOfAll  == (on1 :> 1) @@ (on2 :> 2) @@ (off1 :> 1) @@ (rc1 :> 1) @@ (rd1 :> 1) @@ (em2 :> 2)
             @@ (da2 :> 2) @@ (db2 :> 2) @@ (al1 :> 1) @@ (al2 :> 2)
KindOfAll == (on1 :> "powerOn") @@ (on2 :> "powerOn") @@ (off1 :> "powerOff")
             @@ (rc1 :> "capability") @@ (rd1 :> "capability") @@ (em2 :> "emergency")
             @@ (da2 :> "deactivate") @@ (db2 :> "deactivate") @@ (al1 :> "allow") @@ (al2 :> "allow")

MCSimOf  == [r \in Requests |-> SimOfAll[r]]
MCKindOf == [r \in Requests |-> KindOfAll[r]]
=============================================================================
