------------------------- MODULE MCModemLifecycle -------------------------
(* Instances of ModemLifecycle: one SIM and its request threads.           *)
EXTENDS ModemLifecycle
CONSTANTS sim1, thread1, thread2

OneSim  == [t \in Threads |-> sim1]
==========================================================================
