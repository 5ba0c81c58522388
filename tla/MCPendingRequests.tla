------------------------- MODULE MCPendingRequests -------------------------
(* Three requests on two SIMs and three addresses: an address can be used  *)
(* again while a call that still holds it is under way.                    *)
EXTENDS PendingRequests, TLC

CONSTANTS sim1, sim2, r1, r2, r3, c1, c2, c3, d1

MCSims       == {sim1, sim2}
MCSimOf      == (r1 :> sim1) @@ (r2 :> sim1) @@ (r3 :> sim2)
\* One call for each request; d1 completes r1 a second time.
MCForTwice   == (c1 :> r1) @@ (c2 :> r2) @@ (c3 :> r3) @@ (d1 :> r1)
=============================================================================
