------------------------------ MODULE MCLeaseHold ------------------------------
(* Instances of LeaseHold for TLC: who uses which route and which gate. *)
EXTENDS LeaseHold

CONSTANTS t1, t2, t3, rA, g1, g2

\* Everybody contends for one route.
MCRouteOf == [t \in Tasks |-> rA]
\* t1 calls client.lease() again.
MCTwoGates == [t \in Tasks |-> IF t = t1 THEN g2 ELSE g1]
=============================================================================
