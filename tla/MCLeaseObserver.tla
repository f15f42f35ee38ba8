---------------------------- MODULE MCLeaseObserver ----------------------------
(* Instances of LeaseObserver for TLC: a receiver of one entry. *)
EXTENDS LeaseObserver
=============================================================================
