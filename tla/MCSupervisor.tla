----------------------------- MODULE MCSupervisor -----------------------------
(***************************************************************************)
(* Model checking instances of Supervisor.                                 *)
(***************************************************************************)
EXTENDS Supervisor, TLC

CONSTANTS k1, k2

ConnectorSymmetry == Permutations({k1, k2})
=============================================================================
