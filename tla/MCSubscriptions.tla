---------------------------- MODULE MCSubscriptions ----------------------------
(***************************************************************************)
(* The two families of subscriptions: KV, Queue and Lease handles own      *)
(* their registration (Registrations), Notice, Stream and Schedule handles *)
(* share one (SharedSubscriptions).  A behaviour is of one family: the     *)
(* machine that moves first is the only one that moves, and the choice of  *)
(* Notice or the others is no matter to the first.                         *)
(***************************************************************************)
EXTENDS Registrations, SharedSubscriptions, TLC

MCWireIds == {1, 2}
Symmetry == Permutations(Subs) \cup Permutations(Sharers) \cup Permutations(BrokerIds)

OwnedIdle == phase = "down" /\ generation = 0
SharedIdle == session.number = 0 /\ \A t \in SharedTasks : step[t] = "new"

MCNext ==
    \/ SharedIdle /\ family = "notice" /\ Next /\ UNCHANGED sharedVars
    \/ OwnedIdle /\ SharedNext /\ UNCHANGED vars

MCInit == Init /\ SharedInit

MCSpec == MCInit /\ [][MCNext]_<<vars, sharedVars>>
================================================================================
