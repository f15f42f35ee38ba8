------------------------------ MODULE MCRequests ------------------------------
(***************************************************************************)
(* Model checking instances of Requests.                                   *)
(***************************************************************************)
EXTENDS Requests, TLC

CONSTANTS a, b, s  \* two requests and a send

MCAdvertised == {1, 2}
CallSymmetry == Permutations({a, b})

\* Bound: every connect() but the first meets the session before it has served a call.
EarlyConnects ==
    connects > 0 /\ connects' # connects =>
        phase = "live" /\ queue = <<>> /\ \A c \in Calls : pc[c] = "new"

MCNext == Next /\ EarlyConnects
MCSpec == Init /\ [][MCNext]_vars
=============================================================================
