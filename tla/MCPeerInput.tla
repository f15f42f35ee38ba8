------------------------------- MODULE MCPeerInput -------------------------------
(***************************************************************************)
(* What the client makes of what the broker sends it: bytes cut into       *)
(* frames, frames decoded, the heartbeat fed, routes matched, pages put    *)
(* together, grants kept and used.  A behaviour is of one of these: the    *)
(* machine that moves first is the only one that moves.                    *)
(***************************************************************************)
EXTENDS TcpFraming, Heartbeat, Incoming, Routes, ScheduleListing, SessionHandles, TLC

Still(machine) ==
    /\ machine # "framing" => size = <<>> /\ commands = 0
    /\ machine # "heartbeat" => heartbeatVars = <<"select", "none", Idle, FALSE, 0, -1, FALSE>>
    /\ machine # "incoming" => reading = "none" /\ ~negotiated
    /\ machine # "routes" => checking = "idle"
    /\ machine # "listing" => listing = "new" /\ stored = {}
    /\ machine # "handles" => /\ gen = 0
                              /\ \A h \in Handles : kind[h] = "item" /\ stage[h] = "new"
                              /\ \A c \in Calls : call[c] = NewCall

MCInit == FramingInit /\ HeartbeatInit /\ IncomingInit /\ RoutesInit /\ ListingInit /\ Init

MCNext ==
    \/ /\ Still("framing") /\ FramingNext
       /\ UNCHANGED <<heartbeatVars, incomingVars, routesVars, listingVars, vars>>
    \/ /\ Still("heartbeat") /\ HeartbeatNext
       /\ UNCHANGED <<framingVars, incomingVars, routesVars, listingVars, vars>>
    \/ /\ Still("incoming") /\ IncomingNext
       /\ UNCHANGED <<framingVars, heartbeatVars, routesVars, listingVars, vars>>
    \/ /\ Still("routes") /\ RoutesNext
       /\ UNCHANGED <<framingVars, heartbeatVars, incomingVars, listingVars, vars>>
    \/ /\ Still("listing") /\ ListingNext
       /\ UNCHANGED <<framingVars, heartbeatVars, incomingVars, routesVars, vars>>
    \/ /\ Still("handles") /\ Next
       /\ UNCHANGED <<framingVars, heartbeatVars, incomingVars, routesVars, listingVars>>

allVars == <<framingVars, heartbeatVars, incomingVars, routesVars, listingVars, vars>>

MCSpec == MCInit /\ [][MCNext]_allVars

Symmetry == Permutations(Handles) \cup Permutations(Calls)
================================================================================
