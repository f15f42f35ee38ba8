------------------------------ MODULE SessionLife ------------------------------
(***************************************************************************)
(* What the supervisor task of one AsyncConnection promises to everything  *)
(* built on it.  The task idles until it takes a Connect command, opens    *)
(* and authenticates a transport, restores the registrations, serves the   *)
(* session until the transport fails, and opens the next one.  Every lost  *)
(* session and the first close() advance the generation, the number by     *)
(* which commands and handles name the session they belong to.  Module     *)
(* Supervisor refines this specification; module Requests builds on it.    *)
(***************************************************************************)
EXTENDS Integers

CONSTANT MaxGeneration  \* bound on the generation: lost sessions plus close()

ASSUME MaxGenerationAssumption == MaxGeneration \in Nat

VARIABLES
    phase,       \* where supervise() is: see Phases
    generation,  \* AsyncConnection::generation
    sessionGen,  \* session_generation of the last session served, -1 before
    closing      \* how far close() has got: see Closings

lifeVars == <<phase, generation, sessionGen, closing>>

\* idle: waiting for a command; opening: connecting, authenticating or backing
\* off; restoring: authenticated, re-registering; live: inside run_session;
\* stopped: supervise() has returned and its channels are gone.
Phases == {"idle", "opening", "restoring", "live", "stopped"}

\* requested: close_requested is set; sent: the Close command is queued;
\* settled: close() gave up queueing it.
Closings == {"no", "requested", "sent", "settled"}

LifeTypeOK ==
    /\ phase \in Phases
    /\ generation \in 0..MaxGeneration
    /\ sessionGen \in -1..MaxGeneration
    /\ closing \in Closings

LifeInit ==
    /\ phase = "idle"
    /\ generation = 0
    /\ sessionGen = -1
    /\ closing = "no"

-----------------------------------------------------------------------------
\* supervise() takes a Connect command and enters connect_and_run().
Begin ==
    /\ phase = "idle"
    /\ phase' = "opening"
    /\ UNCHANGED <<generation, sessionGen, closing>>

\* open_session() succeeded and close_requested is still clear.
Authenticate ==
    /\ phase = "opening"
    /\ closing = "no"
    /\ phase' = "restoring"
    /\ UNCHANGED <<generation, sessionGen, closing>>

\* The registrations are restored; run_session() reads the generation.
Serve ==
    /\ phase = "restoring"
    /\ phase' = "live"
    /\ sessionGen' = generation
    /\ UNCHANGED <<generation, closing>>

\* connect_and_run() returns without a session: rejected, failed, attempts
\* exhausted, or close_requested seen.
Abandon ==
    /\ phase = "opening"
    /\ phase' = "idle"
    /\ UNCHANGED <<generation, sessionGen, closing>>

\* run_session() returned Disconnected: the generation advances before the
\* next attempt is counted.
Lose ==
    /\ phase = "live"
    /\ generation < MaxGeneration
    /\ generation' = generation + 1
    /\ phase' = "opening"
    /\ UNCHANGED <<sessionGen, closing>>

\* close(): the first caller sets close_requested and advances the generation.
RequestClose ==
    /\ closing = "no"
    /\ generation < MaxGeneration
    /\ closing' = "requested"
    /\ generation' = generation + 1
    /\ UNCHANGED <<phase, sessionGen>>

\* The Close command is taken: by the session, which returns to supervise(),
\* or by supervise() itself, which returns.
FinishClose ==
    /\ closing = "sent"
    /\ \/ phase = "live" /\ phase' = "idle"
       \/ phase = "idle" /\ phase' = "stopped"
    /\ UNCHANGED <<generation, sessionGen, closing>>

\* close() queues its command, or gives up after its timeout.
SettleClose ==
    /\ closing = "requested"
    /\ closing' \in {"sent", "settled"}
    /\ UNCHANGED <<phase, generation, sessionGen>>

LifeNext ==
    \/ Begin \/ Authenticate \/ Serve \/ Abandon \/ Lose
    \/ RequestClose \/ SettleClose \/ FinishClose

LifeSpec == LifeInit /\ [][LifeNext]_lifeVars
=============================================================================
