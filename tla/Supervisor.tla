------------------------------- MODULE Supervisor -------------------------------
(***************************************************************************)
(* The supervisor task of one AsyncConnection in detail (supervise,        *)
(* connect_and_run, open_session, reconnect_delay), the observable         *)
(* ConnectionState it shares with the Client, and the Client's connect()   *)
(* and close().  Commands other than Connect and Close are left to module  *)
(* Requests.  The broker and the token provider are external: each attempt *)
(* may succeed or fail in every way the code tells apart.                  *)
(*                                                                         *)
(* A definition X_Y stated before X is a faulty variant of X: it is what   *)
(* the properties are tried against, and no specification uses it.         *)
(***************************************************************************)
EXTENDS Integers, Sequences

CONSTANTS
    Connectors,        \* tasks that call Client::connect() once
    Close,             \* the Close command
    NoConnector,       \* no initial response is pending
    MaxQueued,         \* capacity of the command channel
    ReconnectEnabled,  \* reconnect.enabled
    MaximumAttempts,   \* reconnect.maximum_attempts, 0 for unlimited
    MaxGeneration,     \* bound on the generation
    MaxAttempts        \* bound on the attempts of one connect_and_run

ASSUME SupervisorAssumption ==
    /\ Close \notin Connectors
    /\ NoConnector \notin Connectors
    /\ MaxQueued \in Nat \ {0}
    /\ ReconnectEnabled \in BOOLEAN
    /\ MaximumAttempts \in Nat
    /\ MaxGeneration \in Nat
    /\ MaxAttempts \in Nat

VARIABLES
    sup,         \* where supervise() is
    state,       \* the watch channel of ConnectionState
    attempts,    \* attempts of the running connect_and_run
    initial,     \* the connector whose Connect started it, until answered
    queue,       \* the command channel
    generation, sessionGen, closing,   \* as in SessionLife
    closed,      \* Client::close() has returned
    slot,        \* what the Client's connection slot holds: see Slots
    successor,   \* the connection spawned after close() emptied the slot
    pc,          \* progress of each connector
    result       \* what its connect() returned

supVars == <<sup, attempts, initial>>
connVars == <<pc, result>>
clientVars == <<closing, closed, slot, successor>>
vars == <<supVars, state, queue, generation, sessionGen, clientVars, connVars>>

States == {"Disconnected", "Connecting", "Authenticating", "Authenticated",
           "Reconnecting", "Closed"}

\* this: the connection this module follows, spawned by an earlier connect().
Slots == {"this", "empty", "successor"}
Successors == {"none", "idle", "opening", "live"}
Opening == {"top", "token", "dialing", "settling", "opened", "lost", "backoff"}

TypeOK ==
    /\ sup \in Opening \cup {"idle", "restoring", "live", "stopped"}
    /\ state \in States
    /\ attempts \in 0..MaxAttempts + 1
    /\ initial \in Connectors \cup {NoConnector}
    /\ queue \in Seq(Connectors \cup {Close})
    /\ generation \in 0..MaxGeneration
    /\ sessionGen \in -1..MaxGeneration
    /\ closing \in {"no", "requested", "sent", "settled"}
    /\ closed \in BOOLEAN
    /\ slot \in Slots
    /\ successor \in Successors
    /\ pc \in [Connectors -> {"new", "checked", "announced", "obtained", "moved",
                              "admitted", "sent", "done"}]
    /\ result \in [Connectors -> {"none", "ok", "version", "auth", "failed",
                                  "gone", "Closed", "Timeout"}]

Init ==
    /\ sup = "idle"
    /\ state = "Disconnected"
    /\ attempts = 0
    /\ initial = NoConnector
    /\ queue = <<>>
    /\ generation = 0
    /\ sessionGen = -1
    /\ closing = "no"
    /\ closed = FALSE
    /\ slot = "this"
    /\ successor = "none"
    /\ pc = [k \in Connectors |-> "new"]
    /\ result = [k \in Connectors |-> "none"]

-----------------------------------------------------------------------------
(* Client::connect() and Client::close(). *)

ReturnConnect(k, what) ==
    /\ pc' = [pc EXCEPT ![k] = "done"]
    /\ result' = [result EXCEPT ![k] = what]

\* connect() first looks at the observable state.
CheckState(k) ==
    /\ pc[k] = "new"
    /\ IF state = "Closed"
       THEN ReturnConnect(k, "Closed")
       ELSE pc' = [pc EXCEPT ![k] = "checked"] /\ UNCHANGED result
    /\ UNCHANGED <<supVars, state, queue, generation, sessionGen, clientVars>>

\* It announces Connecting, whatever has become of the client since ...
Announce(k) ==
    /\ pc[k] = "checked"
    /\ state' = "Connecting"
    /\ pc' = [pc EXCEPT ![k] = "announced"]
    /\ UNCHANGED <<supVars, queue, generation, sessionGen, clientVars, result>>

\* ... and takes a clone of the connection in the slot.  Where close() has
\* emptied the slot it spawns another connection, of which only the
\* announcements are followed here.
Obtain(k) ==
    /\ pc[k] = "announced"
    /\ \/ /\ slot = "this"
          /\ pc' = [pc EXCEPT ![k] = "obtained"]
          /\ UNCHANGED <<slot, successor>>
       \/ /\ slot = "empty"
          /\ slot' = "successor"
          /\ successor' = "idle"
          /\ pc' = [pc EXCEPT ![k] = "moved"]
       \/ /\ slot = "successor"
          /\ pc' = [pc EXCEPT ![k] = "moved"]
          /\ UNCHANGED <<slot, successor>>
    /\ UNCHANGED <<supVars, state, queue, generation, sessionGen, closing, closed, result>>

\* AsyncConnection::connect() is refused once close_requested is set ...
Admit(k) ==
    /\ pc[k] = "obtained"
    /\ IF closing # "no"
       THEN ReturnConnect(k, "Closed")
       ELSE pc' = [pc EXCEPT ![k] = "admitted"] /\ UNCHANGED result
    /\ UNCHANGED <<supVars, state, queue, generation, sessionGen, clientVars>>

\* ... and otherwise waits for room, or finds that the supervisor has returned.
SendConnect(k) ==
    /\ pc[k] = "admitted"
    /\ \/ /\ sup = "stopped"
          /\ ReturnConnect(k, "Closed")
          /\ UNCHANGED queue
       \/ /\ sup # "stopped"
          /\ Len(queue) < MaxQueued
          /\ queue' = Append(queue, k)
          /\ pc' = [pc EXCEPT ![k] = "sent"]
          /\ UNCHANGED result
    /\ UNCHANGED <<supVars, state, generation, sessionGen, clientVars>>

\* The timeout of the send or of the answer elapses.
ConnectTimeOut(k) ==
    /\ pc[k] \in {"admitted", "sent"}
    /\ ReturnConnect(k, "Timeout")
    /\ UNCHANGED <<supVars, state, queue, generation, sessionGen, clientVars>>

\* Client::close() takes the connection out of the slot ...
TakeSlot ==
    /\ slot = "this"
    /\ slot' = "empty"
    /\ UNCHANGED <<supVars, state, queue, generation, sessionGen,
                   closing, closed, successor, connVars>>

\* ... and closes it: close_requested is set and the generation advances.
RequestClose ==
    /\ slot # "this"
    /\ closing = "no"
    /\ generation < MaxGeneration
    /\ closing' = "requested"
    /\ generation' = generation + 1
    /\ UNCHANGED <<supVars, state, queue, sessionGen, closed, slot, successor, connVars>>

\* It queues Close when there is room, or gives up after its timeout.
SendClose ==
    /\ closing = "requested"
    /\ \/ /\ Len(queue) < MaxQueued
          /\ queue' = Append(queue, Close)
          /\ closing' = "sent"
       \/ /\ closing' = "settled"
          /\ UNCHANGED queue
    /\ UNCHANGED <<supVars, state, generation, sessionGen, closed, slot, successor, connVars>>

\* Client::close() returns, answered or timed out, and announces Closed.
CloseReturns ==
    /\ closing \in {"sent", "settled"}
    /\ ~closed
    /\ closed' = TRUE
    /\ state' = "Closed"
    /\ UNCHANGED <<supVars, queue, generation, sessionGen, closing, slot, successor, connVars>>

\* The supervisor of the successor, as far as it is seen: it takes a Connect,
\* opens sessions, announces each that it serves, and gives up.  Live includes
\* a loss that it has not counted yet.
SuccessorStep ==
    /\ \/ /\ successor \in {"idle", "opening"}
          /\ successor' = "opening"
          /\ state' \in {"Connecting", "Authenticating", "Reconnecting"}
       \/ /\ successor = "opening"
          /\ successor' = "live"
          /\ state' = "Authenticated"
       \/ /\ successor = "live"
          /\ successor' = "opening"
          /\ state' = "Reconnecting"
       \/ /\ successor \in {"opening", "live"}
          /\ successor' = "idle"
          /\ state' \in {"Disconnected", "Closed"}
    /\ UNCHANGED <<supVars, queue, generation, sessionGen, closing, closed, slot, connVars>>

-----------------------------------------------------------------------------
(* supervise() and connect_and_run(). *)

\* The oneshot of connector k gets what, if k still waits.
Tell(k, what) ==
    IF k \in Connectors /\ pc[k] = "sent"
    THEN ReturnConnect(k, what) ELSE UNCHANGED connVars

Retire_Unanswered(s, what) ==
    /\ sup' = "idle"
    /\ state' = s
    /\ initial' = NoConnector
    /\ UNCHANGED connVars

\* connect_and_run() returns to supervise(), announcing s; a pending initial
\* response gets what.
Retire(s, what) ==
    /\ sup' = "idle"
    /\ state' = s
    /\ initial' = NoConnector
    /\ Tell(initial, what)

Delay_OffByOne(n) ==
    /\ attempts' = n
    /\ \/ /\ MaximumAttempts # 0 /\ n > MaximumAttempts + 1
          /\ Retire("Disconnected", "failed")
       \/ /\ MaximumAttempts = 0 \/ n <= MaximumAttempts + 1
          /\ sup' = "backoff"
          /\ state' = "Reconnecting"
          /\ UNCHANGED <<initial, connVars>>

\* reconnect_delay(): give up when the attempts are used, else back off.
Delay(n) ==
    /\ attempts' = n
    /\ \/ /\ MaximumAttempts # 0 /\ n > MaximumAttempts
          /\ Retire("Disconnected", "failed")
       \/ /\ MaximumAttempts = 0 \/ n <= MaximumAttempts
          /\ sup' = "backoff"
          /\ state' = "Reconnecting"
          /\ UNCHANGED <<initial, connVars>>

\* supervise() takes a Connect command.
TakeConnect ==
    /\ sup = "idle"
    /\ queue # <<>>
    /\ Head(queue) \in Connectors
    /\ sup' = "top"
    /\ state' = "Connecting"
    /\ attempts' = 0
    /\ initial' = Head(queue)
    /\ queue' = Tail(queue)
    /\ UNCHANGED <<generation, sessionGen, clientVars, connVars>>

TakeClose_KeepsState ==
    /\ sup = "idle"
    /\ queue # <<>>
    /\ Head(queue) = Close
    /\ sup' = "stopped"
    /\ queue' = <<>>
    /\ LET dropped == {k \in Connectors : pc[k] = "sent"} IN
       /\ pc' = [k \in Connectors |-> IF k \in dropped THEN "done" ELSE pc[k]]
       /\ result' = [k \in Connectors |-> IF k \in dropped THEN "gone" ELSE result[k]]
    /\ UNCHANGED <<attempts, initial, state, generation, sessionGen, clientVars>>

\* supervise() takes Close and returns; queued commands are dropped.
TakeClose ==
    /\ sup = "idle"
    /\ queue # <<>>
    /\ Head(queue) = Close
    /\ sup' = "stopped"
    /\ state' = "Closed"
    /\ queue' = <<>>
    /\ LET dropped == {k \in Connectors : pc[k] = "sent"} IN
       /\ pc' = [k \in Connectors |-> IF k \in dropped THEN "done" ELSE pc[k]]
       /\ result' = [k \in Connectors |-> IF k \in dropped THEN "gone" ELSE result[k]]
    /\ UNCHANGED <<attempts, initial, generation, sessionGen, clientVars>>

\* Top of the connect_and_run loop: stop if close was requested.
LoopTop ==
    /\ sup = "top"
    /\ \/ /\ closing # "no"
          /\ Retire("Closed", "gone")
       \/ /\ closing = "no"
          /\ sup' = "token"
          /\ UNCHANGED <<initial, state, connVars>>
    /\ UNCHANGED <<attempts, queue, generation, sessionGen, clientVars>>

\* open_session() gets one step further: the token, the transport, HELLO.
Advance ==
    /\ \/ sup = "token" /\ sup' = "dialing" /\ state' = "Connecting"
       \/ sup = "dialing" /\ sup' = "settling" /\ state' = "Authenticating"
       \/ sup = "settling" /\ sup' = "opened" /\ UNCHANGED state
    /\ UNCHANGED <<attempts, initial, queue, generation, sessionGen, clientVars, connVars>>

\* open_session() fails: version mismatch and authentication failures end the
\* run, others too unless this is a reconnect and reconnecting is enabled.
OpenFails ==
    /\ \E kind \in {"version", "auth", "failed"} :
         /\ \/ sup = "settling"
            \/ sup = "token" /\ kind # "version"
            \/ sup = "dialing" /\ kind = "failed"
         /\ IF kind = "failed" /\ initial = NoConnector /\ ReconnectEnabled
            THEN attempts < MaxAttempts /\ Delay(attempts + 1)
            ELSE /\ Retire(IF kind = "auth" THEN "Closed" ELSE "Disconnected", kind)
                 /\ UNCHANGED attempts
    /\ UNCHANGED <<queue, generation, sessionGen, clientVars>>

Opened_Unchecked ==
    /\ sup = "opened"
    /\ sup' = "restoring"
    /\ UNCHANGED <<attempts, initial, state, connVars,
                   queue, generation, sessionGen, clientVars>>

\* open_session() succeeded: check close_requested again, then restore.
Opened ==
    /\ sup = "opened"
    /\ \/ /\ closing # "no"
          /\ Retire("Closed", "gone")
       \/ /\ closing = "no"
          /\ sup' = "restoring"
          /\ UNCHANGED <<initial, state, connVars>>
    /\ UNCHANGED <<attempts, queue, generation, sessionGen, clientVars>>

\* Restoration is over: announce Authenticated, answer the initial connect,
\* and serve the session under the generation read now.
Restored ==
    /\ sup = "restoring"
    /\ sup' = "live"
    /\ state' = "Authenticated"
    /\ initial' = NoConnector
    /\ Tell(initial, "ok")
    /\ sessionGen' = generation
    /\ UNCHANGED <<attempts, queue, generation, clientVars>>

\* The session answers a Connect at once, without touching the state.
SessionConnect ==
    /\ sup = "live"
    /\ queue # <<>>
    /\ Head(queue) \in Connectors
    /\ Tell(Head(queue), "ok")
    /\ queue' = Tail(queue)
    /\ UNCHANGED <<supVars, state, generation, sessionGen, clientVars>>

\* The session takes Close and connect_and_run() returns.
SessionClose ==
    /\ sup = "live"
    /\ queue # <<>>
    /\ Head(queue) = Close
    /\ sup' = "idle"
    /\ state' = "Closed"
    /\ queue' = Tail(queue)
    /\ UNCHANGED <<attempts, initial, generation, sessionGen, clientVars, connVars>>

SessionLost_SameGeneration ==
    /\ sup = "live"
    /\ attempts < MaxAttempts
    /\ sup' = "lost"
    /\ UNCHANGED <<attempts, initial, state, queue, generation, sessionGen, clientVars, connVars>>

\* The session is lost: the generation advances and the loss is reported ...
SessionLost ==
    /\ sup = "live"
    /\ generation < MaxGeneration
    /\ attempts < MaxAttempts
    /\ generation' = generation + 1
    /\ sup' = "lost"
    /\ UNCHANGED <<attempts, initial, state, queue, sessionGen, clientVars, connVars>>

\* ... then the next attempt is counted, whether reconnecting is enabled or not.
AfterLoss ==
    /\ sup = "lost"
    /\ Delay(attempts + 1)
    /\ UNCHANGED <<queue, generation, sessionGen, clientVars>>

\* The back-off sleep ends.
WakeUp ==
    /\ sup = "backoff"
    /\ sup' = "top"
    /\ UNCHANGED <<attempts, initial, state, queue, generation, sessionGen, clientVars, connVars>>

-----------------------------------------------------------------------------
SupervisorStep ==
    \/ TakeConnect \/ TakeClose \/ LoopTop \/ Advance \/ OpenFails \/ Opened
    \/ Restored \/ SessionConnect \/ SessionClose \/ AfterLoss \/ WakeUp

Next ==
    \/ \E k \in Connectors :
          \/ CheckState(k) \/ Announce(k) \/ Obtain(k)
          \/ Admit(k) \/ SendConnect(k) \/ ConnectTimeOut(k)
    \/ TakeSlot \/ RequestClose \/ SendClose \/ CloseReturns \/ SuccessorStep
    \/ SupervisorStep \/ SessionLost

Spec == Init /\ [][Next]_vars

\* The supervisor task runs: its transport and sleep awaits are bounded by
\* timeouts and the token provider is assumed to return.
FairSpec == Spec /\ WF_vars(SupervisorStep) /\ WF_vars(CloseReturns)

-----------------------------------------------------------------------------
\* The supervisor implements the session life cycle the rest builds on.
Life == INSTANCE SessionLife WITH
    phase <- IF sup \in Opening THEN "opening" ELSE sup

ImplementsSessionLife == Life!LifeSpec

\* Authenticated is announced only for a session that is being served, never
\* before its registrations are restored.  It outlives the session only until
\* the loss is counted, and by then the generation has moved on, so nothing
\* stamped after the loss passes for part of the lost session.  A connection
\* that connect() spawned behind close() announces on the same channel: then
\* one of the two serves.
AuthenticatedMeansServing ==
    state = "Authenticated" =>
        \/ sup = "live"
        \/ sup = "lost" /\ generation > sessionGen
        \/ successor = "live"

\* A connect() whose command the supervisor still owes an answer is queued or
\* is the initial response of the running attempt: no path drops it silently.
ConnectHeld ==
    \A k \in Connectors : pc[k] = "sent" =>
        initial = k \/ \E i \in 1..Len(queue) : queue[i] = k

\* With a limit on reconnect attempts the supervisor never starts more than
\* that many in one connect_and_run, lost sessions included.
AttemptsBounded ==
    MaximumAttempts # 0 /\ sup \in Opening => attempts <= MaximumAttempts

\* A connect() looked at the state before Closed was announced, and announces Connecting
\* after it or has found the slot that close() emptied.
Overtaken == \E k \in Connectors : pc[k] \in {"announced", "moved"}

\* Once Close is queued this connection ends up without a session for good,
\* wherever its supervisor was, and the client stays Closed: no later attempt or
\* announcement of the connection undoes it.  Only a connect() that close() overtook does.
CloseWins == closing = "sent" ~> [](sup # "live" /\ (state = "Closed" \/ Overtaken))
=============================================================================
