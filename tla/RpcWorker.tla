------------------------------- MODULE RpcWorker -------------------------------
(***************************************************************************)
(* An RPC worker: the task that worker::start spawns, the inbox it shares  *)
(* with the application's stream, the table of active calls, the requests  *)
(* the application holds, and the drop of the worker.  The task polls its  *)
(* sources one after the other (a biased select), while the reader of the  *)
(* session publishes requests and lifecycle messages, the supervisor       *)
(* changes the generation and the application polls, answers and releases. *)
(* The broker is external: it dispatches a call once, in one session, and  *)
(* may cancel it.                                                          *)
(*                                                                         *)
(* A definition X_Y stated before X is a faulty variant of X: it is what   *)
(* the properties are tried against, and no specification uses it.         *)
(***************************************************************************)
EXTENDS Integers, Sequences, SequencesExt, FiniteSets

CONSTANTS
    Calls,          \* invocations, each with its correlation id
    NoCall,
    Overflow,       \* the backpressure error, as an element of the inbox
    Capacity,       \* of the inbox: max_concurrency
    Buffer,         \* of the two broadcast receivers (1024 in the code)
    Budgeted,       \* the calls whose caller set a timeout
    MaxGeneration   \* bound on lost sessions

ASSUME RpcWorkerAssumption ==
    /\ NoCall \notin Calls /\ Overflow \notin Calls
    /\ Budgeted \subseteq Calls
    /\ Capacity \in Nat \ {0} /\ Buffer \in Nat \ {0}
    /\ MaxGeneration \in Nat

VARIABLES
    phase, generation,  \* of the connection
    watched,     \* value of generation_watch
    \* the worker task
    wpc,         \* which source it polls next, or what it is doing
    seen,        \* the generation its watch receiver has seen
    hand,        \* the call it is handling
    requests,    \* its receiver of RPC_REQUEST
    lagged,      \* that receiver has overflowed since it was polled
    lifecycle,   \* its receiver of RPC_LIFECYCLE
    \* shared with the application
    inbox, closed,      \* WorkerInbox
    active,      \* keys of active_calls
    cancelled,   \* calls whose CancellationToken is cancelled
    shutdown,    \* cancellation_shutdown
    handle,      \* progress of deregister() and drop of the RpcWorker
    registered,  \* its registration is still to be restored
    \* the requests
    loc,         \* where each call's request is
    gen,         \* RpcRequest::generation
    step,        \* progress of respond()
    finished,    \* calls with a terminal response
    acks,        \* calls whose release has spawned an acknowledgment
    \* the broker
    subscribed,  \* external: the session has the worker's registration
    told,        \* external: calls it has cancelled
    acked,       \* external: calls whose cleanup acknowledgment it has
    \* history
    missed,      \* calls whose cancellation came to nothing before their release
    unsent       \* calls whose acknowledgment was given up in their session

connVars == <<phase, generation, watched>>
taskVars == <<wpc, seen, hand, requests, lagged, lifecycle>>
inboxVars == <<inbox, closed>>
handleVars == <<handle, registered, shutdown>>
requestVars == <<loc, gen, step, finished>>
brokerVars == <<subscribed, told, acked>>
history == <<missed, unsent>>
vars == <<connVars, taskVars, inboxVars, active, cancelled, handleVars,
          requestVars, acks, brokerVars, history>>

Generations == 0..MaxGeneration

TypeOK ==
    /\ phase \in {"live", "down"}
    /\ generation \in Generations /\ watched \in Generations /\ seen \in Generations
    /\ wpc \in {"head", "requests", "lifecycle", "push", "reject", "rejecting",
                "signal", "changed", "clearing", "stopping", "stopped"}
    /\ hand \in Calls \cup {NoCall}
    /\ requests \in Seq([call : Calls, gen : Generations]) /\ Len(requests) <= Buffer
    /\ lagged \in BOOLEAN
    /\ lifecycle \in Seq(Calls) /\ Len(lifecycle) <= Buffer
    /\ inbox \in Seq(Calls \cup {Overflow}) /\ Len(inbox) <= Capacity
    /\ closed \in BOOLEAN /\ shutdown \in BOOLEAN
    /\ active \subseteq Calls /\ cancelled \subseteq Calls
    /\ handle \in {"open", "deregistering", "shut", "cancelled", "closed", "done"}
    /\ registered \in BOOLEAN
    /\ loc \in [Calls -> {"new", "sent", "taken", "inbox", "app", "gone"}]
    /\ gen \in [Calls -> Generations]
    /\ step \in [Calls -> {"idle", "more", "end"}]
    /\ finished \subseteq Calls /\ acks \subseteq Calls
    /\ subscribed \in BOOLEAN /\ told \subseteq Calls /\ acked \subseteq Calls
    /\ missed \subseteq Calls /\ unsent \subseteq Calls

\* A worker just registered, in the first session.
Init ==
    /\ phase = "live" /\ generation = 0 /\ watched = 0
    /\ wpc = "head" /\ seen = 0 /\ hand = NoCall
    /\ requests = <<>> /\ lagged = FALSE /\ lifecycle = <<>>
    /\ inbox = <<>> /\ closed = FALSE
    /\ active = {} /\ cancelled = {}
    /\ shutdown = FALSE /\ handle = "open" /\ registered = TRUE
    /\ loc = [c \in Calls |-> "new"]
    /\ gen = [c \in Calls |-> 0]
    /\ step = [c \in Calls |-> "idle"]
    /\ finished = {} /\ acks = {}
    /\ subscribed = TRUE /\ told = {} /\ acked = {}
    /\ missed = {} /\ unsent = {}

-----------------------------------------------------------------------------
(* Requests: what dropping and answering one does. *)

Cleanup_Unacknowledged(S) ==
    /\ loc' = [c \in Calls |-> IF c \in S THEN "gone" ELSE loc[c]]
    /\ active' = active \ S
    /\ UNCHANGED acks

\* finish_cleanup() of the requests S: each leaves active_calls, and its
\* acknowledgment is spawned if its session is still the current one.
Cleanup(S) ==
    /\ loc' = [c \in Calls |-> IF c \in S THEN "gone" ELSE loc[c]]
    /\ active' = active \ S
    /\ acks' = acks \cup {c \in S : gen[c] = generation}

\* send() of a response of c: the command carries the generation of the moment
\* and is written by the session of that number, or fails with it.
Send(c) ==
    \/ finished' = IF step[c] = "end" THEN finished \cup {c} ELSE finished
    \/ UNCHANGED finished

\* respond(): refuses a finished request and one of another session.
Respond(c, end) ==
    /\ loc[c] = "app" /\ step[c] = "idle"
    /\ c \notin finished
    /\ generation = gen[c]
    /\ step' = [step EXCEPT ![c] = IF end THEN "end" ELSE "more"]
    /\ UNCHANGED <<connVars, taskVars, inboxVars, active, cancelled, handleVars, loc, gen, finished, acks, brokerVars, history>>

RespondSend_Releases(c) ==
    /\ loc[c] = "app" /\ step[c] # "idle"
    /\ Send(c)
    /\ step' = [step EXCEPT ![c] = "idle"]
    /\ acks' = IF step[c] = "end" /\ gen[c] = generation THEN acks \cup {c} ELSE acks
    /\ UNCHANGED <<connVars, taskVars, inboxVars, active, cancelled, handleVars, loc, gen, brokerVars, history>>

RespondSend(c) ==
    /\ loc[c] = "app" /\ step[c] # "idle"
    /\ Send(c)
    /\ step' = [step EXCEPT ![c] = "idle"]
    /\ UNCHANGED <<connVars, taskVars, inboxVars, active, cancelled, handleVars, loc, gen, acks, brokerVars, history>>

\* The application drops a request, finish() included.
Release(c) ==
    /\ loc[c] = "app" /\ step[c] = "idle"
    /\ Cleanup({c})
    /\ UNCHANGED <<connVars, taskVars, inboxVars, cancelled, handleVars,
                   gen, step, finished, brokerVars, history>>

\* The budget of a decoded request runs out.
BudgetExpires(c) ==
    /\ c \in Budgeted \ cancelled
    /\ loc[c] \in {"taken", "inbox", "app"}
    /\ cancelled' = cancelled \cup {c}
    /\ UNCHANGED <<connVars, taskVars, inboxVars, active, handleVars,
                   requestVars, acks, brokerVars, history>>

\* The spawned acknowledgment is queued and written in the session of the moment, or
\* fails with its session; or a full command queue refuses it, and the error is ignored
\* (so it is when the drop found no runtime to spawn it on).
SendAck(c) ==
    /\ c \in acks
    /\ acks' = acks \ {c}
    /\ \/ phase = "live" /\ acked' = acked \cup {c} /\ UNCHANGED unsent
       \/ generation # gen[c] /\ UNCHANGED <<acked, unsent>>
       \/ unsent' = unsent \cup {c} /\ UNCHANGED acked
    /\ UNCHANGED <<connVars, taskVars, inboxVars, active, cancelled, handleVars, requestVars,
                   subscribed, told, missed>>

-----------------------------------------------------------------------------
(* The application's stream and the end of the worker. *)

\* poll_next() pops the inbox.
AppPoll ==
    /\ handle = "open"
    /\ inbox # <<>>
    /\ inbox' = Tail(inbox)
    /\ loc' = IF Head(inbox) = Overflow THEN loc ELSE [loc EXCEPT ![Head(inbox)] = "app"]
    /\ UNCHANGED <<connVars, taskVars, closed, active, cancelled, handleVars,
                   gen, step, finished, acks, brokerVars, history>>

\* deregister() withdraws the registration; the request may fail.
Deregister ==
    /\ handle = "open"
    /\ handle' = "deregistering"
    /\ registered' = FALSE
    /\ \/ phase = "live" /\ subscribed' = FALSE
       \/ UNCHANGED subscribed
    /\ UNCHANGED <<connVars, taskVars, inboxVars, active, cancelled, shutdown,
                   requestVars, acks, told, acked, history>>

\* Drop of the RpcWorker, in its four steps.
DropShutdown ==
    /\ handle \in {"open", "deregistering"}
    /\ handle' = "shut"
    /\ shutdown' = TRUE
    /\ UNCHANGED <<registered, connVars, taskVars, inboxVars, active, cancelled, requestVars,
                   acks, brokerVars, history>>

DropCancel ==
    /\ handle = "shut"
    /\ handle' = "cancelled"
    /\ cancelled' = cancelled \cup active
    /\ UNCHANGED <<connVars, taskVars, inboxVars, active, registered, shutdown, requestVars,
                   acks, brokerVars, history>>

DropClose ==
    /\ handle = "cancelled"
    /\ handle' = "closed"
    /\ closed' = TRUE
    /\ UNCHANGED <<connVars, taskVars, inbox, active, cancelled, registered, shutdown,
                   requestVars, acks, brokerVars, history>>

\* The calls among the elements of the inbox.
Queued == ToSet(inbox) \ {Overflow}

DropClear ==
    /\ handle = "closed"
    /\ handle' = "done"
    /\ registered' = FALSE
    /\ inbox' = <<>>
    /\ Cleanup(Queued)
    /\ UNCHANGED <<connVars, taskVars, closed, cancelled, shutdown, gen, step,
                   finished, brokerVars, history>>

-----------------------------------------------------------------------------
(* The worker task. *)

WorkerHead_Deaf ==
    /\ wpc = "head"
    /\ wpc' = IF shutdown THEN "stopping" ELSE "requests"
    /\ UNCHANGED <<connVars, seen, hand, requests, lagged, lifecycle, inboxVars,
                   active, cancelled, handleVars, requestVars, acks,
                   brokerVars, history>>

\* The select polls shutdown and the generation first.
WorkerHead ==
    /\ wpc = "head"
    /\ wpc' = IF shutdown THEN "stopping"
              ELSE IF watched # seen THEN "changed" ELSE "requests"
    /\ seen' = IF wpc' = "changed" THEN watched ELSE seen
    /\ UNCHANGED <<connVars, hand, requests, lagged, lifecycle, inboxVars, active,
                   cancelled, handleVars, requestVars, acks, brokerVars,
                   history>>

CancelActive_Cleared ==
    /\ wpc = "changed"
    /\ wpc' = "clearing"
    /\ active' = {}
    /\ UNCHANGED <<connVars, seen, hand, requests, lagged, lifecycle, inboxVars,
                   cancelled, handleVars, requestVars, acks, brokerVars,
                   history>>

\* A new generation: every active call is cancelled and forgotten, ...
CancelActive ==
    /\ wpc = "changed"
    /\ wpc' = "clearing"
    /\ cancelled' = cancelled \cup active
    /\ active' = {}
    /\ UNCHANGED <<connVars, seen, hand, requests, lagged, lifecycle, inboxVars,
                   handleVars, requestVars, acks, brokerVars, history>>

\* ... then the inbox is emptied.
ClearInbox ==
    /\ wpc = "clearing"
    /\ wpc' = "head"
    /\ inbox' = <<>>
    /\ Cleanup(Queued)
    /\ UNCHANGED <<connVars, seen, hand, requests, lagged, lifecycle, closed,
                   cancelled, handleVars, gen, step, finished, brokerVars,
                   history>>

HasRoom == ~closed /\ Len(inbox) < Capacity

\* requests.recv(): nothing yet; an overflow, put into the inbox as an error if
\* there is room; a request of another session; or a request, which decode_request
\* makes active.
PollRequests ==
    /\ wpc = "requests"
    /\ \/ /\ ~lagged /\ requests = <<>>
          /\ wpc' = "lifecycle"
          /\ UNCHANGED <<hand, requests, lagged, inbox, active, loc>>
       \/ /\ lagged
          /\ lagged' = FALSE
          /\ inbox' = IF HasRoom THEN Append(inbox, Overflow) ELSE inbox
          /\ wpc' = "head"
          /\ UNCHANGED <<hand, requests, active, loc>>
       \/ /\ ~lagged /\ requests # <<>>
          /\ requests' = Tail(requests)
          /\ LET r == Head(requests) IN
             IF r.gen = generation
             THEN /\ wpc' = "push" /\ hand' = r.call
                  /\ active' = active \cup {r.call}
                  /\ loc' = [loc EXCEPT ![r.call] = "taken"]
             ELSE /\ wpc' = "head"
                  /\ UNCHANGED <<hand, active, loc>>
          /\ UNCHANGED <<lagged, inbox>>
    /\ UNCHANGED <<connVars, seen, lifecycle, closed, cancelled, handleVars,
                   gen, step, finished, acks, brokerVars, history>>

Push_AfterClose ==
    /\ wpc = "push"
    /\ IF Len(inbox) < Capacity
       THEN /\ inbox' = Append(inbox, hand)
            /\ loc' = [loc EXCEPT ![hand] = "inbox"]
            /\ wpc' = "head" /\ hand' = NoCall
       ELSE wpc' = "reject" /\ UNCHANGED <<inbox, loc, hand>>
    /\ UNCHANGED <<connVars, seen, requests, lagged, lifecycle, closed, active,
                   cancelled, handleVars, gen, step, finished, acks,
                   brokerVars, history>>

\* push() of a decoded request, under the lock of the inbox.
Push ==
    /\ wpc = "push"
    /\ IF HasRoom
       THEN /\ inbox' = Append(inbox, hand)
            /\ loc' = [loc EXCEPT ![hand] = "inbox"]
            /\ wpc' = "head" /\ hand' = NoCall
       ELSE wpc' = "reject" /\ UNCHANGED <<inbox, loc, hand>>
    /\ UNCHANGED <<connVars, seen, requests, lagged, lifecycle, closed, active,
                   cancelled, handleVars, gen, step, finished, acks,
                   brokerVars, history>>

\* A refused request is answered "overloaded" with respond() and dropped.
Reject ==
    /\ wpc = "reject"
    /\ IF generation = gen[hand]
       THEN /\ wpc' = "rejecting"
            /\ step' = [step EXCEPT ![hand] = "end"]
            /\ UNCHANGED <<hand, loc, active, acks>>
       ELSE /\ wpc' = "head" /\ hand' = NoCall
            /\ Cleanup({hand})
            /\ UNCHANGED step
    /\ UNCHANGED <<connVars, seen, requests, lagged, lifecycle, inboxVars, cancelled,
                   handleVars, gen, finished, brokerVars, history>>

RejectSend ==
    /\ wpc = "rejecting"
    /\ Send(hand)
    /\ step' = [step EXCEPT ![hand] = "idle"]
    /\ Cleanup({hand})
    /\ wpc' = "head" /\ hand' = NoCall
    /\ UNCHANGED <<connVars, seen, requests, lagged, lifecycle, inboxVars, cancelled,
                   handleVars, gen, brokerVars, history>>

\* WorkerInbox::remove(): the request of c is taken out at its position and
\* dropped.
TakeOut(c) ==
    /\ \E i \in DOMAIN inbox : inbox[i] = c /\ inbox' = RemoveAt(inbox, i)
    /\ Cleanup({c})

PollLifecycle_InboxOnly ==
    /\ wpc = "lifecycle"
    /\ wpc' = "head"
    /\ \/ /\ lifecycle = <<>>
          /\ UNCHANGED <<lifecycle, inbox, loc, active, acks>>
       \/ /\ lifecycle # <<>>
          /\ lifecycle' = Tail(lifecycle)
          /\ \/ TakeOut(Head(lifecycle))
             \/ Head(lifecycle) \notin Queued /\ UNCHANGED <<inbox, loc, active, acks>>
    /\ UNCHANGED <<connVars, seen, hand, requests, lagged, closed, cancelled,
                   handleVars, gen, step, finished, brokerVars, history>>

\* lifecycle.recv(): a cancelled call is taken out of the inbox and dropped; if
\* it is not there, it is looked up among the active calls next.
PollLifecycle ==
    /\ wpc = "lifecycle"
    /\ \/ /\ lifecycle = <<>>
          /\ wpc' = "head"
          /\ UNCHANGED <<hand, lifecycle, inbox, loc, active, acks>>
       \/ /\ lifecycle # <<>>
          /\ lifecycle' = Tail(lifecycle)
          /\ \/ /\ TakeOut(Head(lifecycle))
                /\ wpc' = "head" /\ UNCHANGED hand
             \/ /\ Head(lifecycle) \notin Queued
                /\ wpc' = "signal" /\ hand' = Head(lifecycle)
                /\ UNCHANGED <<inbox, loc, active, acks>>
    /\ UNCHANGED <<connVars, seen, requests, lagged, closed, cancelled, handleVars, gen, step, finished, brokerVars, history>>

\* cancel_worker_call(): a call that is not active is ignored.
Signal ==
    /\ wpc = "signal"
    /\ wpc' = "head" /\ hand' = NoCall
    /\ cancelled' = cancelled \cup ({hand} \cap active)
    /\ missed' = IF hand \in active \/ loc[hand] = "gone" THEN missed ELSE missed \cup {hand}
    /\ UNCHANGED <<connVars, seen, requests, lagged, lifecycle, inboxVars, active,
                   handleVars, requestVars, acks, brokerVars, unsent>>

\* The task ends and closes the inbox.
Stop ==
    /\ wpc = "stopping"
    /\ wpc' = "stopped"
    /\ closed' = TRUE
    /\ UNCHANGED <<connVars, seen, hand, requests, lagged, lifecycle, inbox, active,
                   cancelled, handleVars, requestVars, acks, brokerVars,
                   history>>

-----------------------------------------------------------------------------
(* The session. *)

\* publish() into a broadcast receiver: a full one loses its oldest element.
Published(buf, x) == Append(IF Len(buf) < Buffer THEN buf ELSE Tail(buf), x)

\* The broker dispatches a call to the worker.
Dispatch(c) ==
    /\ phase = "live" /\ subscribed
    /\ loc[c] = "new"
    /\ loc' = [loc EXCEPT ![c] = "sent"]
    /\ gen' = [gen EXCEPT ![c] = generation]
    /\ requests' = Published(requests, [call |-> c, gen |-> generation])
    /\ lagged' = (lagged \/ Len(requests) = Buffer)
    /\ UNCHANGED <<connVars, wpc, seen, hand, lifecycle, inboxVars, active, cancelled,
                   handleVars, step, finished, acks, brokerVars, history>>

\* The broker cancels a call it has dispatched in this session and that has not
\* been acknowledged, once.
CancelCall(c) ==
    /\ phase = "live"
    /\ loc[c] # "new" /\ gen[c] = generation
    /\ c \notin acked \cup told
    /\ told' = told \cup {c}
    /\ lifecycle' = Published(lifecycle, c)
    /\ missed' = IF Len(lifecycle) < Buffer THEN missed ELSE missed \cup {Head(lifecycle)}
    /\ UNCHANGED <<connVars, wpc, seen, hand, requests, lagged, inboxVars, active,
                   cancelled, handleVars, requestVars, acks, subscribed, acked, unsent>>

Lose ==
    /\ phase = "live"
    /\ generation < MaxGeneration
    /\ phase' = "down"
    /\ generation' = generation + 1
    /\ subscribed' = FALSE
    /\ UNCHANGED <<watched, taskVars, inboxVars, active, cancelled, handleVars,
                   requestVars, acks, told, acked, history>>

AnnounceGeneration ==
    /\ watched # generation
    /\ watched' = generation
    /\ UNCHANGED <<phase, generation, taskVars, inboxVars, active, cancelled, handleVars, requestVars, acks, brokerVars, history>>

\* The registration is restored if the worker has not been given up, and the
\* broker accepts.
Reconnect ==
    /\ phase = "down" /\ watched = generation
    /\ phase' = "live"
    /\ \/ registered /\ subscribed' = TRUE
       \/ UNCHANGED subscribed
    /\ UNCHANGED <<generation, watched, taskVars, inboxVars, active, cancelled,
                   handleVars, requestVars, acks, told, acked, history>>

-----------------------------------------------------------------------------
Worker == \/ WorkerHead \/ CancelActive \/ ClearInbox \/ PollRequests \/ Push
          \/ Reject \/ RejectSend \/ PollLifecycle \/ Signal \/ Stop

Drop == DropShutdown \/ DropCancel \/ DropClose \/ DropClear

Next ==
    \/ Worker
    \/ Drop
    \/ AppPoll \/ Deregister
    \/ Lose \/ AnnounceGeneration \/ Reconnect
    \/ \E c \in Calls :
          \/ \E end \in BOOLEAN : Respond(c, end)
          \/ RespondSend(c) \/ Release(c) \/ BudgetExpires(c) \/ SendAck(c)
          \/ Dispatch(c) \/ CancelCall(c)

Spec == Init /\ [][Next]_vars

\* The runtime runs the worker task, the spawned acknowledgments and a drop
\* that has begun; the supervisor announces the generation and reconnects.  The
\* application owes nothing.
FairSpec ==
    /\ Spec
    /\ WF_vars(Worker)
    /\ WF_vars(DropCancel) /\ WF_vars(DropClose) /\ WF_vars(DropClear)
    /\ WF_vars(AnnounceGeneration) /\ WF_vars(Reconnect)
    /\ \A c \in Calls : WF_vars(SendAck(c))

-----------------------------------------------------------------------------
(* Properties. *)

Held(c) == loc[c] = "app" /\ c \notin cancelled

\* Once the task has handled a new generation, the application holds no request
\* of an earlier one whose token is not cancelled, although requests are decoded,
\* pushed and popped while the generation changes.
LostContextsCancelled ==
    seen = generation /\ wpc \notin {"changed"} =>
        \A c \in Calls : Held(c) => gen[c] = generation

\* A dropped worker leaves nothing behind: the inbox is empty for good, and the
\* requests the application still holds are cancelled, although the task may be
\* decoding and pushing during the drop.
DropLeavesNothing ==
    handle = "done" => inbox = <<>> /\ \A c \in Calls : ~Held(c)

\* Cleanup is acknowledged only for requests that nobody holds any more; a
\* terminal response is not a release.
AckMeansReleased == \A c \in acked : loc[c] = "gone"

\* A disconnect reaches every request the application holds.
DisconnectCancels ==
    \A c \in Calls : (loc[c] = "app" /\ gen[c] # generation) ~> ~Held(c)

\* A cancellation reaches the request in the inbox or in the application's hands,
\* even while it passes from one to the other, unless it overtook the request or
\* was lost to an overflow.
CancellationArrives ==
    \A c \in Calls : (c \in told /\ loc[c] = "app") ~> (~Held(c) \/ c \in missed)

\* The broker has the acknowledgment of c, or c's session is lost.
Acknowledged(c) == c \in acked \/ gen[c] # generation

\* A released request is acknowledged, however it was released, unless its session is lost
\* first or the command queue refuses the acknowledgment.
ReleaseAcknowledged ==
    \A c \in Calls :
        (loc[c] = "gone" /\ gen[c] = generation) ~> (Acknowledged(c) \/ c \in unsent)

\* What README.md says of buffered requests: when the broker has cancelled a
\* call, its request is not delivered as if nothing had happened.
CancelledNotDelivered == \A c \in missed : ~Held(c)
================================================================================
