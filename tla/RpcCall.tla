-------------------------------- MODULE RpcCall --------------------------------
(***************************************************************************)
(* One RPC call seen from its caller: call_with_timeout, the link of       *)
(* call_from_request to an inbound request, the RpcResponseStream and its  *)
(* cancellation.  Five parties may decide to cancel: the stream when it is *)
(* polled, cancel(), the drop of the stream, and the two tasks that watch  *)
(* the deadline and the inbound request; a flag they share lets one of     *)
(* them send.  The broker is external; other calls of the client fill the  *)
(* same broadcast channels.                                                *)
(*                                                                         *)
(* A definition X_Y stated before X is a faulty variant of X: it is what   *)
(* the properties are tried against, and no specification uses it.         *)
(***************************************************************************)
EXTENDS Integers, Sequences

CONSTANTS
    Buffer,         \* capacity of the two broadcast receivers (64 in the code)
    MaxFrames,      \* bound on the non-terminal responses of the call
    MaxGeneration   \* bound on lost sessions

ASSUME RpcCallAssumption ==
    /\ Buffer \in Nat \ {0}
    /\ MaxFrames \in Nat /\ MaxGeneration \in Nat

VARIABLES
    phase, generation,  \* of the connection
    watched,    \* value of generation_watch
    \* the stream
    stream,     \* "new", "opened" (receivers), "sending", "open", "finished", "dropped",
                \* or "unmade" when call() ends without one
    seen,       \* generation its watch receiver started from
    resp,       \* receiver of RPC_RESPONSE
    lagged,     \* that receiver has overflowed
    life,       \* lifecycle_receiver
    timeout,    \* the stream still has its timer
    linked,     \* parent_cancellation is still there
    sent,       \* cancellation_sent
    shutdown,   \* cancellation_shutdown
    outcome,    \* cancellation_outcome
    cancelling, \* a cancel() awaits the broker's result
    \* around it
    timed,      \* the call has a timeout
    expired,    \* its deadline has passed
    parent,     \* the inbound request of call_from_request: "none", "running", "cancelled"
    dwatch, pwatch,  \* the tasks that watch the deadline and the parent are there
    outbox,     \* RPC_CANCEL commands on their way to the session
    refused,    \* the command queue was full for one
    \* the broker
    callGen,    \* generation its RPC_REQUEST is stamped with
    call,       \* "none", "queued" (the command), and external: "running", "ended"
    cancels,    \* external: RPC_CANCEL messages received for it
    frames      \* external: non-terminal responses sent

connVars == <<phase, generation, watched>>
channelVars == <<resp, lagged, life>>
streamVars == <<stream, seen, timeout, linked, shutdown, outcome, cancelling>>
claimVars == <<sent, outbox, refused>>
timeVars == <<timed, expired, parent>>
watchVars == <<dwatch, pwatch>>
brokerVars == <<callGen, call, cancels, frames>>
vars == <<connVars, channelVars, streamVars, claimVars, timeVars, watchVars, brokerVars>>

TypeOK ==
    /\ phase \in {"live", "down"}
    /\ generation \in 0..MaxGeneration /\ watched \in 0..MaxGeneration
    /\ stream \in {"new", "opened", "sending", "open", "finished", "dropped", "unmade"}
    /\ seen \in 0..MaxGeneration
    /\ resp \in Seq({"more", "end", "other"}) /\ Len(resp) <= Buffer
    /\ life \in Seq({"result", "other"}) /\ Len(life) <= Buffer
    /\ outcome \in {"none", "closed", "notSent", "result", "unconfirmed"}
    /\ {lagged, timeout, linked, sent, shutdown, cancelling} \subseteq BOOLEAN
    /\ {timed, expired, dwatch, pwatch, refused} \subseteq BOOLEAN
    /\ parent \in {"none", "running", "cancelled"}
    /\ outbox \in 0..2
    /\ callGen \in -1..MaxGeneration
    /\ call \in {"none", "queued", "running", "ended"}
    /\ cancels \in 0..2
    /\ frames \in 0..MaxFrames

Init ==
    /\ phase = "live" /\ generation = 0 /\ watched = 0
    /\ stream = "new" /\ seen = 0
    /\ resp = <<>> /\ lagged = FALSE /\ life = <<>>
    /\ timeout = FALSE /\ linked = FALSE
    /\ sent = FALSE /\ shutdown = FALSE
    /\ outcome = "none" /\ cancelling = FALSE
    /\ timed \in BOOLEAN /\ expired = FALSE
    /\ parent \in {"none", "running"}
    /\ dwatch = FALSE /\ pwatch = FALSE
    /\ outbox = 0 /\ refused = FALSE
    /\ callGen = -1 /\ call = "none" /\ cancels = 0 /\ frames = 0

-----------------------------------------------------------------------------
(* The call. *)

\* An already cancelled parent refuses; otherwise the receivers are opened and
\* the generation is watched.
Open ==
    /\ stream = "new"
    /\ parent # "cancelled"
    /\ stream' = "opened"
    /\ seen' = watched
    /\ UNCHANGED <<connVars, channelVars, timeout, linked, shutdown, outcome,
                   cancelling, claimVars, timeVars, watchVars, brokerVars>>

\* send() queues RPC_REQUEST, stamped with the generation of the moment, unless the
\* command queue is full.
QueueRequest ==
    /\ stream = "opened"
    /\ \/ /\ stream' = "sending"
          /\ callGen' = generation /\ call' = "queued"
       \/ /\ stream' = "unmade"
          /\ UNCHANGED <<callGen, call>>
    /\ UNCHANGED <<connVars, channelVars, seen, timeout, linked, shutdown, outcome, cancelling,
                   claimVars, timeVars, watchVars, cancels, frames>>

\* The session of its stamp writes the queued request, whether or not anybody still waits
\* for it; any later one answers it with an error.
WriteRequest ==
    /\ call = "queued"
    /\ \/ phase = "live" /\ callGen = generation /\ call' = "running"
       \/ callGen # generation /\ call' = "none"
    /\ UNCHANGED <<connVars, channelVars, streamVars, claimVars, timeVars, watchVars, callGen,
                   cancels, frames>>

\* send() returns and the stream is made, with the tasks that watch the deadline and
\* the parent.
SendReturns ==
    /\ stream = "sending"
    /\ call \in {"running", "ended"}
    /\ stream' = "open"
    /\ timeout' = timed /\ dwatch' = timed
    /\ linked' = (parent # "none") /\ pwatch' = (parent # "none")
    /\ UNCHANGED <<connVars, channelVars, seen, shutdown, outcome, cancelling, claimVars,
                   timeVars, brokerVars>>

\* send() fails, times out, or its future is dropped with call(): there is no stream and
\* no task, and a command that is still queued stays in the queue.
SendGivenUp ==
    /\ stream = "sending"
    /\ stream' = "unmade"
    /\ resp' = <<>> /\ life' = <<>> /\ lagged' = FALSE
    /\ UNCHANGED <<connVars, seen, timeout, linked, shutdown, outcome, cancelling, claimVars,
                   timeVars, watchVars, brokerVars>>

-----------------------------------------------------------------------------
(* Cancelling. *)

Claim_Unchecked ==
    /\ outbox < 2
    /\ sent' = TRUE
    /\ outbox' = outbox + 1
    /\ UNCHANGED refused

\* send_cancellation_once(): the first to swap the flag queues RPC_CANCEL, and
\* nobody tries again when the queue is full.
Claim ==
    /\ sent' = TRUE
    /\ IF sent THEN UNCHANGED <<outbox, refused>>
       ELSE \/ outbox' = outbox + 1 /\ UNCHANGED refused
            \/ refused' = TRUE /\ UNCHANGED outbox

\* The session writes a queued RPC_CANCEL, or it fails with its session.
WriteCancel ==
    /\ outbox > 0
    /\ outbox' = outbox - 1
    /\ \/ /\ phase = "live"
          /\ cancels' = IF callGen = generation THEN cancels + 1 ELSE cancels
       \/ callGen # generation /\ UNCHANGED cancels
    /\ UNCHANGED <<connVars, channelVars, streamVars, sent, refused, timeVars,
                   watchVars, callGen, call, frames>>

\* The task that watches the deadline, and the one that watches the parent.
DeadlineWatch ==
    /\ dwatch /\ dwatch' = FALSE
    /\ \/ expired /\ Claim
       \/ shutdown /\ UNCHANGED claimVars
    /\ UNCHANGED <<connVars, channelVars, streamVars, timeVars, pwatch, brokerVars>>

ParentWatch ==
    /\ pwatch /\ pwatch' = FALSE
    /\ \/ parent = "cancelled" /\ Claim
       \/ shutdown /\ UNCHANGED claimVars
    /\ UNCHANGED <<connVars, channelVars, streamVars, timeVars, dwatch, brokerVars>>

DeadlinePasses ==
    /\ timed /\ stream # "new" /\ ~expired
    /\ expired' = TRUE
    /\ UNCHANGED <<connVars, channelVars, streamVars, claimVars, timed, parent, watchVars,
                   brokerVars>>

CancelParent ==
    /\ parent = "running"
    /\ parent' = "cancelled"
    /\ UNCHANGED <<connVars, channelVars, streamVars, claimVars, timed, expired, watchVars,
                   brokerVars>>

-----------------------------------------------------------------------------
(* The stream. *)

\* What every end of the stream does.
Ended(o) ==
    /\ stream' = "finished"
    /\ shutdown' = TRUE
    /\ outcome' = o

Changed == watched # seen

Poll_ReceiverFirst ==
    /\ stream = "open" /\ ~cancelling
    /\ \/ /\ ~lagged /\ resp # <<>>
          /\ resp' = Tail(resp)
          /\ IF Head(resp) = "end"
             THEN Ended(outcome) /\ timeout' = FALSE /\ linked' = FALSE
             ELSE UNCHANGED <<stream, shutdown, outcome, timeout, linked>>
          /\ UNCHANGED claimVars
       \/ /\ lagged \/ resp = <<>>
          /\ Changed \/ (linked /\ parent = "cancelled") \/ (timeout /\ expired) \/ lagged
          /\ Ended(IF Changed THEN "closed" ELSE outcome)
          /\ IF Changed THEN UNCHANGED claimVars ELSE Claim
          /\ timeout' = FALSE /\ linked' = FALSE
          /\ UNCHANGED resp
    /\ UNCHANGED <<connVars, lagged, life, seen, cancelling, timeVars, watchVars,
                   brokerVars>>

\* poll_next(): the connection, the parent and the timer come before the
\* responses; the parent, the timer and an overflow abandon the call.
Poll ==
    /\ stream = "open" /\ ~cancelling
    /\ LET abandoned == (linked /\ parent = "cancelled") \/ (timeout /\ expired) IN
       \/ /\ Changed
          /\ Ended("closed")
          /\ UNCHANGED <<timeout, linked, claimVars, resp>>
       \/ /\ ~Changed /\ (abandoned \/ lagged)
          /\ Ended(outcome) /\ Claim
          /\ timeout' = FALSE /\ linked' = FALSE
          /\ UNCHANGED resp
       \/ /\ ~Changed /\ ~abandoned /\ ~lagged
          /\ resp # <<>>
          /\ resp' = Tail(resp)
          /\ IF Head(resp) = "end"
             THEN Ended(outcome) /\ timeout' = FALSE /\ linked' = FALSE
             ELSE UNCHANGED <<stream, shutdown, outcome, timeout, linked>>
          /\ UNCHANGED claimVars
    /\ UNCHANGED <<connVars, lagged, life, seen, cancelling, timeVars, watchVars,
                   brokerVars>>

\* cancel(), unless it has an outcome to return or nothing is left to cancel.
Cancel ==
    /\ stream \in {"open", "finished"} /\ ~cancelling
    /\ outcome = "none"
    /\ stream = "open" \/ linked \/ sent
    /\ Claim
    /\ IF refused' /\ ~sent
       THEN Ended("notSent") /\ timeout' = FALSE /\ UNCHANGED cancelling
       ELSE cancelling' = TRUE /\ UNCHANGED <<stream, shutdown, outcome, timeout>>
    /\ UNCHANGED <<connVars, channelVars, seen, linked, timeVars, watchVars, brokerVars>>

\* cancel() takes lifecycle messages until it meets the result of this call, ...
CancelResult ==
    /\ cancelling
    /\ life # <<>>
    /\ life' = Tail(life)
    /\ IF Head(life) = "result"
       THEN Ended("result") /\ timeout' = FALSE /\ cancelling' = FALSE
       ELSE UNCHANGED <<stream, shutdown, outcome, timeout, cancelling>>
    /\ UNCHANGED <<connVars, resp, lagged, seen, linked, claimVars, timeVars,
                   watchVars, brokerVars>>

\* ... the session is lost, RPC_CANCEL is not written within the request timeout,
\* or five seconds are over.
CancelGivesUp ==
    /\ cancelling
    /\ \/ Changed /\ Ended("closed")
       \/ outbox > 0 /\ Ended("notSent")
       \/ Ended("unconfirmed")
    /\ timeout' = FALSE /\ cancelling' = FALSE
    /\ UNCHANGED <<connVars, channelVars, seen, linked, claimVars, timeVars,
                   watchVars, brokerVars>>

\* The caller drops the future of cancel().
CancelDropped ==
    /\ cancelling
    /\ cancelling' = FALSE
    /\ UNCHANGED <<connVars, channelVars, stream, seen, timeout, linked, shutdown,
                   outcome, claimVars, timeVars, watchVars, brokerVars>>

DropStream_Silent ==
    /\ stream \in {"open", "finished"} /\ ~cancelling
    /\ stream' = "dropped"
    /\ shutdown' = TRUE
    /\ resp' = <<>> /\ life' = <<>> /\ lagged' = FALSE
    /\ UNCHANGED <<connVars, seen, timeout, linked, outcome, cancelling, timeVars,
                   watchVars, brokerVars, claimVars>>

\* Drop of the stream: an unfinished call is cancelled.
DropStream ==
    /\ stream \in {"open", "finished"} /\ ~cancelling
    /\ stream' = "dropped"
    /\ shutdown' = TRUE
    /\ IF stream = "open" THEN Claim ELSE UNCHANGED claimVars
    /\ resp' = <<>> /\ life' = <<>> /\ lagged' = FALSE
    /\ UNCHANGED <<connVars, seen, timeout, linked, outcome, cancelling, timeVars,
                   watchVars, brokerVars>>

-----------------------------------------------------------------------------
(* The session and the broker. *)

Listening == stream \in {"opened", "sending", "open", "finished"}

\* publish() into a broadcast receiver: a full one loses its oldest element.
Published(buf, x) ==
    IF ~Listening THEN buf ELSE Append(IF Len(buf) < Buffer THEN buf ELSE Tail(buf), x)

Response(x) ==
    /\ phase = "live"
    /\ resp' = Published(resp, x)
    /\ lagged' = (lagged \/ (Listening /\ Len(resp) = Buffer))
    /\ UNCHANGED <<connVars, life, streamVars, claimVars, timeVars, watchVars>>

BrokerResponds ==
    /\ call = "running" /\ callGen = generation
    /\ \/ /\ frames < MaxFrames
          /\ frames' = frames + 1
          /\ Response("more") /\ UNCHANGED call
       \/ Response("end") /\ call' = "ended" /\ UNCHANGED frames
    /\ UNCHANGED <<callGen, cancels>>

\* A response to another call of this client.
OtherResponds ==
    /\ Listening
    /\ Response("other")
    /\ UNCHANGED brokerVars

\* The result of a cancellation; the worker stops or runs on.
BrokerConfirms ==
    /\ phase = "live" /\ cancels > 0
    /\ \E x \in {"result", "other"} : life' = Published(life, x)
    /\ call' \in {call, "ended"}
    /\ UNCHANGED <<connVars, resp, lagged, streamVars, claimVars, timeVars, watchVars,
                   callGen, cancels, frames>>

Lose ==
    /\ phase = "live"
    /\ generation < MaxGeneration
    /\ phase' = "down"
    /\ generation' = generation + 1
    /\ UNCHANGED <<watched, channelVars, streamVars, claimVars, timeVars, watchVars,
                   brokerVars>>

AnnounceGeneration ==
    /\ watched # generation
    /\ watched' = generation
    /\ UNCHANGED <<phase, generation, channelVars, streamVars, claimVars, timeVars,
                   watchVars, brokerVars>>

Reconnect ==
    /\ phase = "down" /\ watched = generation
    /\ phase' = "live"
    /\ UNCHANGED <<generation, watched, channelVars, streamVars, claimVars, timeVars,
                   watchVars, brokerVars>>

-----------------------------------------------------------------------------
Next ==
    \/ Open \/ QueueRequest \/ WriteRequest \/ SendReturns \/ SendGivenUp
    \/ Poll \/ DropStream
    \/ Cancel \/ CancelResult \/ CancelGivesUp \/ CancelDropped
    \/ WriteCancel \/ DeadlineWatch \/ ParentWatch \/ DeadlinePasses \/ CancelParent
    \/ BrokerResponds \/ OtherResponds \/ BrokerConfirms
    \/ Lose \/ AnnounceGeneration \/ Reconnect

Spec == Init /\ [][Next]_vars

\* The runtime runs the spawned tasks, the session and the supervisor, and time
\* passes.  The application need not poll, cancel or drop.
TasksRun ==
    /\ WF_vars(WriteRequest) /\ WF_vars(WriteCancel)
    /\ WF_vars(DeadlineWatch) /\ WF_vars(ParentWatch)
    /\ WF_vars(DeadlinePasses)
    /\ WF_vars(AnnounceGeneration) /\ WF_vars(Reconnect)

FairSpec == Spec /\ TasksRun

-----------------------------------------------------------------------------
(* Properties. *)

\* Whoever notices first, the broker gets at most one cancellation of a call:
\* the stream, cancel(), the drop and the two watching tasks race for one flag.
CancelledOnce == cancels + outbox <= 1

\* The call runs at the broker, in the session the client is in.
Runs == call = "running" /\ callGen = generation

\* Nothing is left to cancel, or best effort has ended: with a full command queue, with
\* the session, or with a stream that took a reconnect for the loss of its session.
Settled == cancels > 0 \/ ~Runs \/ refused \/ outcome = "closed"

Unwanted == \/ stream = "dropped"
            \/ stream = "finished" /\ outcome # "closed"
            \/ expired
            \/ parent = "cancelled"

\* A running call whose stream was made and that nobody waits for any more, because the
\* stream was dropped or ended, its deadline passed or its parent was cancelled, is
\* cancelled at the broker whether or not the application polls.
UnwantedCallCancelled ==
    (Runs /\ stream \in {"open", "finished", "dropped"} /\ Unwanted) ~> Settled

\* An application that keeps polling its stream between its calls of cancel(),
\* and whose five seconds pass.
KeepsPolling == SF_vars(Poll) /\ WF_vars(CancelGivesUp)

\* A polled stream ends when its deadline passes or its session is lost, however
\* many responses of other calls keep its receiver busy.
StreamEnds ==
    KeepsPolling =>
        ((stream = "open" /\ (timed \/ callGen # generation)) ~> stream # "open")
================================================================================
