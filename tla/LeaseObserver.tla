------------------------------ MODULE LeaseObserver ------------------------------
(***************************************************************************)
(* LeaseClient::observe() and the task it spawns: observe_loop, bootstrap, *)
(* steady_state, reconcile_after_invalidation and the replacement of the   *)
(* subscription, over the sessions of one AsyncConnection.  The inventory  *)
(* of leases that match the pattern is its version number: every change of *)
(* it at the broker is the next version, and a LIST returns the version of *)
(* its snapshot.  The broker is external: it answers when it likes, keeps  *)
(* the snapshots of paged LISTs across sessions, and notifies a change to  *)
(* the session in which the pattern is subscribed.                         *)
(*                                                                         *)
(* A definition X_Y stated before X is a faulty variant of X: it is what   *)
(* the properties are tried against, and no specification uses it.         *)
(***************************************************************************)
EXTENDS Integers, Sequences, FiniteSets

CONSTANTS
    Capacity,       \* of the broadcast receiver (64 in the code)
    MaxChanges,     \* bound on changes of the inventory
    MaxOthers,      \* bound on LEASE_NOTIFY frames of other registrations in transit
    MaxGeneration,  \* bound on lost sessions plus close()
    MaxFailures     \* bound on failed LIST and SUBSCRIBE requests

ASSUME ObserverAssumption ==
    /\ Capacity \in Nat \ {0}
    /\ {MaxChanges, MaxOthers, MaxGeneration, MaxFailures} \subseteq Nat

VARIABLES
    \* the connection
    phase,       \* "live" while a session is served, else "down"
    closed,      \* AsyncConnection::close_requested
    generation,  \* AsyncConnection::generation
    watched,     \* generation_watch, written after the generation
    publishing,  \* frame that notification_epoch counts but that is not yet published
    registered,  \* the subscription is in the registry of restorable ones
    \* the broker, and the frames it has sent in this session
    truth,       \* external: version of the inventory
    subGen,      \* external: the session in which the current id is subscribed
    wire,        \* external: frames in transit
    \* the observer
    pc,          \* where observe_loop is
    mode,        \* why it lists: "boot", "notified" or "timer"
    baseline,    \* baseline_generation
    seen,        \* value of generation_watch its receiver has seen
    overtaken,   \* notification_epoch of LEASE_NOTIFY is not what it was when the pass began
    asked,       \* progress of the LIST
    fresh,       \* version the LIST returns
    buf, lagged, \* its broadcast receiver
    idGen,       \* session that assigned its wire id
    subAsk,      \* generation its pending SUBSCRIBE is stamped with
    view, ready, \* what LeaseObserver::snapshot() and is_ready() show
    shutdown,    \* the shutdown token
    failures,    \* failed requests so far
    \* history
    told,        \* newest version announced by a notification that was read
    drained,     \* the running reconciliation of the timer has taken a notification
    swallowed    \* an earlier one failed after it did, and went unnoticed

connVars == <<phase, closed, generation, watched, publishing, registered>>
brokerVars == <<truth, subGen, wire>>
listVars == <<overtaken, asked, fresh>>
subVars == <<buf, lagged, idGen, subAsk>>
viewVars == <<view, ready>>
ctlVars == <<pc, mode, baseline, seen>>
history == <<told, drained, swallowed>>
vars == <<connVars, brokerVars, ctlVars, listVars, subVars, viewVars, shutdown,
          failures, history>>

Versions == -1..MaxChanges     \* -1: nothing yet
Sessions == -1..MaxGeneration
Nothing == [kind |-> "none", version |-> -1, gen |-> -1]
Frames == [kind : {"own", "other", "list", "subscribed", "late", "none"},
           version : Versions, gen : Sessions]
Steps == {"top", "epoch", "listing", "drain", "install", "pause", "check",
          "watch", "recheck", "steady", "unsubscribe", "subscribe",
          "subscribing", "answered", "leaving", "stopped"}

TypeOK ==
    /\ phase \in {"live", "down"}
    /\ {closed, registered, ready, shutdown, overtaken, lagged, drained, swallowed} \subseteq BOOLEAN
    /\ {generation, watched} \subseteq 0..MaxGeneration
    /\ {subGen, idGen, subAsk, baseline, seen} \subseteq Sessions
    /\ publishing \in Frames
    /\ truth \in 0..MaxChanges
    /\ wire \in Seq(Frames)
    /\ buf \in Seq(Frames)
    /\ Len(buf) <= Capacity
    /\ pc \in Steps
    /\ mode \in {"boot", "notified", "timer"}
    /\ asked \in {"no", "first", "rest", "reply"}
    /\ {fresh, view, told} \subseteq Versions
    /\ failures \in 0..MaxFailures

\* observe() has subscribed in the first session and spawned the task.
Init ==
    /\ phase = "live" /\ closed = FALSE
    /\ generation = 0 /\ watched = 0
    /\ publishing = Nothing
    /\ registered = TRUE
    /\ truth = 0 /\ subGen = 0 /\ wire = <<>>
    /\ pc = "top" /\ mode = "boot" /\ baseline = -1 /\ seen = -1
    /\ overtaken = FALSE /\ asked = "no" /\ fresh = -1
    /\ buf = <<>> /\ lagged = FALSE /\ idGen = 0 /\ subAsk = 0
    /\ view = -1 /\ ready = FALSE
    /\ shutdown = FALSE
    /\ failures = 0
    /\ told = -1 /\ drained = FALSE /\ swallowed = FALSE

-----------------------------------------------------------------------------
(* The broker. *)

Frame(kind, version) == [kind |-> kind, version |-> version, gen |-> generation]

\* A lease is acquired, renewed, released or expires.
Change ==
    /\ truth < MaxChanges
    /\ truth' = truth + 1
    /\ wire' = IF phase = "live" /\ subGen = generation
               THEN Append(wire, Frame("own", truth + 1))
               ELSE wire
    /\ UNCHANGED <<connVars, subGen, ctlVars, listVars, subVars, viewVars,
                   shutdown, failures, history>>

\* A LEASE_NOTIFY for another registration of this connection, of which there is no end.
OtherNotice ==
    /\ phase = "live"
    /\ Cardinality({i \in DOMAIN wire : wire[i].kind = "other"}) < MaxOthers
    /\ wire' = Append(wire, Frame("other", -1))
    /\ UNCHANGED <<connVars, truth, subGen, ctlVars, listVars, subVars, viewVars,
                   shutdown, failures, history>>

\* The first page of a LIST takes the snapshot its cursor refers to.
TakeSnapshot ==
    /\ phase = "live"
    /\ asked = "first"
    /\ asked' = "rest"
    /\ fresh' = truth
    /\ UNCHANGED <<connVars, brokerVars, ctlVars, overtaken, subVars, viewVars,
                   shutdown, failures, history>>

\* The last page.
SendLastPage ==
    /\ phase = "live"
    /\ asked = "rest"
    /\ asked' = "reply"
    /\ wire' = Append(wire, Frame("list", fresh))
    /\ UNCHANGED <<connVars, truth, subGen, ctlVars, overtaken, fresh,
                   subVars, viewVars, shutdown, failures, history>>

\* SUBSCRIBE is accepted, under an id the client learns from the answer.
AcceptSubscribe ==
    /\ phase = "live"
    /\ pc = "subscribing"
    /\ subAsk = generation
    /\ subGen # generation
    /\ subGen' = generation
    /\ wire' = Append(wire, Frame("subscribed", -1))
    /\ UNCHANGED <<connVars, truth, ctlVars, listVars, subVars, viewVars,
                   shutdown, failures, history>>

-----------------------------------------------------------------------------
(* The connection. *)

\* A LIST that lost its answer with the session is retried with the same
\* cursor, or from the start when it had one page only.
Retried(step) == IF step = "reply" THEN {"first", "rest"} ELSE {step}

\* The session is lost: the generation moves on and what was in transit is gone.
Lose ==
    /\ phase = "live"
    /\ publishing = Nothing
    /\ generation < MaxGeneration
    /\ phase' = "down"
    /\ generation' = generation + 1
    /\ wire' = <<>>
    /\ asked' \in Retried(asked)
    /\ UNCHANGED <<closed, watched, publishing, registered, truth,
                   subGen, ctlVars, overtaken, fresh, subVars, viewVars, shutdown,
                   failures, history>>

\* The watch channel is told of the new generation a moment later.
AnnounceGeneration ==
    /\ watched # generation
    /\ watched' = generation
    /\ UNCHANGED <<phase, closed, generation, publishing, registered,
                   brokerVars, ctlVars, listVars, subVars, viewVars, shutdown,
                   failures, history>>

\* The next session restores the registration, which the broker may refuse,
\* and is then served.
Reconnect ==
    /\ phase = "down"
    /\ ~closed
    /\ watched = generation
    /\ phase' = "live"
    /\ \/ /\ registered
          /\ subGen' = generation
          /\ idGen' = generation
          /\ UNCHANGED failures
       \/ /\ registered
          /\ failures < MaxFailures
          /\ failures' = failures + 1
          /\ UNCHANGED <<subGen, idGen>>
       \/ /\ ~registered
          /\ UNCHANGED <<subGen, idGen, failures>>
    /\ UNCHANGED <<closed, generation, watched, publishing, registered,
                   truth, wire, ctlVars, listVars, buf, lagged, subAsk,
                   viewVars, shutdown, history>>

\* close() on the connection: no session follows.
CloseConnection ==
    /\ ~closed
    /\ publishing = Nothing
    /\ generation < MaxGeneration
    /\ closed' = TRUE
    /\ phase' = "down"
    /\ generation' = generation + 1
    /\ wire' = <<>>
    /\ UNCHANGED <<watched, publishing, registered, truth, subGen,
                   ctlVars, listVars, subVars, viewVars, shutdown, failures, history>>

\* The session reads an answer and completes the waiting request, if any.
ReadAnswer ==
    /\ publishing = Nothing
    /\ wire # <<>>
    /\ Head(wire).kind \in {"list", "subscribed", "late"}
    /\ wire' = Tail(wire)
    /\ pc' = CASE pc = "listing" /\ Head(wire).kind = "list" -> "drain"
               [] pc = "subscribing" /\ Head(wire).kind = "subscribed" -> "answered"
               [] OTHER -> pc
    /\ asked' = IF Head(wire).kind = "list" THEN "no" ELSE asked
    /\ UNCHANGED <<connVars, truth, subGen, mode, baseline, seen, overtaken,
                   fresh, subVars, viewVars, shutdown, failures, history>>

\* publish_notification(): the epoch of the type is counted first ...
ReadNotice ==
    /\ publishing = Nothing
    /\ wire # <<>>
    /\ Head(wire).kind \in {"own", "other"}
    /\ wire' = Tail(wire)
    /\ overtaken' = TRUE
    /\ publishing' = Head(wire)
    /\ told' = IF Head(wire).version > told THEN Head(wire).version ELSE told
    /\ UNCHANGED <<phase, closed, generation, watched, registered, truth, subGen, ctlVars,
                   asked, fresh, subVars, viewVars, shutdown, failures, drained, swallowed>>

\* ... then the payload goes to the receivers; a full one loses its oldest.
Publish ==
    /\ publishing # Nothing
    /\ publishing' = Nothing
    /\ IF Len(buf) < Capacity
       THEN buf' = Append(buf, publishing) /\ UNCHANGED lagged
       ELSE buf' = Append(Tail(buf), publishing) /\ lagged' = TRUE
    /\ UNCHANGED <<phase, closed, generation, watched, registered, brokerVars,
                   ctlVars, listVars, idGen, subAsk, viewVars, shutdown, failures,
                   history>>

-----------------------------------------------------------------------------
(* The observer task: observe_loop. *)

Disown(f) == IF f.kind = "own" THEN [f EXCEPT !.kind = "other"] ELSE f
Unheard(f) == IF f.kind \in {"list", "subscribed"} THEN [f EXCEPT !.kind = "late"] ELSE f

\* Frames in transit when the request that waits for an answer is given up: its
\* slot stays without a receiver, and takes the answer that comes late.
Abandoned == [i \in DOMAIN wire |-> Unheard(wire[i])]

\* Head of the outer loop: leave, or note the generation and bootstrap.
Top ==
    /\ pc = "top"
    /\ IF shutdown \/ closed
       THEN pc' = "leaving" /\ UNCHANGED <<mode, baseline>>
       ELSE pc' = "epoch" /\ mode' = "boot" /\ baseline' = generation
    /\ UNCHANGED <<connVars, brokerVars, seen, listVars, subVars, viewVars, shutdown,
                   failures, history>>

\* bootstrap() and reconcile_after_invalidation(): read the epoch, start LIST.
StartList ==
    /\ pc = "epoch"
    /\ pc' = "listing"
    /\ overtaken' = FALSE
    /\ asked' = "first"
    /\ fresh' = -1
    /\ UNCHANGED <<connVars, brokerVars, mode, baseline, seen, subVars, viewVars,
                   shutdown, failures, history>>

\* What an error of bootstrap() or of a reconciliation does.  Backpressure and
\* ConnectionClosed replace the subscription; other errors start over, except
\* that a reconciliation the timer began is left as it is.
Failed(error) ==
    /\ pc' = CASE error = "Closed" -> "leaving"
               [] error = "gone" -> "unsubscribe"
               [] error = "other" /\ mode = "boot" -> "pause"
               [] error = "other" /\ mode = "notified" -> "top"
               [] error = "other" /\ mode = "timer" -> "steady"
    /\ ready' = (ready /\ error # "gone" /\ ~(error = "other" /\ mode = "notified"))
    /\ swallowed' = (swallowed \/ (error = "other" /\ mode = "timer" /\ drained))

\* full_list() fails: after close(), with the session, or in any other way.
ListFails ==
    /\ pc = "listing"
    /\ asked' = "no"
    /\ wire' = Abandoned
    /\ \/ closed /\ Failed("Closed") /\ UNCHANGED failures
       \/ /\ failures < MaxFailures
          /\ failures' = failures + 1
          /\ \E error \in {"gone", "other"} : Failed(error)
    /\ UNCHANGED <<connVars, truth, subGen, mode, baseline, seen, overtaken,
                   fresh, subVars, view, shutdown, told, drained>>

\* poll_next() compares wire ids: sure inside one session, and across sessions
\* a matter of how the broker numbered its registrations.
MustMatch(f) == f.kind = "own" /\ f.gen = idGen
MayMatch(f) == MustMatch(f) \/ f.gen # idGen

\* drain_invalidation_buffer().
Drain ==
    /\ pc = "drain"
    /\ IF lagged
       THEN /\ lagged' = FALSE
            /\ Failed("gone")
            /\ UNCHANGED <<buf, drained>>
       ELSE /\ buf' = <<>>
            /\ UNCHANGED <<lagged, ready, swallowed>>
            /\ \/ /\ \E i \in DOMAIN buf : MayMatch(buf[i])
                  /\ drained' = (mode = "timer")
                  /\ pc' = "epoch"
               \/ /\ \A i \in DOMAIN buf : ~MustMatch(buf[i])
                  /\ pc' = "install"
                  /\ UNCHANGED drained
    /\ UNCHANGED <<connVars, brokerVars, mode, baseline, seen, listVars, idGen, subAsk,
                   view, shutdown, failures, told>>

Install_Unchecked ==
    /\ pc = "install"
    /\ pc' = IF mode = "boot" THEN "check" ELSE "steady"
    /\ view' = fresh
    /\ ready' = (ready \/ mode = "boot")
    /\ swallowed' = FALSE
    /\ drained' = FALSE
    /\ UNCHANGED <<connVars, brokerVars, mode, baseline, seen, listVars, subVars,
                   shutdown, failures, told>>

Install_KeepsEpoch ==
    /\ pc = "install"
    /\ IF ~overtaken
       THEN /\ pc' = IF mode = "boot" THEN "check" ELSE "steady"
            /\ view' = fresh
            /\ ready' = (ready \/ mode = "boot")
            /\ swallowed' = FALSE
            /\ drained' = FALSE
            /\ UNCHANGED asked
       ELSE /\ pc' = "listing"
            /\ asked' = "first"
            /\ UNCHANGED <<viewVars, drained, swallowed>>
    /\ UNCHANGED <<connVars, brokerVars, mode, baseline, seen, overtaken, fresh, subVars,
                   shutdown, failures, told>>

\* install_if_notification_epoch(): under the lock of the epoch; a pass that a
\* notification overtook is repeated after a backoff.
Install ==
    /\ pc = "install"
    /\ IF ~overtaken
       THEN /\ pc' = IF mode = "boot" THEN "check" ELSE "steady"
            /\ view' = fresh
            /\ ready' = (ready \/ mode = "boot")
            /\ swallowed' = FALSE
            /\ drained' = FALSE
       ELSE pc' = "epoch" /\ UNCHANGED <<viewVars, drained, swallowed>>
    /\ UNCHANGED <<connVars, brokerVars, mode, baseline, seen, listVars, subVars,
                   shutdown, failures, told>>

\* The sleep between two bootstraps ends.
Pause ==
    /\ pc = "pause"
    /\ pc' = "epoch"
    /\ UNCHANGED <<connVars, brokerVars, mode, baseline, seen, listVars, subVars,
                   viewVars, shutdown, failures, history>>

\* A select! on the token: while bootstrapping, pausing or replacing.
ShutDownEarly ==
    /\ shutdown
    /\ \/ pc \in {"unsubscribe", "subscribe", "subscribing", "answered"}
       \/ mode = "boot" /\ pc \in {"epoch", "listing", "drain", "install", "pause"}
    /\ pc' = "leaving"
    /\ asked' = "no"
    /\ wire' = Abandoned
    /\ UNCHANGED <<connVars, truth, subGen, mode, baseline, seen, overtaken,
                   fresh, subVars, viewVars, shutdown, failures, history>>

\* After a reconnect is noticed the view is no longer vouched for.
Reconnected == pc' = "top" /\ ready' = FALSE

\* The generation is compared with the baseline after the bootstrap ...
CheckBaseline ==
    /\ pc = "check"
    /\ IF generation # baseline THEN Reconnected ELSE pc' = "watch" /\ UNCHANGED ready
    /\ UNCHANGED <<connVars, brokerVars, mode, baseline, seen, listVars, subVars, view,
                   shutdown, failures, history>>

\* ... steady_state() subscribes to its changes ...
Watch ==
    /\ pc = "watch"
    /\ pc' = "recheck"
    /\ seen' = watched
    /\ UNCHANGED <<connVars, brokerVars, mode, baseline, listVars, subVars, viewVars,
                   shutdown, failures, history>>

Recheck_Skipped ==
    /\ pc = "recheck"
    /\ pc' = "steady"
    /\ UNCHANGED <<connVars, brokerVars, mode, baseline, seen, listVars, subVars,
                   viewVars, shutdown, failures, history>>

\* ... and compares once more.
Recheck ==
    /\ pc = "recheck"
    /\ IF generation # baseline THEN Reconnected ELSE pc' = "steady" /\ UNCHANGED ready
    /\ UNCHANGED <<connVars, brokerVars, mode, baseline, seen, listVars, subVars, view,
                   shutdown, failures, history>>

SteadyShutdown_Missing ==
    FALSE /\ UNCHANGED vars

\* The biased select! of steady_state(): first the token,
SteadyShutdown ==
    /\ pc = "steady"
    /\ shutdown
    /\ pc' = "leaving"
    /\ UNCHANGED <<connVars, brokerVars, mode, baseline, seen, listVars, subVars,
                   viewVars, shutdown, failures, history>>

\* then a change of the generation,
SteadyChanged ==
    /\ pc = "steady"
    /\ ~shutdown
    /\ seen # watched
    /\ seen' = watched
    /\ IF generation # baseline THEN Reconnected ELSE UNCHANGED <<pc, ready>>
    /\ UNCHANGED <<connVars, brokerVars, mode, baseline, listVars, subVars, view,
                   shutdown, failures, history>>

\* then a notification: an overflow replaces the subscription, one for another
\* registration is skipped, one of ours starts a reconciliation,
SteadyNotified ==
    /\ pc = "steady"
    /\ ~shutdown
    /\ seen = watched
    /\ \/ /\ lagged
          /\ lagged' = FALSE
          /\ pc' = "unsubscribe"
          /\ mode' = "notified"
          /\ ready' = FALSE
          /\ UNCHANGED <<buf, drained>>
       \/ /\ ~lagged
          /\ buf # <<>>
          /\ buf' = Tail(buf)
          /\ \/ /\ MayMatch(Head(buf))
                /\ pc' = "epoch"
                /\ mode' = "notified"
                /\ drained' = FALSE
             \/ /\ ~MustMatch(Head(buf))
                /\ UNCHANGED <<pc, mode, drained>>
          /\ UNCHANGED <<lagged, ready>>
    /\ UNCHANGED <<connVars, brokerVars, baseline, seen, listVars, idGen, subAsk, view,
                   shutdown, failures, told, swallowed>>

\* last the jittered timer.
SteadyTimer ==
    /\ pc = "steady"
    /\ ~shutdown
    /\ seen = watched
    /\ ~lagged /\ buf = <<>>
    /\ pc' = "epoch"
    /\ mode' = "timer"
    /\ drained' = FALSE
    /\ UNCHANGED <<connVars, brokerVars, baseline, seen, listVars, subVars, viewVars,
                   shutdown, failures, told, swallowed>>

-----------------------------------------------------------------------------
(* replace_observer_subscription, and the end of the task. *)

\* unsubscribe_in_place() deactivates the registration and tells the broker:
\* frames under its id no longer concern the observer.
Unsubscribe ==
    /\ registered' = FALSE
    /\ subGen' = -1
    /\ wire' = [i \in DOMAIN wire |-> Disown(wire[i])]
    /\ publishing' = Disown(publishing)
    /\ UNCHANGED <<phase, closed, generation, watched, truth>>

ReplaceOld ==
    /\ pc = "unsubscribe"
    /\ pc' = "subscribe"
    /\ Unsubscribe
    /\ UNCHANGED <<mode, baseline, seen, listVars, subVars, viewVars, shutdown, failures,
                   history>>

\* subscribe() opens a receiver and sends the request.
Subscribe ==
    /\ pc = "subscribe"
    /\ pc' = "subscribing"
    /\ buf' = <<>>
    /\ lagged' = FALSE
    /\ subAsk' = generation
    /\ UNCHANGED <<connVars, brokerVars, mode, baseline, seen, listVars, idGen, viewVars,
                   shutdown, failures, history>>

\* It fails: Closed ends the observer, anything else is tried again.  A request
\* of a lost session is not carried over to the next one.
SubscribeFails ==
    /\ pc = "subscribing"
    /\ \/ closed /\ pc' = "leaving" /\ UNCHANGED failures
       \/ /\ subAsk # generation \/ phase = "down"
          /\ ~closed
          /\ pc' = "subscribe"
          /\ UNCHANGED failures
       \/ /\ failures < MaxFailures
          /\ failures' = failures + 1
          /\ pc' = "subscribe"
    /\ subGen' = -1
    /\ wire' = [i \in DOMAIN wire |-> Disown(Unheard(wire[i]))]
    /\ publishing' = Disown(publishing)
    /\ UNCHANGED <<phase, closed, generation, watched, registered, truth,
                   mode, baseline, seen, listVars, subVars, viewVars, shutdown, history>>

\* The answer is decoded and the new subscription registered for restoring.
Register ==
    /\ pc = "answered"
    /\ pc' = IF mode = "boot" THEN "pause" ELSE "top"
    /\ registered' = TRUE
    /\ idGen' = subAsk
    /\ UNCHANGED <<phase, closed, generation, watched, publishing, brokerVars,
                   mode, baseline, seen, listVars, buf, lagged, subAsk, viewVars, shutdown,
                   failures, history>>

\* The task unsubscribes and ends.
Leave ==
    /\ pc = "leaving"
    /\ pc' = "stopped"
    /\ Unsubscribe
    /\ UNCHANGED <<mode, baseline, seen, listVars, subVars, viewVars, shutdown, failures,
                   history>>

\* LeaseObserver::close() or drop.
RequestShutdown ==
    /\ ~shutdown
    /\ shutdown' = TRUE
    /\ UNCHANGED <<connVars, brokerVars, ctlVars, listVars, subVars, viewVars, failures,
                   history>>

-----------------------------------------------------------------------------
Answering == TakeSnapshot \/ SendLastPage \/ AcceptSubscribe
Reading == ReadAnswer \/ ReadNotice \/ Publish
Observing ==
    \/ Top \/ StartList \/ Drain \/ Install \/ Pause
    \/ ShutDownEarly
    \/ CheckBaseline \/ Watch \/ Recheck
    \/ SteadyShutdown \/ SteadyChanged \/ SteadyNotified \/ SteadyTimer
    \/ ReplaceOld \/ Subscribe \/ Register \/ Leave

Next ==
    \/ Change \/ OtherNotice \/ Answering
    \/ Lose \/ AnnounceGeneration \/ Reconnect \/ CloseConnection
    \/ Reading
    \/ Observing
    \/ ListFails \/ SubscribeFails
    \/ RequestShutdown

Spec == Init /\ [][Next]_vars

\* The tasks of the client run, and a select! that has the token among its branches
\* takes it; the broker answers what it is asked, and the supervisor goes on
\* reconnecting.  Requests that cannot be answered any more
\* fail (their timers run); other failures are not forced.
FairSpec ==
    /\ Spec
    /\ WF_vars(Observing)
    /\ WF_vars(ShutDownEarly)
    /\ WF_vars(Reading)
    /\ WF_vars(Answering)
    /\ WF_vars(AnnounceGeneration)
    /\ WF_vars(Reconnect)
    /\ WF_vars(closed /\ ListFails)
    /\ WF_vars((closed \/ subAsk # generation) /\ SubscribeFails)

-----------------------------------------------------------------------------
(* Properties. *)

\* The epoch protocol of bootstrap() and reconcile_after_invalidation(): no
\* inventory is installed that is older than a change the connection has
\* already read a notification of, published or not.
NothingSuperseded == [][view' # view => view' >= told']_vars

\* Nothing will wake the observer but its timer: it is in steady_state(), has
\* seen the generation, and its subscription is live and has nothing for it.
Asleep ==
    /\ pc = "steady"
    /\ phase = "live"
    /\ seen = watched /\ watched = generation
    /\ subGen = generation /\ idGen = generation
    /\ wire = <<>> /\ publishing = Nothing
    /\ buf = <<>> /\ ~lagged

\* steady_state() never sleeps on a missed change or a missed reconnect: then
\* the view is the broker's inventory, unless a reconciliation of the timer
\* failed after it had taken a notification.
AsleepMeansCurrent == Asleep /\ ~swallowed => view = truth

\* No LEASE_NOTIFY is on its way to the receivers.
Still ==
    publishing = Nothing /\ \A i \in DOMAIN wire : wire[i].kind \notin {"own", "other"}

\* reconcile_after_invalidation(), which does not look at the token.
Reconciling == mode # "boot" /\ pc \in {"epoch", "listing", "drain", "install"}

\* However sessions, notifications and requests fail, the view of an observer
\* nobody closes comes to be the broker's inventory, and ready, once no more
\* LEASE_NOTIFY of any registration keeps it listing again.
Converges == <>[](~closed /\ ~shutdown /\ Still) => <>[](view = truth /\ ready)

\* LeaseObserver::close() and drop end the task wherever it is, but for one place:
\* a reconciliation that notifications overtake for ever.  One that is not ends.
ShutdownStops ==
    <>[]Still \/ []<>~Reconciling => (shutdown ~> pc = "stopped")
=============================================================================
