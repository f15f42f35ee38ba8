# A TLA+ model of the fitz-rs client

`fitz-rs` is an asynchronous Rust client for the Fitz broker. A `Client` owns one
`AsyncConnection`: a supervisor task that dials, authenticates, restores and
serves one session after another over TCP or WebSocket, and a bounded command
channel through which every domain client (KV, Queue, Lease, RPC, Notice, Stream,
Schedule) sends its requests. This directory models the parts of the client in
which tasks, sessions and the broker interleave.

## 1. Inventory of the system

| Part | Where | State it keeps | Operations | What makes it correct |
|---|---|---|---|---|
| Session life cycle | `async_connection.rs` `supervise`, `connect_and_run` | `generation`, `close_requested`, the running session | connect, serve, lose, close | one session at a time; every lost session and the first close advance the generation |
| Supervisor | `async_connection.rs` 531-936, `lib.rs` 390-530 | the `ConnectionState` watch, the attempt counter, the pending initial answer | `connect`, `close`, `open_session`, `reconnect_delay` | `Authenticated` is announced only for a served session; every `connect()` is answered; a close wins |
| Request multiplexing | `async_connection.rs` 24-411, 938-1140, 1335-1442 | `next_request_id`, command and cancellation channels, `correlated`, `canceled`, `max_in_flight` | `request`, `send`, drop, timeout, `run_io`, `run_websocket`, `dispatch_correlated`, `fail_all` | an answer reaches the caller it is for, in the session the request was made for; no caller is forgotten; the table stays within its limit |
| Registrations | `async_connection.rs` 52-83, 490-514, 1142-1220, `notifications.rs`, `client_domains/kv.rs` | the registry of restorable registrations, each handle's wire id, the broadcast receivers | `subscribe`, `unsubscribe`, `poll_next`, `restore_registrations`, `publish` | a handle is restored with every session and yields only its own notifications |
| Lease observer | `client_domains/lease.rs` 160-205, 455-890 | the view, `ready`, its subscription, the notification epoch | `observe`, bootstrap, reconcile, replace the subscription, `close` | the installed view is never older than a change already announced; the observer converges |
| Lease acquisition | `client_domains/lease.rs` 74-126, 366-432, 894-965 | the acquisition gate, handles with route, token and generation | acquire, extend, release, managed execution | a handle holds the token the broker granted for it; the callback stops when ownership is lost |
| RPC calls | `client_domains/rpc.rs` | per-call broadcast receivers, deadline and parent tasks, `cancellation_sent` | call, stream of responses, `cancel`, drop | a call nobody wants any more is cancelled, once; the stream ends |
| RPC workers | `client_domains/rpc/worker.rs` | inbox, `active_calls`, a cancellation token per request | register, receive, respond, release, overload reply, deregister, drop | cancellations, disconnects and the drop of the worker reach every request; cleanup is acknowledged on release; no answer for a call of a lost session |
| TCP framing | `async_connection.rs` 968-1037, 1273-1294 | the bytes a pending read has taken | `read_tcp_frame` inside the select of `run_io` | frames are cut where the broker cut them |
| Queue | `client_domains/queue.rs` | item state 0/1/2, the generation of an item | enqueue with retry, reserve, extend, complete, nack, subscribe | an item is completed at most once, an enqueue puts its message once in the queue |
| KV | `client_domains/kv.rs` | transaction and subscription handles | begin, get, scan, put, insert, delete, delete_range, commit, rollback, subscribe | an operation touches what its own handle was granted |
| Notice, Stream, Schedule subscriptions | `client_domains/{notice,stream,schedule}.rs` | a map from patterns to a registration and a reference count, behind a mutex held across an await | subscribe, unsubscribe, drop, `unsubscribe_all` | the broker serves a pattern as long as a handle wants it, and nothing is left after the last one |
| Stream sessions | `client_domains/stream.rs` 51-73, 222-305 | generation, session id, `active` | begin, append, commit, rollback | as for KV |
| Schedule listing | `client_domains/schedule.rs` 64-212, 262-326 | matches and continuation of one listing | create, create_batch, cancel, list | a listing that succeeds is complete |
| Retry loops | `async_connection.rs` 323-388, `error.rs` 120-136 | attempts of one call | `request_replayable_in_generation`, `request_confirmed_negative_with_flags` | only what may be sent twice is sent twice |
| WebSocket heartbeat | `async_connection.rs` 1040-1141 | a timer and `awaiting_pong` | every branch of the select loop | silent sessions end, others do not |
| Wire format | `codec.rs`, `wire3.rs`, `protocol.rs`, `async_connection.rs` 808-847, 1283-1333 | the capabilities and limits a HELLO negotiated | encode, decode, frame | a frame is accepted exactly if it is well formed; limits are negotiated once |
| Routes | `domains/routes.rs` | none | validate, classify, match | a pattern is accepted if it can match, and matches the routes it covers |
| Errors, observability, tokens | `error.rs`, `observability.rs`, `lib.rs` | counters | classify, count, fetch a token | none that spans steps |

**Interactions.** Callers share the connection through an `mpsc` command channel
(bounded by `max_in_flight`) and an unbounded cancellation channel; answers come
back through `oneshot`s; notifications through bounded `broadcast` channels, one
per message type; life-cycle changes through `watch` channels of the state and of
the generation. The supervisor task is the only one that touches the transport
and the in-flight table. Handles compare the generation they were made in with
the connection's current one before they use anything a session gave them.

**What is hard here.** Correlation ids start from 1 again with every session
while commands, cancellations and buffered notifications of earlier sessions are
still in channels; state is read before an `await` and used after it (the
generation of a handle, the registry snapshot, the connection state seen by
`connect()`); answers may come after the timeout of the request that asked for
them; a session may be lost between any two steps; `close()` may come at any
time; the table, the channels and the broadcast receivers have limits at which
callers are refused or notifications dropped.

## 2. The modules

Each module names its abstractions in its header. Definitions of the form `X_Y`
that stand before `X` are faulty variants (a dropped guard, a missing reset, a
swapped order): every property of a passing run is known to be violated when the
variant takes the place of `X`, so each property can tell the code from a
plausible mistake in it. No specification uses a variant. `MC*` modules add
constants and symmetry; `MCSubscriptions` and `MCPeerInput` put modules that share
no state into one run. There, the machine that moves first is the only one that
moves, so that the states of the run are the sum and not the product of theirs.

| Module | Composes | What its state and actions stand for |
|---|---|---|
| `SessionLife` | | The abstract life cycle of one `AsyncConnection`: idle, opening, live, closed, the generation and `close_requested`. What everything else may rely on. |
| `Supervisor` | `SessionLife` (refined) | `supervise` / `connect_and_run` / `reconnect_delay` / `open_session` step by step, the `ConnectionState` watch and the callers of `Client::connect` and `Client::close` with the connection slot they share: `connect()` checks the state, announces `Connecting` and takes the connection in three steps, and a `close()` between them leaves it an empty slot, into which it puts a second connection (`successor`, followed by what it announces only). Every outcome the code tells apart in an attempt (token, transport, version, authentication, HELLO) is a disjunct. |
| `Requests` | `SessionLife` (extended) | `request_with_flags` and `send` callers (allocate an id, stamp the generation, queue, wait, time out, drop), the command and cancellation channels, and `run_io`: taking commands, refusing stale ones, the in-flight table with tombstones, dispatch of correlated frames, `fail_all`. `limit` is `max_in_flight` after HELLO, `slot` the `correlated` table, `born` and `resets` record which numbering of ids a call belongs to. |
| `Registrations` | | `subscribe` / `unsubscribe` / drop of a KV subscription (Queue has the same code), `register_restorable`, `restore_registrations` with one round trip per registration and its timeout, `publish` into bounded broadcast receivers, `poll_next`. |
| `SharedSubscriptions` | | The subscriptions of Notice, Stream and Schedule. A place is one pattern of the Notice client, or one Stream or Schedule client with the pattern of interest; `Mutex` says which places share a fair mutex (`line`, `holder`). The map entry has its reference count, `enabled` is `RestorableRegistration::active`, `stored` its `wire_id`, `given` the id the broker knows it by in this session, `ended` the `active` flag of Notice. A Notice UNSUBSCRIBE carries `stored` and ends whatever has that id at the broker. A restore may fail, be answered late, or be answered with the id of another. Calls may be dropped while they wait or hold the mutex. |
| `SessionHandles` | | Queue items, KV transactions and Stream sessions. `stamp` is the generation a handle keeps, `state` the item's 0/1/2; a call is check, claim, send and return, each a step. Both retry loops. A request is written only in the session of its stamp, which is what `Requests` shows. |
| `LeaseObserver` | | `observe_loop`, `bootstrap`, `steady_state` and `reconcile_after_invalidation` of a lease observer, the replacement of its subscription, the notification epoch counted before and published after. The epoch is only compared with an earlier value of itself, so that `overtaken` stands for both; notices of other registrations have no end. An inventory is a version number and `LIST` returns the version of its snapshot, which may be several pages old. |
| `LeaseHold` | | `acquire` with its gate and the uncorrelated completion of a queued ACQUIRE, `extend`, `release`, drop, and the managed callback. |
| `RpcWorker` | | The worker task with its biased select polled source by source, the inbox, `active_calls`, `respond` as check and send, `finish_cleanup` with its acknowledgment, which a full command queue refuses, `deregister` and the four steps of the drop. |
| `RpcCall` | | One call, with or without a deadline and a parent: `call_with_timeout`, its request from the queue to the broker although the caller may have given it up, the link of `call_from_request`, `poll_next`, `cancel`, drop, and the two watching tasks that share `cancellation_sent`. |
| `TcpFraming` | | `read_tcp_frame` under the select of `run_io`: bytes arrive in any portions, other branches drop the pending read. |
| `Heartbeat` | | The timer and the flag of `run_websocket` in ticks. A branch that writes suspends the loop until the peer reads, and the rest of the branch runs then. |
| `Incoming` | | `decode_frame_header`, `decode_incoming`, `wire3::decode` field by field and `apply_server_hello`, over every payload of a few cells. This is what `run_io` and `run_websocket` do with a frame; `read_session`, which reads while registrations are restored, takes the header only and leaves the envelope to the decoder of the response. The grammar of the envelope is stated separately, as a cut of the payload into fields. |
| `Routes` | | `scan`, `validate_registration_pattern`, `classify_stream_selector`, and the two cursors of `route_matches_pattern`. `Covers` is the reference meaning of a pattern: an alignment exists, which says how many segments of the route are used up to each segment of the pattern. |
| `ScheduleListing` | | `list_by_selector` page by page against `create`, `create_batch` and `cancel` of other clients. `found` counts how often a schedule is in the result; `throughout` and `sometime` record which schedules a listing must and may contain. |
| `RequestsProofs`, `SupervisorProofs`, `SessionHandlesProofs`, `RpcWorkerProofs`, `LeaseHoldProofs`, `LeaseObserverProofs` | the module each is named after | Theorems (section 6). |
| `SubscriptionsProofs` | `Registrations`, `SharedSubscriptions` | Theorems (section 6). |
| `PeerProofs` | `RpcCall`, `Heartbeat`, `ScheduleListing`, `TcpFraming`, `Incoming`, `Routes` | Theorems (section 6) about six machines that share no state. |

The broker, the network and the token provider are external: they may answer in
any order, late, wrongly (where the code has a path for it) or never. One thing is
asked of the broker in `ScheduleListing`: a continuation stands for a place in the
order of routes, not for a number of entries. The code relies on it too.

Merged steps. The reset of `next_request_id` and the reading of the session's
generation are one step of `Requests`; a `close()` of the connection in
`LeaseObserver` also ends the session; `RpcWorker` polls shutdown and generation
in one step (a preemption between them only delays a stop); `Send` of a response
in `RpcWorker` stands for queueing and writing, since `Requests` shows what the
fence does with a command stamped for a session. Where the code reads the
generation and its watch separately, the modules do too. In `SharedSubscriptions` a
restore is one step with any outcome for each registration, since `Registrations`
has its round trips (`RestoreShared` chooses what the broker serves, what is answered
in time, and with whose id); in `SessionHandles` a response is decoded where it is
returned. The uncorrelated completions that `run_websocket` writes for are left
out of `Heartbeat` with the `pending` path they belong to.

## 3. The runs

Passing runs:

| Run | Shows | Bounds |
|---|---|---|
| `Requests` | `TypeOK`, `SessionFence`, `NothingStranded`, `InFlightBound`, `MisdeliveryNeedsReset`: two requests and a send with Connect commands, cancellations and `close()` | 3 callers for 2 ids, so the counter runs out and ids repeat after a reset; a limit of 2 that HELLO may lower to 1; 2 sessions; 2 Connect commands, the second (`EarlyConnects`) to a session that has not yet served a call |
| `Supervisor` | `AuthenticatedMeansServing`, `ConnectHeld`, `AttemptsBounded`, `CloseWins`, `ImplementsSessionLife` (refinement) | 2 connectors, 1 reconnect attempt, 3 generations |
| `Subscriptions` | `OwnWireId`, `RegistrationsRestored`, `SameSessionRouting` of own registrations; `StillServed`, `NothingLeftBehind` of shared ones | 2 subscriptions, 3 sessions, receivers of 1, 2 notices: overflow, late answers and reused ids happen; 3 sharing handles, 2 patterns or 2 clients, 2 ids at the broker, one `unsubscribe_all()`, 2 sessions |
| `LeaseObserver` | `AsleepMeansCurrent`, `NothingSuperseded`, `Converges`, `ShutdownStops` | 1 change, foreign notices without end (one in transit at a time), 2 sessions, receiver of 1, 1 failing request; `Converges` asks that notices cease, `ShutdownStops` that they cease or leave a reconciliation alone again and again |
| `LeaseHold` | `ForeignGrantNeedsGap`, `LossNoticed`, `WaitEndsInSession` | 3 tasks (one managed), 2 gates, 1 route, 2 tokens, 2 sessions |
| `RpcWorkerSafety` | `LostContextsCancelled`, `DropLeavesNothing`, `AckMeansReleased` | 2 calls, inbox and receivers of 1, 2 sessions |
| `RpcWorkerLive` | `DisconnectCancels`, `CancellationArrives`, `ReleaseAcknowledged` | 1 call with a budget, 2 sessions |
| `RpcCall` | `CancelledOnce`, `UnwantedCallCancelled`, `StreamEnds` | with and without deadline and parent, endless responses of other calls, receivers of 2, 2 sessions |
| `PeerInput` | `CutRightUnlessTorn` (`TcpFraming`), `HeartbeatExact`, `AcceptedIsWellFormed` (`Incoming`), `MatchIsExact` and `ValidationIsExact` (`Routes`), `ListingComplete`, and `OneCompletion`, `OwnGrant`, `EnqueuedOnce` (`SessionHandles`) | prefix of 2 bytes, 3 frames of 1 to 3 bytes, 2 commands; intervals of 3 and 2 ticks; payloads of up to 7 cells with values 0 to 3, which holds an envelope of two fields or a list of two capabilities; patterns and routes of up to 4 segments over 2 literals, enough for two `**` with a segment to come back to; 5 schedules in pages of 2, 2 changes, 2 attempts a page; 2 handles of any kinds, 2 calls, 2 attempts, 2 sessions: two completions of one item, a read or an enqueue that is repeated, an id that two sessions give out |

The modules' other `TypeOK` definitions say what their variables hold; a type error
there would show in the properties above, so that only the one that needs an
argument, of `Requests`, is an invariant of a run.

Why small bounds suffice here: each hazard is a race of at most two sessions and
two or three parties over one slot, receiver or flag. The bounds give every
channel a capacity it exceeds, every counter a limit it reaches, and at least one
lost session in every run in which a session can be lost, so that each action and
each disjunct of the next-state relations is taken. `CHECK_DEADLOCK FALSE` is set
in all runs: callers are finite and the bounds let the system come to rest.

## 4. What the code does and its documentation does not say

Each of these runs checks one statement of the documentation, a comment or a
test, and ends in a violation; `PROJECT.json` quotes the statement and the line.

| Run | What happens |
|---|---|
| `RequestsIds` | `next_request_id` starts from 1 with each session while older ids are still queued: two requests of one session share an id and one gets the other's answer |
| `RpcWorkerEarlyCancel` | a cancellation polled before its request is ignored, and the request is delivered uncancelled |
| `TornFrame` | a command that arrives while a frame is half read drops the bytes read, and a frame is delivered that was never sent |

Where the models have a behaviour one would not expect, the passing property says
exactly when it happens, and the rest follows from the actions named:

| Behaviour | Where it shows |
|---|---|
| a response reaches another caller only after the reset of the ids; a cancellation that outlives its session may cancel an unrelated request with the same id | `MisdeliveryNeedsReset`, `TakeCancellation` |
| a `connect()` that `close()` overtakes announces `Connecting` after `Closed`, finds the slot empty and spawns a second connection, whose session is served | `CloseWins` excepts `Overtaken`; `Announce`, `Obtain` |
| a notification buffered before a reconnect is yielded by another handle that now has its wire id | `SameSessionRouting` |
| a subscription answered before and registered after a reconnect is not restored by it | `RegistrationsRestored` speaks of the snapshot only; `Register` |
| a timer reconciliation takes a notification, fails, and the observer sleeps on a stale view until the next tick | `AsleepMeansCurrent` excepts `swallowed`; `ListFails` |
| the completion of an abandoned `acquire()`, or of one through another gate, becomes the handle of the next one | `ForeignGrantNeedsGap` |
| an `acquire()` that is queued when its session is lost waits for ever and holds the gate | `WaitEndsInSession` speaks of the session only |
| a handle whose renewal went unanswered stays current; a handle granted by a lost session can be stamped with the next one | `RenewUnanswered`, `Hold` |
| a response checked in one session is stamped with, and written in, the next | `Respond` and `RespondSend` are two steps |
| an item, transaction or stream session granted by a lost session is stamped with the next one, or a call checked in one session is sent in the next, and meets what has its id there | `OwnGrant` names both gaps; `Granted`, `Send` |
| a Notice `unsubscribe()` made before the ids are replaced, or after a restore that failed, names the id of an earlier session, and the broker ends the subscription of another pattern, although `README.md` lines 52-53 say that ids "are replaced transparently after reconnect" | `excused` of `StillServed`; `TakeEnd`, `Stopped` |
| a reconciliation that notifications overtake again and again does not look at the shutdown token, and `LeaseObserver::close()`, "waiting for that teardown to complete" (`lease.rs` lines 528-529), does not return | premise of `ShutdownStops`; `Install` |
| a full command queue refuses the acknowledgment of a released request; the error is ignored and the session goes on, although `README.md` line 101 says that "active requests acknowledge when their context is released" | `unsent` of `ReleaseAcknowledged`; `SendAck` |
| a call whose future is dropped or times out while its request is queued runs at the broker without a stream or a task, and neither its deadline nor its parent's cancellation (`rpc.rs` lines 120-122) reaches it | `UnwantedCallCancelled` speaks of calls whose stream was made; `SendGivenUp`, `WriteRequest` |
| two `stream()` or `schedule()` clients count references separately, while UNSUBSCRIBE names the pattern: the last handle of one ends the subscription of the other. `CHANGELOG.md` line 28 only says that duplicates are "locally reference counted" | `excused` of `StillServed`; `Stopped`, `Strangers` |
| a Notice `unsubscribe()` looks at `active` before it waits for the mutex; overtaken by `unsubscribe_all()` and a new `subscribe()`, it takes away the new handle's reference | `miscounted` of `StillServed`; `Unsubscribe`, `Release` |
| an UNSUBSCRIBE that fails leaves its map entry with one reference and no handle: the pattern stays subscribed until it is shared and released again | `tainted` of `NothingLeftBehind`; `ReleaseFails` |
| no heartbeat timer runs while the loop waits in a write, so a peer that stops reading keeps a silent session alive | `stalled` of `SilenceBounded`; `StartWrite`, `Tick` |
| a peer that pings but never answers a ping is dropped one idle interval after its last frame: a Ping restarts the timer and leaves `awaiting_pong` | `Written` for `"pong"`; `NoFalseAlarm` has the shorter interval |
| requests lost to an overflow while the inbox is full are neither answered nor reported | second disjunct of `PollRequests` |

Other observations met on the way: after a rejected token the client reports
`Closed`, so that `Client::connect` cannot be retried with a fresh one
(`OpenFails`, `CheckState`); `reconnect.enabled = false` still
reconnects after a lost session, because only a failed first attempt looks at it;
the attempt counter is not reset by a successful reconnect; `max_in_flight` never
grows back after a smaller HELLO; `connect()` on a live client leaves the state at
`Connecting`; a `close()` that cannot queue its command leaves the session live;
the restore timeout starts anew with each frame; `write_all` has no timeout; each
`client.lease()` has a gate of its own; a managed callback is not polled while a
renewal is awaited; dropping an `RpcWorker` without `deregister()` tells the
broker nothing; a full command queue uses up the one cancellation of an RPC call;
`call()` subscribes to the generation before it sends, so a session change in
between ends the stream although the call runs in the new session; Lease
subscriptions accept patterns although the README says exact routes; the error
codes of the README (`SCHEDULE_BACKEND_ERROR`, the lease cursor) differ from
`error.rs`; `wire3::encode` demands increasing field ids where `decode` takes them
in any order; all restore round trips carry correlation 1, so that a late answer to
one can also be dispatched to the caller whose request has id 1; in a route of the broker, which nobody validates, the matcher takes
a segment spelled `**` for a literal; a listing fails, rather than being
incomplete, when a page cannot be continued.

## 5. Fairness

`Requests`, `Subscriptions`, `PeerInput`, `RpcWorkerSafety` and the runs of section 4
assume none: their properties are of safety. The others assume what the runtime and the
timers of the code give:

- `Supervisor`: the supervisor task runs (its awaits have timeouts, the token
  provider is assumed to return) and `Client::close` returns.
- `LeaseObserver`: the observer task and the reader run, a `select!` with the token
  among its branches takes it, the broker answers, the generation is announced and the
  supervisor reconnects (`maximum_attempts` 0); changes and failures are bounded, notices
  of other registrations are not. `Converges` has the premise that no LEASE_NOTIFY is in
  transit from some time on. `ShutdownStops` has the weaker one that this is so, or that
  the task is outside of a reconciliation again and again. Without it close() need not
  return (section 4).
- `LeaseHold`: the tasks' calls and timers run, the broker answers, waits at the
  broker expire, the supervisor reconnects. Nobody has to finish or drop anything.
- `RpcWorkerLive`: the worker task, spawned acknowledgments, a drop that has begun
  and the supervisor run. The application owes nothing.
- `RpcCall`: spawned tasks, the session (which writes what is queued) and the supervisor
  run and time passes; the application need not poll the stream or the call. `StreamEnds` has its own premise, an application that
  keeps polling (strong fairness, because it may also call `cancel()` between
  polls) and the five seconds of `cancel()`, which an endless flow of lifecycle
  messages could delay in the code.

`Heartbeat` needs no fairness: time cannot pass a timer that is due while the loop
is in its select, which is what a prompt runtime gives.

## 6. What is proved

Every invariant that the runs check is also a theorem for all values of the constants,
and so are the action property `NothingSuperseded` and the refinement
`ImplementsSessionLife`. The assumptions are the ones named in the modules: constants
have their types, special values differ from the ordinary ones (a literal segment is not
a wildcard), capacities and intervals are positive, there are two different literals. The
bounds on counters are constants too, so that a theorem covers any number of sessions,
calls or changes, and any length of a path or a payload. None of the properties is
inductive; the invariant that each proof adds says why the property is kept, and is given
here.

**`RequestsProofs`**, for every set of callers, every id range, capacity and number of
sessions.

- `TypeCorrect` (`TypeOK`). Inductive only together with `Numbered`: a call past
  allocation has an id, one before it has neither id nor answer. Without it a
  cancellation could name id 0.
- `NobodyStranded` (`NothingStranded`). `Held` restates it with the set of holders
  of a caller's sender, channel and slots; each action either keeps a holder or
  answers. The lemmas on `Append` and `Tail` say what the channel gains and loses.
- `ResponsesStayInSession` (`SessionFence`). Rests on `TableInv`: what is queued or
  in a slot has an id, a slot's call has that id and the generation of the
  session, and tables do not outlive a session. The fence itself mentions only
  what was received, so it is not inductive.
- `MisdeliveryOnlyAcrossResets` (`MisdeliveryNeedsReset`). Rests on `NumberInv`:
  within one numbering the counter is ahead of every id given out, hence ids are
  unique in it. Together with `RequestsIds` this says the reset is the only cause
  of a misdelivered response to a request of the table. The answers to restore round
  trips are not in it: they all carry correlation 1, and one that comes after its
  timeout is dispatched to the request with id 1 if there is one (`OwnWireId` and
  `SameSessionRouting` follow it to the next round trip).
- `InFlightBounded` (`InFlightBound`). Uses the finiteness of the id range and
  cardinality facts of adding and removing one slot.

**`SupervisorProofs`**, for any number of connectors, any queue and any reconnect policy.
All four results come from one invariant, `SupInv`. `Spawned` is its part about the
second connection: it exists only while it is in the slot that `close()` had emptied.

- `AnnouncedMeansServing` (`AuthenticatedMeansServing`): with `Serving`, no session is
  served under a generation that has not been reached.
- `NoConnectForgotten` (`ConnectHeld`): with `Held`, nothing is pending where the next
  `Connect` is taken. This is what keeps a second `Connect` from overwriting the answer
  that the first one is owed.
- `ReconnectLimited` (`AttemptsBounded`): with `Counted`, the limit already holds while
  a session is served, since its loss is counted from there.
- `SupervisorRefines` (`ImplementsSessionLife`): initial states map to initial states,
  and each action to a step of `SessionLife` or to none. `CloseQueued` is needed for the
  step that takes `Close`: it is queued only after `close_requested` was set.

**`SessionHandlesProofs`**, for any handles, calls, attempts and sessions.

- `CompletedOnce` (`OneCompletion`). `CompletionInv` ties the item's state to its calls:
  it is 1 while a completion is in flight and 2 once one was acknowledged
  (`StateTells`), and at most one call of an item is either (`OneEach`); without the
  first, the compare-and-exchange from 0 would exclude nobody.
- `CallsMeetOwnGrant` (`OwnGrant`). `GrantInv`: grants are distinct, an open handle keeps
  its grant and its generation, and a call carries the generation its handle keeps. So a
  request that meets a foreign grant either was stamped later than it was checked, or
  its handle was stamped later than it was granted.
- `EnqueueIsOnce` (`EnqueuedOnce`). `EnqueueInv`: a request on its way is the one its
  call awaits or was given up, there is at most one, and none is left when the call
  sleeps before another attempt. The retry is safe because it follows an answer.

**`RpcWorkerProofs`**, for any calls, capacities and sessions, from one invariant,
`WorkerInv`. `Placed`: a request is in one place, of receiver, hand, inbox and
application. `Tracked`: a decoded request whose token is live is among `active_calls`,
where whoever has to cancel it will find it.

- `LostRequestsCancelled` (`LostContextsCancelled`): `Current` says it of every place a
  request can be in, not only of what the application holds.
- `DropCleansUp` (`DropLeavesNothing`): `Dropped` says what each of the four steps of the
  drop has achieved and that the task cannot undo it in between.
- `AckedAreReleased` (`AckMeansReleased`): `Released` says it of spawned acknowledgments.

**`SubscriptionsProofs`**, for any subscriptions, handles, clients and sessions.

- `HandleHasOwnId`, `RestoreIsComplete`, `NoticesReachTheirHandle` (`OwnWireId`,
  `RegistrationsRestored`, `SameSessionRouting`) from `RegInv`: in a session without a
  timed-out round trip the one answer in transit belongs to the round trip that waits
  (`Orderly`), ids of a session differ (`Distinct`), a registration of the snapshot is to
  be asked for, is asked for, current or failed (`Accounted`), and what is buffered was
  routed by an id of its own session (`Buffered`).
- `SharingKeepsServing`, `ClosingLeavesNothing` (`StillServed`, `NothingLeftBehind`) from
  `SharedInv`, for any patterns, clients and broker ids. Its centre is `References`: the
  reference count of an entry is at least the number of handles that refer to it, and
  equal to it at a place where nothing was dropped, left unanswered or ended by a wrong id.
  `Locked` says that the entry does not change while the holder of the mutex awaits the
  broker, `Linked` that a usable handle refers to what its place maps to, `Serving` that
  the broker serves it under the stored id, `Tidy` that it serves nothing else. That a
  Notice UNSUBSCRIBE ends its own registration is not assumed: the broker looks the id
  up among the ids of its session (`TakeEndKeeps`), a restore may leave a registration
  with an old id or another's (`RestoreOutcome`), and what is hit then is recorded.

**`LeaseHoldProofs`**: `GateKeepsGrantsApart` (`ForeignGrantNeedsGap`), for any tasks,
routes and gates. `HoldInv`: an `acquire()` holds its gate until it ends (`GateHeld`), the
broker owes a completion once, to a task that waits or whose call has ended (`Owed`), and
what a waiting call received is its own completion or one the gate could not keep away
(`Received`). The first attempt failed for a reason that three tasks do not show: a task
whose call is ended by a foreign completion is still owed its own, which then reaches a
third task through the same gate. `abandoned` therefore also records a call that ended
with the completion of another.

**`LeaseObserverProofs`**, for any number of changes, sessions, foreign notices and
failures.

- `SleepsOnCurrentView` (`AsleepMeansCurrent`). `UpToDate` says it for every place of the
  loop: what is listed or shown is the inventory, or there is `Evidence` that will make
  the observer list again: a notification in transit or buffered, an overflow, a
  generation or a subscription that is not the current one. Every step that removes
  evidence starts a new listing or leaves other evidence behind.
- `InstallsNothingSuperseded` (`NothingSuperseded`, an action property). `NotOvertaken`:
  while the epoch is what it was before the LIST, nothing newer than the listed inventory
  was read;
  `OneAnswer` and the frames marked late exclude the answer to a request given up before.

**`PeerProofs`**, six machines.

- `OneCancellation` (`CancelledOnce`), for every buffer size and number of sessions.
  `OnceInv` adds why: nothing is queued or received before the flag is set.
- `HeartbeatIsExact` (`HeartbeatExact`), for all positive intervals. Nothing in the two
  halves relates the timer to the time that has passed; `HeartbeatInv` does: the sum of
  the two does not change while time goes on. `timer + pinged` is at least the shorter
  interval while a ping is unanswered (`PingTime`), `timer + quiet` at most the idle
  interval before a ping and at most both intervals after one, unless a write stalled
  (`QuietTime`).
- `ListingIsComplete` (`ListingComplete`), for every set of schedules, page size and
  number of attempts and changes. `ListingInv`: what was stored all the time and lies up
  to the continuation was found once (`Passed`, `FoundOnce`), and the page in transit has
  no gap between the continuation it answers and the one it carries (`PageWhole`). That a
  page of the broker has none is a fact about cardinalities (`PageIsWhole`).
- `FramesCutRight` (`CutRightUnlessTorn`), for every prefix and frame length, any number
  of frames and any portions. `CutInv`: there are places at which the frames begin
  (`Placed`), such that the bytes of the pending read, followed by those not yet read, are
  the broker's stream from the place where the next frame begins. A byte taken does not
  change this sequence; a complete frame removes exactly one frame from it.
- `FramesJudgedRight` (`AcceptedIsWellFormed`), for payloads of any length and any frames
  before. The grammar asks for a cut of the payload into fields, decode's loop reads from
  left to right. `FieldsInv`: what was read is a cut as far as the cursor (`PartCut`), and
  every cut of the whole agrees with it so far and goes on at the cursor (`OnlyCut`). So
  a field that does not fit, a second capability list or a malformed one excludes all
  cuts, and at the end the one that was read is the only one. The limit never exceeds
  `MAX_MESSAGE_SIZE`, which is needed because the header is checked against both.
- `MatchingIsExact` (`MatchIsExact`), for routes and patterns of any length and segments.
  The loop comes back only to its last `**`, and it is not obvious that this is enough.
  `MatchInv`: the segments passed are aligned with each other (`Reached`), and the loop
  keeps to the left (`Leftmost`): no alignment of the whole has used less at the last `**`,
  and one that has used the same goes through the cursors. Where the loop is stuck no
  alignment passes (`StuckNowhere`), so the last `**` must take one more; an earlier one
  never has to, since the place reached is the leftmost for all of them.
- `ValidationIsRight` (`ValidationIsExact`), for patterns of any length and any depths, if
  there are at least two literals. That a pattern which covers a route fits its depth
  is a counting argument: segments other than `**` use different segments of the route
  (`PlainDiffer`). For the converse `FitsCovers` builds a route and its alignment: one `**`
  takes what is too much, every other takes nothing. Selectors are classified case by
  case (`ClassifyExact`).

Two of these proofs need induction over the segments of a pattern. The induction theorems
of the library take an operator, which no backend instantiates. `SetInduction` is stated
over a set of numbers instead, and follows from the smallest number outside of the set
(`Smallest`, from the well-foundedness of `<`). The reference definitions are existential
(there is an alignment, there is a cut) and not recursive, so that an invariant can
quantify over all of them.

**Only model-checked.** All liveness properties and what uses `ENABLED`, which are out of
reach of the prover: `CloseWins`, `Converges`, `ShutdownStops`, `LossNoticed`,
`WaitEndsInSession`, `DisconnectCancels`, `CancellationArrives`, `ReleaseAcknowledged`,
`UnwantedCallCancelled`, `StreamEnds`.

## 7. What is not modelled

The reads of the Stream client (one replayed request each, no state), stream
records and the error tables, byte-level encoders and decoders and `wire3::encode`,
which are pure conversions; the validation of concrete routes, which is the scan of
`Routes` with a fixed depth; observability, which is write-only; the lease queries,
which are single requests; the uncorrelated `pending` path, which no Wire-3 session
reaches; a session whose heartbeat is disabled, which has no timer; the drop of all
`Client` handles; a second `close()`, and the second connection of a `Client` beyond its
announcements.

In `LeaseHold` tasks acquire once, with distinct owners and a wait, and the receiver
of completions (16 entries) does not overflow. In `LeaseObserver` malformed frames do
not occur. In `RpcWorker` all routes match, all requests decode and the
broker has negotiated cancellation. In `SharedSubscriptions` a connection has either the
Notice client with several patterns or several Stream or Schedule clients with one, since
the two kinds of registration have requests of their own; an UNSUBSCRIBE by pattern
concerns no other pattern; notifications are the matter of `Registrations`. In `SessionHandles` a call is made once, and the
credentials of a queue item, which the broker may check besides the id, are part of
its id.

## 8. Plan

1. Done: the modules of section 2, the runs of sections 3 and 4, the theorems of section 6.
2. Next theorems: the safety half of `LossNoticed` and `CloseWins`, that a lost lease or
   a close once noticed is not forgotten.
3. Next models: the Stream reads with their cursor fingerprint and watermark, and
   `Requests` composed with `TcpFraming`.
