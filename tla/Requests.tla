-------------------------------- MODULE Requests --------------------------------
(***************************************************************************)
(* Request multiplexing over the sessions of one AsyncConnection.  Callers *)
(* (request_with_flags, send) allocate a correlation id, stamp a command   *)
(* with the current generation and push it on the bounded command channel. *)
(* The session task (run_io, run_websocket) takes commands, cancellations  *)
(* and frames one at a time and keeps the in-flight table.  The broker is  *)
(* external: it may answer any request it holds, in any order, or never.   *)
(*                                                                         *)
(* A definition X_Y stated before X is a faulty variant of X: it is what   *)
(* the properties are tried against, and no specification uses it.         *)
(***************************************************************************)
EXTENDS SessionLife, Sequences, FiniteSets

CONSTANTS
    Calls,        \* one-shot callers, each makes one call
    Sends,        \* the callers that use send(): no response is awaited
    MaxId,        \* models u64::MAX, the last correlation id
    MaxQueued,    \* capacity of the command channel, configured max_in_flight
    Advertised,   \* in-flight limits a broker may advertise in HELLO
    MaxConnects,  \* bound on Connect commands
    Connect, Close,             \* the commands that are not a call
    Free, Tombstone, NoCall     \* empty slot, canceled slot, no answer yet

ASSUME RequestsAssumption ==
    /\ Sends \subseteq Calls
    /\ MaxId \in Nat \ {0}
    /\ MaxQueued \in Nat \ {0}
    /\ Advertised \subseteq Nat \ {0}
    /\ MaxConnects \in Nat
    /\ {Connect, Close, Free, Tombstone, NoCall} \cap Calls = {}
    /\ Connect # Close
    /\ Free # Tombstone

VARIABLES
    nextId,       \* next_request_id, 0 once exhausted
    queue,        \* the mpsc command channel
    cancels,      \* the unbounded cancellation channel
    slot,         \* correlated: the waiting call of each id
    canceled,     \* ids canceled before their command was taken
    limit,        \* max_in_flight
    outstanding,  \* external: calls the broker of this session holds
    connects,     \* Connect commands sent so far
    pc,           \* progress of each caller
    id,           \* correlation id of each caller
    gen,          \* generation its command carries
    reply,        \* content of its oneshot, or the error it returned
    from,         \* history: the call whose response it received
    fromGen,      \* history: the session that response was read in
    born,         \* history: value of resets when its id was allocated
    resets        \* history: times next_request_id was set back to 1

sessionVars == <<slot, canceled, outstanding>>
callVars == <<pc, id, gen, reply, from, fromGen, born>>
vars == <<lifeVars, nextId, queue, cancels, sessionVars, limit, connects, callVars, resets>>

Ids == 1..MaxId
Commands == Calls \cup {Connect, Close}
Stages == {"new", "allocated", "waiting", "done"}
Replies == {"none", "ok", "closed", "backpressure", "oversized", "failed",
            "exhausted", "gone"}

TypeOK ==
    /\ LifeTypeOK
    /\ nextId \in 0..MaxId
    /\ queue \in Seq(Commands)
    /\ cancels \in Seq(Ids)
    /\ slot \in [Ids -> Calls \cup {Free, Tombstone}]
    /\ canceled \in SUBSET Ids
    /\ limit \in Nat \ {0}
    /\ outstanding \in SUBSET Calls
    /\ connects \in 0..MaxConnects
    /\ pc \in [Calls -> Stages]
    /\ id \in [Calls -> 0..MaxId]
    /\ gen \in [Calls -> -1..MaxGeneration]
    /\ reply \in [Calls -> Replies]
    /\ from \in [Calls -> Calls \cup {NoCall}]
    /\ fromGen \in [Calls -> -1..MaxGeneration]
    /\ born \in [Calls -> Nat]
    /\ resets \in Nat

Init ==
    /\ LifeInit
    /\ nextId = 1
    /\ queue = <<>>
    /\ cancels = <<>>
    /\ slot = [i \in Ids |-> Free]
    /\ canceled = {}
    /\ limit = MaxQueued
    /\ outstanding = {}
    /\ connects = 0
    /\ pc = [c \in Calls |-> "new"]
    /\ id = [c \in Calls |-> 0]
    /\ gen = [c \in Calls |-> -1]
    /\ reply = [c \in Calls |-> "none"]
    /\ from = [c \in Calls |-> NoCall]
    /\ fromGen = [c \in Calls |-> -1]
    /\ born = [c \in Calls |-> 0]
    /\ resets = 0

-----------------------------------------------------------------------------
(* Callers. *)

Answer_DropUnnoticed(S, kind) ==
    [c \in Calls |-> IF c \in S /\ pc[c] = "waiting" /\ kind # "gone" THEN kind ELSE reply[c]]

\* oneshot::Sender::send, or dropping the sender (kind "gone"), for the calls
\* of S: a receiver that is no longer awaited does not notice.
Answer(S, kind) ==
    [c \in Calls |-> IF c \in S /\ pc[c] = "waiting" THEN kind ELSE reply[c]]

\* A call returns without having queued anything.
FailLocally(c, kind) ==
    /\ pc' = [pc EXCEPT ![c] = "done"]
    /\ reply' = [reply EXCEPT ![c] = kind]

\* CancellationGuard::drop while armed.  send() has no guard, and nothing
\* receives once the supervisor is gone.
GuardDrop(c) ==
    cancels' = IF c \in Sends \/ phase = "stopped"
               THEN cancels ELSE Append(cancels, id[c])

NextAfter_Unbounded(i) == i + 1
NextAfter_Wraps(i) == IF i = MaxId THEN 1 ELSE i + 1
NextAfter(i) == IF i = MaxId THEN 0 ELSE i + 1

\* allocate_request_id: 0 means exhausted, the last id is not followed by 1.
Allocate(c) ==
    /\ pc[c] = "new"
    /\ \/ /\ nextId = 0
          /\ FailLocally(c, "exhausted")
          /\ UNCHANGED <<nextId, id, born>>
       \/ /\ nextId # 0
          /\ id' = [id EXCEPT ![c] = nextId]
          /\ nextId' = NextAfter(nextId)
          /\ pc' = [pc EXCEPT ![c] = "allocated"]
          /\ born' = [born EXCEPT ![c] = resets]
          /\ UNCHANGED reply
    /\ UNCHANGED <<lifeVars, queue, cancels, sessionVars, limit, connects,
                   gen, from, fromGen, resets>>

\* Reads the generation and tries to queue the command.  The two are one step:
\* a bump between them is a bump while the command waits in the channel.
Enqueue(c) ==
    /\ pc[c] = "allocated"
    /\ \/ /\ phase = "stopped"
          /\ FailLocally(c, "closed")
          /\ UNCHANGED <<queue, gen>>
       \/ /\ phase # "stopped"
          /\ Len(queue) >= MaxQueued
          /\ FailLocally(c, "backpressure")
          /\ UNCHANGED <<queue, gen>>
       \/ /\ phase # "stopped"
          /\ Len(queue) < MaxQueued
          /\ gen' = [gen EXCEPT ![c] = generation]
          /\ queue' = Append(queue, c)
          /\ pc' = [pc EXCEPT ![c] = "waiting"]
          /\ UNCHANGED reply
    /\ UNCHANGED <<lifeVars, nextId, cancels, sessionVars, limit, connects,
                   id, from, fromGen, born, resets>>

\* The caller polls its receiver and finds a value (the guard is disarmed), or
\* finds the sender dropped: ConnectionClosed, and the guard still fires.
Return(c) ==
    /\ pc[c] = "waiting"
    /\ reply[c] # "none"
    /\ pc' = [pc EXCEPT ![c] = "done"]
    /\ IF reply[c] = "gone" THEN GuardDrop(c) ELSE UNCHANGED cancels
    /\ UNCHANGED <<lifeVars, nextId, queue, sessionVars, limit, connects,
                   id, gen, reply, from, fromGen, born, resets>>

\* The request timeout elapses with no value in the receiver.
TimeOut(c) ==
    /\ pc[c] = "waiting"
    /\ reply[c] = "none"
    /\ pc' = [pc EXCEPT ![c] = "done"]
    /\ GuardDrop(c)
    /\ UNCHANGED <<lifeVars, nextId, queue, sessionVars, limit, connects,
                   id, gen, reply, from, fromGen, born, resets>>

\* The application drops the future, even with an unread value in the receiver.
DropFuture(c) ==
    /\ pc[c] = "waiting"
    /\ pc' = [pc EXCEPT ![c] = "done"]
    /\ GuardDrop(c)
    /\ UNCHANGED <<lifeVars, nextId, queue, sessionVars, limit, connects,
                   id, gen, reply, from, fromGen, born, resets>>

\* connect() queues a Connect command.  It looked at close_requested before it
\* waited for room, so a close() may have begun in between.
SendConnect ==
    /\ connects < MaxConnects
    /\ phase # "stopped"
    /\ Len(queue) < MaxQueued
    /\ queue' = Append(queue, Connect)
    /\ connects' = connects + 1
    /\ UNCHANGED <<lifeVars, nextId, cancels, sessionVars, limit, callVars, resets>>

\* close(): set close_requested and advance the generation ...
StartClose ==
    /\ RequestClose
    /\ UNCHANGED <<nextId, queue, cancels, sessionVars, limit, connects, callVars, resets>>

\* ... then queue the Close command, waiting for room until the timeout.
SendClose ==
    /\ SettleClose
    /\ IF closing' = "sent"
       THEN Len(queue) < MaxQueued /\ queue' = Append(queue, Close)
       ELSE UNCHANGED queue
    /\ UNCHANGED <<nextId, cancels, sessionVars, limit, connects, callVars, resets>>
-----------------------------------------------------------------------------
(* The supervisor outside a session. *)

\* apply_server_hello takes the smaller of the advertised limit and its own.
LowerLimit(advertised) == IF advertised < limit THEN advertised ELSE limit

\* supervise() takes a Connect command.
TakeConnectIdle ==
    /\ queue # <<>>
    /\ Head(queue) = Connect
    /\ Begin
    /\ queue' = Tail(queue)
    /\ UNCHANGED <<nextId, cancels, sessionVars, limit, connects, callVars, resets>>

\* supervise() refuses a request or send while there is no session.
TakeCallIdle ==
    /\ phase = "idle"
    /\ queue # <<>>
    /\ Head(queue) \in Calls
    /\ reply' = Answer({Head(queue)}, "closed")
    /\ queue' = Tail(queue)
    /\ UNCHANGED <<lifeVars, nextId, cancels, sessionVars, limit, connects,
                   pc, id, gen, from, fromGen, born, resets>>

\* supervise() takes Close and returns: both receivers are dropped, and with
\* them the senders inside the commands still queued.
TakeCloseIdle ==
    /\ phase = "idle"
    /\ queue # <<>>
    /\ Head(queue) = Close
    /\ FinishClose
    /\ reply' = Answer({queue[k] : k \in 2..Len(queue)}, "gone")
    /\ queue' = <<>>
    /\ cancels' = <<>>
    /\ UNCHANGED <<nextId, sessionVars, limit, connects,
                   pc, id, gen, from, fromGen, born, resets>>

\* open_session() succeeds: HELLO is applied.
OpenSession ==
    /\ Authenticate
    /\ \E advertised \in Advertised : limit' = LowerLimit(advertised)
    /\ UNCHANGED <<nextId, queue, cancels, sessionVars, connects, callVars, resets>>

\* The registrations are restored, next_request_id starts over, run_session().
StartSession ==
    /\ Serve
    /\ nextId' = 1
    /\ resets' = resets + 1
    /\ UNCHANGED <<queue, cancels, sessionVars, limit, connects, callVars>>

\* No session comes up.
GiveUp ==
    /\ Abandon
    /\ UNCHANGED <<nextId, queue, cancels, sessionVars, limit, connects, callVars, resets>>

-----------------------------------------------------------------------------
(* The session task: run_io and run_websocket share this command handling. *)

InFlight == {i \in Ids : slot[i] # Free}

\* Every waiter of the session gets kind, and the tables are dropped.
FailAll(kind) ==
    /\ reply' = Answer({slot[i] : i \in Ids}, kind)
    /\ slot' = [i \in Ids |-> Free]
    /\ canceled' = {}
    /\ outstanding' = {}

\* The head of the channel is a call and the session task takes it.
Taking(c) ==
    /\ phase = "live"
    /\ queue # <<>>
    /\ c = Head(queue)
    /\ queue' = Tail(queue)

Fresh_Unchecked(c) == TRUE
\* The generation check at the top of both arms.
Fresh(c) == gen[c] = sessionGen

\* A command of another generation is refused.
RefuseStale(c) ==
    /\ Taking(c)
    /\ ~Fresh(c)
    /\ reply' = Answer({c}, "closed")
    /\ UNCHANGED <<lifeVars, nextId, cancels, sessionVars, limit, connects,
                   pc, id, gen, from, fromGen, born, resets>>

HasRoom_OffByOne == Cardinality(InFlight) <= limit
HasRoom == Cardinality(InFlight) < limit

\* The in-flight table is full, or the frame exceeds max_message_bytes.  A request whose
\* cancellation came first has lost its sender by then.
RefuseRequest(c) ==
    /\ c \notin Sends
    /\ Taking(c)
    /\ Fresh(c)
    /\ canceled' = canceled \ {id[c]}
    /\ \/ /\ ~HasRoom
          /\ reply' = Answer({c}, IF id[c] \in canceled THEN "gone" ELSE "backpressure")
       \/ /\ HasRoom
          /\ reply' = Answer({c}, IF id[c] \in canceled THEN "gone" ELSE "oversized")
    /\ UNCHANGED <<lifeVars, nextId, cancels, slot, outstanding, limit, connects,
                   pc, id, gen, from, fromGen, born, resets>>

\* The request is entered under its id and written.  The sender is dropped if
\* a cancellation of that id came first, and so is the sender of a request
\* that still held the id.  A failed write is this step followed by LoseSession.
WriteRequest(c) ==
    /\ c \notin Sends
    /\ Taking(c)
    /\ Fresh(c)
    /\ HasRoom
    /\ canceled' = canceled \ {id[c]}
    /\ slot' = [slot EXCEPT ![id[c]] = IF id[c] \in canceled THEN Tombstone ELSE c]
    /\ reply' = Answer({slot[id[c]]} \cup (IF id[c] \in canceled THEN {c} ELSE {}), "gone")
    /\ outstanding' = outstanding \cup {c}
    /\ UNCHANGED <<lifeVars, nextId, cancels, limit, connects,
                   pc, id, gen, from, fromGen, born, resets>>

\* A send is written and its result reported; a failed write does not end the
\* session by itself.
WriteSend(c) ==
    /\ c \in Sends
    /\ Taking(c)
    /\ Fresh(c)
    /\ \E kind \in {"ok", "failed", "oversized"} :
          /\ reply' = Answer({c}, kind)
          /\ from' = [from EXCEPT ![c] = IF kind = "ok" THEN c ELSE @]
          /\ fromGen' = [fromGen EXCEPT ![c] = IF kind = "ok" THEN sessionGen ELSE @]
    /\ UNCHANGED <<lifeVars, nextId, cancels, sessionVars, limit, connects,
                   pc, id, gen, born, resets>>

\* A session that is already up answers Connect with Ok.
TakeConnectLive ==
    /\ phase = "live"
    /\ queue # <<>>
    /\ Head(queue) = Connect
    /\ queue' = Tail(queue)
    /\ UNCHANGED <<lifeVars, nextId, cancels, sessionVars, limit, connects, callVars, resets>>

\* The session takes Close: shutdown, fail_all, back to supervise().
TakeCloseLive ==
    /\ phase = "live"
    /\ queue # <<>>
    /\ Head(queue) = Close
    /\ FinishClose
    /\ queue' = Tail(queue)
    /\ FailAll("closed")
    /\ UNCHANGED <<nextId, cancels, limit, connects, pc, id, gen, from, fromGen, born, resets>>

\* A cancellation leaves a tombstone in the slot of its id, or is remembered
\* for the command that has not been taken yet.
TakeCancellation ==
    /\ phase = "live"
    /\ cancels # <<>>
    /\ cancels' = Tail(cancels)
    /\ LET i == Head(cancels) IN
       IF slot[i] # Free
       THEN /\ reply' = Answer({slot[i]}, "gone")
            /\ slot' = [slot EXCEPT ![i] = Tombstone]
            /\ UNCHANGED canceled
       ELSE /\ canceled' = canceled \cup {i}
            /\ UNCHANGED <<slot, reply>>
    /\ UNCHANGED <<lifeVars, nextId, queue, outstanding, limit, connects,
                   pc, id, gen, from, fromGen, born, resets>>

\* dispatch_correlated, final frame of the broker's answer to d: the slot of
\* the id is emptied and whoever holds it receives the payload.
ReceiveFinal(d) ==
    /\ phase = "live"
    /\ d \in outstanding
    /\ slot[id[d]] # Free
    /\ outstanding' = outstanding \ {d}
    /\ slot' = [slot EXCEPT ![id[d]] = Free]
    /\ LET o == slot[id[d]] IN
       IF o \in Calls
       THEN /\ reply' = Answer({o}, "ok")
            /\ from' = [from EXCEPT ![o] = d]
            /\ fromGen' = [fromGen EXCEPT ![o] = sessionGen]
       ELSE UNCHANGED <<reply, from, fromGen>>
    /\ UNCHANGED <<lifeVars, nextId, queue, cancels, canceled, limit, connects,
                   pc, id, gen, born, resets>>

\* dispatch_correlated, a frame that is not final: dropped.
ReceivePartial(d) ==
    /\ phase = "live"
    /\ d \in outstanding
    /\ slot[id[d]] # Free
    /\ UNCHANGED vars

\* The transport fails, a frame is refused (among them one whose id has no
\* slot), or the heartbeat expires.
LoseSession ==
    /\ Lose
    /\ FailAll("closed")
    /\ UNCHANGED <<nextId, queue, cancels, limit, connects,
                   pc, id, gen, from, fromGen, born, resets>>

-----------------------------------------------------------------------------
CallerStep(c) ==
    \/ Allocate(c) \/ Enqueue(c) \/ Return(c) \/ TimeOut(c) \/ DropFuture(c)

SessionStep(c) ==
    \/ RefuseStale(c) \/ RefuseRequest(c) \/ WriteRequest(c) \/ WriteSend(c)
    \/ ReceiveFinal(c) \/ ReceivePartial(c)

Next ==
    \/ \E c \in Calls : CallerStep(c) \/ SessionStep(c)
    \/ SendConnect \/ StartClose \/ SendClose
    \/ TakeConnectIdle \/ TakeCallIdle \/ TakeCloseIdle
    \/ OpenSession \/ StartSession \/ GiveUp
    \/ TakeConnectLive \/ TakeCloseLive \/ TakeCancellation \/ LoseSession

Spec == Init /\ [][Next]_vars

-----------------------------------------------------------------------------
\* A response is only ever read in the session its request was stamped for:
\* generation fencing keeps answers from crossing a reconnect, whatever was
\* still queued, canceled or in flight when the session was lost.
SessionFence ==
    \A c \in Calls : reply[c] = "ok" => fromGen[c] = gen[c]

\* Nobody waits for nothing: a caller whose receiver is empty is still held by
\* the command channel or by a slot of the session, so some step answers it.
NothingStranded ==
    \A c \in Calls : pc[c] = "waiting" /\ reply[c] = "none" =>
        \/ \E k \in 1..Len(queue) : queue[k] = c
        \/ \E i \in Ids : slot[i] = c

\* The session never has more ids in flight than the negotiated limit, which a
\* later HELLO may lower but only while the table is empty.
InFlightBound == Cardinality(InFlight) <= limit

\* A response handed to another caller than the one that asked needs an id
\* allocated before, and one allocated after, next_request_id was set back to
\* 1: within one numbering no id is given twice, not even when it runs out.
MisdeliveryNeedsReset ==
    \A c \in Calls : reply[c] = "ok" =>
        from[c] = c \/ born[from[c]] # born[c]

\* What the id allocator's tests and the routing of concurrent responses
\* promise: two requests the broker holds at once never share an id.
IdsNotReused ==
    \A c, d \in outstanding : id[c] = id[d] => c = d
=============================================================================
