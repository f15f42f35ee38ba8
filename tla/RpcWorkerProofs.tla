---------------------------- MODULE RpcWorkerProofs ----------------------------
(***************************************************************************)
(* Proofs about the RPC worker: which requests a lost session cancels,     *)
(* what a dropped worker leaves, and when cleanup is acknowledged, for any *)
(* number of calls, any capacities and any number of lost sessions.        *)
(***************************************************************************)
EXTENDS RpcWorker, SequenceTheorems, TLAPS

-----------------------------------------------------------------------------
(* The inductive invariant. *)

\* The places of a request that has been decoded and not yet dropped.
Decoded(c) == loc[c] \in {"taken", "inbox", "app"}

\* The receiver holds requests that have been sent and not decoded, each once.
ReceiverPlaced ==
    \A i \in 1..Len(requests) :
        /\ loc[requests[i].call] = "sent"
        /\ requests[i].gen = gen[requests[i].call]
        /\ \A j \in 1..Len(requests) : requests[i].call = requests[j].call => i = j

\* The inbox holds decoded requests that nobody has popped, each once.
InboxPlaced ==
    \A i \in 1..Len(inbox) : inbox[i] # Overflow =>
        /\ loc[inbox[i]] = "inbox"
        /\ \A j \in 1..Len(inbox) : inbox[i] = inbox[j] => i = j

\* The task holds the request that it is about to push or to refuse.
HandPlaced ==
    /\ wpc \in {"push", "reject", "rejecting"} => hand \in Calls /\ loc[hand] = "taken"
    /\ wpc = "signal" => hand \in Calls

\* A request is in one place.
Placed == ReceiverPlaced /\ InboxPlaced /\ HandPlaced

\* A decoded request whose token is not cancelled can be found among the active
\* calls, by whoever has to cancel it.
Tracked == \A c \in Calls : Decoded(c) /\ c \notin cancelled => c \in active

\* The task has not seen a session that does not exist yet; when it has handled
\* the current one, only requests of that session are alive, wherever they are.
Current ==
    /\ seen <= watched /\ watched <= generation
    /\ seen = generation /\ wpc # "changed" =>
          \A c \in Calls : Decoded(c) /\ c \notin cancelled => gen[c] = generation

\* The steps of the drop have done what they are for.
Dropped ==
    /\ handle \in {"cancelled", "closed", "done"} => \A c \in Calls : ~Held(c)
    /\ handle \in {"closed", "done"} => closed
    /\ handle = "done" => inbox = <<>>

\* An acknowledgment, spawned or sent, is for a request that is gone.
Released == \A c \in acks \cup acked : loc[c] = "gone"

WorkerInv == TypeOK /\ Placed /\ Tracked /\ Current /\ Dropped /\ Released

-----------------------------------------------------------------------------
(* Sequences. *)

\* What the receivers and the inbox do to a sequence keeps its elements in their
\* set: appending, dropping the oldest, taking one out at its position.
LEMMA QueueTypes ==
    ASSUME NEW S, NEW q \in Seq(S)
    PROVE  /\ \A x \in S : Append(q, x) \in Seq(S) /\ Len(Append(q, x)) = Len(q) + 1
           /\ q # <<>> => /\ Head(q) \in S /\ Head(q) = q[1] /\ Len(q) > 0
                          /\ Tail(q) \in Seq(S) /\ Len(Tail(q)) = Len(q) - 1
           /\ Len(q) \in Nat
<1>1. \A x \in S : Append(q, x) \in Seq(S) /\ Len(Append(q, x)) = Len(q) + 1
  OBVIOUS
<1>2. q # <<>> => /\ Head(q) \in S /\ Head(q) = q[1] /\ Len(q) > 0
                  /\ Tail(q) \in Seq(S) /\ Len(Tail(q)) = Len(q) - 1
  OBVIOUS
<1> QED  BY <1>1, <1>2

\* What remove() leaves of the inbox: every other element, in its order.
LEMMA TakenOut ==
    ASSUME NEW S, NEW q \in Seq(S), NEW i \in DOMAIN q
    PROVE  /\ RemoveAt(q, i) \in Seq(S)
           /\ Len(RemoveAt(q, i)) = Len(q) - 1
           /\ \A j \in 1..(Len(q) - 1) :
                 RemoveAt(q, i)[j] = IF j < i THEN q[j] ELSE q[j + 1]
<1> DEFINE a == SubSeq(q, 1, i - 1)
<1> DEFINE b == SubSeq(q, i + 1, Len(q))
<1>1. i \in Nat /\ 1 <= i /\ i <= Len(q) /\ Len(q) \in Nat
  OBVIOUS
<1>2. a \in Seq(S) /\ Len(a) = i - 1 /\ \A j \in 1..(i - 1) : a[j] = q[j]
  BY <1>1
<1>3. b \in Seq(S) /\ Len(b) = Len(q) - i /\ \A j \in 1..(Len(q) - i) : b[j] = q[i + j]
  BY <1>1
<1>4. RemoveAt(q, i) = a \o b
  BY DEF RemoveAt
<1> HIDE DEF a, b
<1>5. (a \o b) \in Seq(S) /\ Len(a \o b) = Len(a) + Len(b)
  <2>1. a \in Seq(S) /\ b \in Seq(S)
    BY <1>2, <1>3
  <2> QED  BY <2>1, ConcatProperties
<1>6. ASSUME NEW j \in 1..(Len(q) - 1)
      PROVE  (a \o b)[j] = IF j < i THEN q[j] ELSE q[j + 1]
  <2>1. CASE j < i
    BY <2>1, <1>1, <1>2, <1>3
  <2>2. CASE ~(j < i)
    <3>1. (a \o b)[j] = b[j - Len(a)]
      BY <2>2, <1>1, <1>2, <1>3, SMTT(30)
    <3>2. j - Len(a) \in 1..(Len(q) - i) /\ i + (j - Len(a)) = j + 1
      BY <2>2, <1>1, <1>2
    <3> QED  BY <2>2, <3>1, <3>2, <1>3
  <2> QED  BY <2>1, <2>2
<1>7. Len(a \o b) = Len(q) - 1
  BY <1>1, <1>2, <1>3, <1>5
<1> QED  BY <1>4, <1>5, <1>6, <1>7, Zenon

\* What publish() leaves in a receiver: the new element last, before it what was
\* there, from the second on if the receiver was full.
LEMMA PublishedQueue ==
    ASSUME NEW S, NEW q \in Seq(S), Len(q) <= Buffer, NEW x \in S
    PROVE  /\ Published(q, x) \in Seq(S)
           /\ Len(Published(q, x)) \in 1..Buffer
           /\ Len(Published(q, x)) = (IF Len(q) < Buffer THEN Len(q) + 1 ELSE Len(q))
           /\ Published(q, x)[Len(Published(q, x))] = x
           /\ \A j \in 1..(Len(Published(q, x)) - 1) :
                 Published(q, x)[j] = IF Len(q) < Buffer THEN q[j] ELSE q[j + 1]
<1>1. CASE Len(q) < Buffer
  BY <1>1, RpcWorkerAssumption DEF Published
<1>2. CASE ~(Len(q) < Buffer)
  <2>1. Len(q) = Buffer /\ Len(q) \in Nat \ {0}
    BY <1>2, RpcWorkerAssumption
  <2>2. q # <<>>
    BY <2>1
  <2> DEFINE t == Tail(q)
  <2>3. /\ t \in Seq(S) /\ Len(t) = Len(q) - 1
        /\ \A j \in 1..(Len(q) - 1) : t[j] = q[j + 1]
    BY <2>2
  <2>4. Published(q, x) = Append(t, x)
    BY <1>2 DEF Published
  <2> HIDE DEF t
  <2>5. /\ Append(t, x) \in Seq(S) /\ Len(Append(t, x)) = Len(t) + 1
        /\ Append(t, x)[Len(t) + 1] = x
        /\ \A j \in 1..Len(t) : Append(t, x)[j] = t[j]
    BY <2>3
  <2> QED  BY <1>2, <2>1, <2>3, <2>4, <2>5
<1> QED  BY <1>1, <1>2

-----------------------------------------------------------------------------
(* Types. *)

\* What is queued are calls in the inbox.
LEMMA QueuedCalls == TypeOK => Queued \subseteq Calls
BY DEF TypeOK, Queued, ToSet

\* A request or an overflow goes into an inbox that has room.
LEMMA InboxTakes ==
    ASSUME NEW q \in Seq(Calls \cup {Overflow}), Len(q) < Capacity,
           NEW x \in Calls \cup {Overflow}
    PROVE  Append(q, x) \in Seq(Calls \cup {Overflow}) /\ Len(Append(q, x)) <= Capacity
BY QueueTypes, RpcWorkerAssumption

\* The task's steps keep the types of what they touch.
LEMMA WorkerTypes == TypeOK /\ Placed /\ Worker => TypeOK'
<1> SUFFICES ASSUME TypeOK, Placed, Worker PROVE TypeOK'
  OBVIOUS
<1> USE DEF TypeOK, connVars, taskVars, inboxVars, handleVars, requestVars, brokerVars, history
<1>1. CASE WorkerHead
  BY <1>1 DEF WorkerHead
<1>2. CASE CancelActive
  BY <1>2 DEF CancelActive
<1>3. CASE ClearInbox
  <2>1. inbox' \in Seq(Calls \cup {Overflow}) /\ Len(inbox') <= Capacity
    BY <1>3, RpcWorkerAssumption DEF ClearInbox
  <2>2. Queued \subseteq Calls
    BY QueuedCalls
  <2> QED  BY <1>3, <2>1, <2>2 DEF ClearInbox, Cleanup
<1>4. CASE PollRequests
  <2>1. CASE ~lagged /\ requests = <<>>
    BY <1>4, <2>1 DEF PollRequests
  <2>2. CASE lagged
    <3>1. inbox' \in Seq(Calls \cup {Overflow}) /\ Len(inbox') <= Capacity
      <4>1. inbox' = inbox \/ (Len(inbox) < Capacity /\ inbox' = Append(inbox, Overflow))
        BY <1>4, <2>2 DEF PollRequests, HasRoom
      <4> QED  BY <4>1, InboxTakes
    <3> QED  BY <1>4, <2>2, <3>1 DEF PollRequests
  <2>3. CASE ~lagged /\ requests # <<>>
    <3>1. /\ Head(requests).call \in Calls
          /\ Tail(requests) \in Seq([call : Calls, gen : Generations])
          /\ Len(Tail(requests)) <= Buffer
      <4>1. /\ Head(requests) \in [call : Calls, gen : Generations]
            /\ Tail(requests) \in Seq([call : Calls, gen : Generations])
            /\ Len(Tail(requests)) = Len(requests) - 1 /\ Len(requests) \in Nat
        BY <2>3, QueueTypes
      <4> QED  BY <4>1, RpcWorkerAssumption
    <3> QED  BY <1>4, <2>3, <3>1 DEF PollRequests
  <2> QED  BY <2>1, <2>2, <2>3
<1>5. CASE Push
  <2>1. inbox' \in Seq(Calls \cup {Overflow}) /\ Len(inbox') <= Capacity
    <3>1. inbox' = inbox \/ (Len(inbox) < Capacity /\ inbox' = Append(inbox, hand))
      BY <1>5 DEF Push, HasRoom
    <3>2. hand \in Calls \cup {Overflow}
      BY <1>5 DEF Push, Placed, HandPlaced
    <3> QED  BY <3>1, <3>2, InboxTakes
  <2>2. /\ loc' \in [Calls -> {"new", "sent", "taken", "inbox", "app", "gone"}]
        /\ wpc' \in {"head", "reject"} /\ hand' \in {hand, NoCall}
    BY <1>5 DEF Push, Placed, HandPlaced
  <2>3. UNCHANGED <<connVars, seen, requests, lagged, lifecycle, closed, active,
                    cancelled, handleVars, gen, step, finished, acks, brokerVars, history>>
    BY <1>5 DEF Push
  <2> QED  BY <2>1, <2>2, <2>3
<1>6. CASE Reject
  BY <1>6 DEF Reject, Cleanup, Placed, HandPlaced
<1>7. CASE RejectSend
  BY <1>7 DEF RejectSend, Send, Cleanup, Placed, HandPlaced
<1>8. CASE PollLifecycle
  <2>1. CASE lifecycle = <<>>
    BY <1>8, <2>1 DEF PollLifecycle
  <2>2. CASE lifecycle # <<>>
    <3>1. Head(lifecycle) \in Calls /\ Tail(lifecycle) \in Seq(Calls) /\ Len(Tail(lifecycle)) <= Buffer
      BY <2>2, RpcWorkerAssumption
    <3>2. ASSUME TakeOut(Head(lifecycle))
          PROVE  /\ inbox' \in Seq(Calls \cup {Overflow}) /\ Len(inbox') <= Capacity
                 /\ loc' \in [Calls -> {"new", "sent", "taken", "inbox", "app", "gone"}]
                 /\ active' \subseteq Calls /\ acks' \subseteq Calls
      <4>1. PICK i \in DOMAIN inbox : inbox' = RemoveAt(inbox, i)
        BY <3>2 DEF TakeOut
      <4>2. inbox' \in Seq(Calls \cup {Overflow}) /\ Len(inbox') = Len(inbox) - 1
        BY <4>1, TakenOut
      <4> QED  BY <3>1, <3>2, <4>2, RpcWorkerAssumption DEF TakeOut, Cleanup
    <3> QED  BY <1>8, <2>2, <3>1, <3>2, ZenonT(40) DEF PollLifecycle
  <2> QED  BY <2>1, <2>2
<1>9. CASE Signal
  BY <1>9 DEF Signal, Placed, HandPlaced
<1>10. CASE Stop
  BY <1>10 DEF Stop
<1> QED  BY <1>1, <1>2, <1>3, <1>4, <1>5, <1>6, <1>7, <1>8, <1>9, <1>10 DEF Worker

\* So do the steps of the application, of the drop, of the broker and of the
\* session.
LEMMA TypesKept == TypeOK /\ Placed /\ Next => TypeOK'
<1> SUFFICES ASSUME TypeOK, Placed, Next PROVE TypeOK'
  OBVIOUS
<1>1. CASE Worker
  BY <1>1, WorkerTypes
<1> USE DEF TypeOK, connVars, taskVars, inboxVars, handleVars, requestVars, brokerVars, history
<1>2. CASE DropShutdown
  BY <1>2 DEF DropShutdown
<1>3. CASE DropCancel
  BY <1>3 DEF DropCancel
<1>4. CASE DropClose \/ Deregister
  BY <1>4, ZenonT(40) DEF DropClose, Deregister
<1>5. CASE DropClear
  <2>1. inbox' \in Seq(Calls \cup {Overflow}) /\ Len(inbox') <= Capacity
    BY <1>5, RpcWorkerAssumption DEF DropClear
  <2>2. Queued \subseteq Calls
    BY QueuedCalls
  <2> QED  BY <1>5, <2>1, <2>2 DEF DropClear, Cleanup
<1>6. CASE AppPoll
  <2>1. /\ Head(inbox) \in Calls \cup {Overflow}
        /\ inbox' \in Seq(Calls \cup {Overflow}) /\ Len(inbox') <= Capacity
    BY <1>6, QueueTypes, RpcWorkerAssumption DEF AppPoll
  <2> QED  BY <1>6, <2>1 DEF AppPoll
<1>7. CASE Lose
  <2>1. generation' \in Generations
    BY <1>7, RpcWorkerAssumption DEF Lose, Generations
  <2> QED  BY <1>7, <2>1, ZenonT(40) DEF Lose
<1>8. CASE AnnounceGeneration
  BY <1>8 DEF AnnounceGeneration
<1>9. CASE Reconnect
  <2>1. subscribed' \in BOOLEAN
    BY <1>9, Zenon DEF Reconnect
  <2>2. phase' = "live" /\ UNCHANGED <<generation, watched, taskVars, inboxVars, active,
            cancelled, handleVars, requestVars, acks, told, acked, history>>
    BY <1>9 DEF Reconnect
  <2> QED  BY <2>1, <2>2
<1>10. ASSUME NEW c \in Calls, NEW end \in BOOLEAN, Respond(c, end) PROVE TypeOK'
  BY <1>10 DEF Respond
<1>11. ASSUME NEW c \in Calls, RespondSend(c) \/ Release(c) \/ BudgetExpires(c) \/ SendAck(c)
      PROVE  TypeOK'
  BY <1>11 DEF RespondSend, Send, Release, Cleanup, BudgetExpires, SendAck
<1>12. ASSUME NEW c \in Calls, Dispatch(c) PROVE TypeOK'
  <2> DEFINE r == [call |-> c, gen |-> generation]
  <2>1. r \in [call : Calls, gen : Generations]
    OBVIOUS
  <2>2. requests' = Published(requests, r)
    BY <1>12 DEF Dispatch
  <2> HIDE DEF r
  <2>3. requests' \in Seq([call : Calls, gen : Generations]) /\ Len(requests') <= Buffer
    <3>1. /\ Published(requests, r) \in Seq([call : Calls, gen : Generations])
          /\ Len(Published(requests, r)) \in 1..Buffer
      BY <2>1, PublishedQueue
    <3> QED  BY <2>2, <3>1
  <2> QED  BY <1>12, <2>3 DEF Dispatch
<1>13. ASSUME NEW c \in Calls, CancelCall(c) PROVE TypeOK'
  <2>1. lifecycle' \in Seq(Calls) /\ Len(lifecycle') <= Buffer
    BY <1>13, PublishedQueue, RpcWorkerAssumption DEF CancelCall
  <2>2. Len(lifecycle) >= Buffer => Head(lifecycle) \in Calls
    BY RpcWorkerAssumption
  <2>3. missed' \subseteq Calls
    BY <1>13, <2>2, RpcWorkerAssumption DEF CancelCall
  <2> QED  BY <1>13, <2>1, <2>3 DEF CancelCall
<1> QED  BY <1>1, <1>2, <1>3, <1>4, <1>5, <1>6, <1>7, <1>8, <1>9,
            <1>10, <1>11, <1>12, <1>13 DEF Next, Drop

-----------------------------------------------------------------------------
(* What a step does to one request. *)

\* A request only moves on: from the receiver to the task, to the inbox, to the
\* application, and out of being.  It is popped while the worker is not dropped.
Moved(c) ==
    \/ loc'[c] = loc[c]
    \/ loc[c] = "new" /\ loc'[c] = "sent"
    \/ loc[c] = "sent" /\ loc'[c] = "taken" /\ gen[c] = generation /\ c \in active'
       /\ generation' = generation /\ requests' # requests
    \/ loc[c] = "taken" /\ loc'[c] = "inbox"
    \/ loc[c] = "inbox" /\ loc'[c] = "app" /\ handle' = "open"
    \/ Decoded(c) /\ loc'[c] = "gone"

\* It is forgotten only when it is cancelled or gone, a cancellation stays, its
\* session is the one it was dispatched in, and what is acknowledged is gone.
Followed(c) ==
    /\ c \in cancelled => c \in cancelled'
    /\ c \in active => c \in active' \/ c \in cancelled' \/ loc'[c] = "gone"
    /\ gen'[c] = gen[c] \/ loc[c] = "new"
    /\ c \in acks' \cup acked' => c \in acks \cup acked \/ loc'[c] = "gone"

\* Dropping the requests S moves them out and acknowledges no other.
LEMMA CleanupStep ==
    ASSUME TypeOK, NEW S \in SUBSET Calls, Cleanup(S), \A c \in S : Decoded(c),
           UNCHANGED <<gen, cancelled, acked>>
    PROVE  \A c \in Calls : Moved(c) /\ Followed(c)
BY DEF TypeOK, Cleanup, Moved, Followed, Decoded

\* Every step moves and follows every request.
LEMMA RequestStep ==
    ASSUME TypeOK, Placed, Next
    PROVE  \A c \in Calls : Moved(c) /\ Followed(c)
<1> USE DEF Moved, Followed
<1> DEFINE Done == \A c \in Calls : Moved(c) /\ Followed(c)
<1>1. ASSUME UNCHANGED <<loc, gen, active, acks, acked>>, cancelled \subseteq cancelled'
      PROVE  Done
  BY <1>1
<1>2. CASE WorkerHead \/ Signal \/ Stop \/ DropShutdown \/ DropCancel \/ DropClose
           \/ Deregister \/ Lose \/ AnnounceGeneration \/ Reconnect
  BY <1>1, <1>2 DEF WorkerHead, Signal, Stop, DropShutdown, DropCancel, DropClose,
       Deregister, Lose, AnnounceGeneration, Reconnect, requestVars, brokerVars
<1>3. CASE \E c \in Calls : (\E end \in BOOLEAN : Respond(c, end)) \/ RespondSend(c)
                              \/ BudgetExpires(c) \/ CancelCall(c)
  BY <1>1, <1>3 DEF Respond, RespondSend, BudgetExpires, CancelCall, requestVars, brokerVars
<1>4. CASE CancelActive
  BY <1>4 DEF CancelActive, requestVars, brokerVars
<1>5. CASE ClearInbox \/ DropClear
  <2>1. Queued \in SUBSET Calls /\ \A c \in Queued : Decoded(c)
    BY QueuedCalls DEF Placed, InboxPlaced, Queued, ToSet, Decoded, TypeOK
  <2>2. Cleanup(Queued) /\ UNCHANGED <<gen, cancelled, acked>>
    BY <1>5 DEF ClearInbox, DropClear, brokerVars
  <2> QED  BY <2>1, <2>2, CleanupStep
<1>6. CASE PollRequests
  <2>1. CASE UNCHANGED <<loc, active>>
    BY <1>1, <1>6, <2>1 DEF PollRequests, brokerVars
  <2>2. CASE ~UNCHANGED <<loc, active>>
    <3> DEFINE r == Head(requests)
    <3>1. requests # <<>> /\ r.gen = generation /\ active' = active \cup {r.call}
          /\ loc' = [loc EXCEPT ![r.call] = "taken"]
      BY <1>6, <2>2 DEF PollRequests
    <3>2. r = requests[1] /\ 1 \in 1..Len(requests) /\ r \in [call : Calls, gen : Generations]
      <4>1. requests \in Seq([call : Calls, gen : Generations])
        BY DEF TypeOK
      <4>2. /\ Head(requests) \in [call : Calls, gen : Generations]
            /\ Head(requests) = requests[1] /\ Len(requests) > 0 /\ Len(requests) \in Nat
        BY <3>1, <4>1, QueueTypes
      <4> QED  BY <4>2
    <3> HIDE DEF r
    <3>3. r.call \in Calls /\ loc[r.call] = "sent" /\ gen[r.call] = generation
      BY <3>1, <3>2 DEF Placed, ReceiverPlaced
    <3>4. UNCHANGED <<generation, gen, cancelled, acks, acked>>
      BY <1>6 DEF PollRequests, connVars, brokerVars
    <3>5. requests' # requests
      <4>1. Len(Tail(requests)) = Len(requests) - 1 /\ Len(requests) \in Nat
        BY <3>1, QueueTypes DEF TypeOK
      <4>2. requests' = Tail(requests)
        BY <1>6, <2>2 DEF PollRequests
      <4> QED  BY <4>1, <4>2
    <3> QED  BY <3>1, <3>3, <3>4, <3>5 DEF TypeOK
  <2> QED  BY <2>1, <2>2
<1>7. CASE Push
  BY <1>1, <1>7 DEF Push, Placed, HandPlaced, TypeOK, brokerVars
<1>8. CASE Reject \/ RejectSend
  <2>1. hand \in Calls /\ Decoded(hand)
    BY <1>8 DEF Reject, RejectSend, Placed, HandPlaced, Decoded
  <2>2. UNCHANGED <<gen, cancelled, acked>>
    BY <1>8 DEF Reject, RejectSend, brokerVars
  <2>3. CASE Cleanup({hand})
    BY <2>1, <2>2, <2>3, CleanupStep
  <2>4. CASE UNCHANGED <<loc, active, acks>>
    BY <1>1, <2>2, <2>4
  <2> QED  BY <1>8, <2>3, <2>4 DEF Reject, RejectSend
<1>9. CASE PollLifecycle
  <2>1. UNCHANGED <<gen, cancelled, acked>>
    BY <1>9 DEF PollLifecycle, brokerVars
  <2>2. CASE UNCHANGED <<loc, active, acks>>
    BY <1>1, <2>1, <2>2
  <2>3. CASE lifecycle # <<>> /\ TakeOut(Head(lifecycle))
    <3>1. Head(lifecycle) \in Calls
      BY <2>3 DEF TypeOK
    <3>2. PICK i \in DOMAIN inbox : inbox[i] = Head(lifecycle)
      BY <2>3 DEF TakeOut
    <3>3. Decoded(Head(lifecycle))
      BY <3>1, <3>2, RpcWorkerAssumption DEF TypeOK, Placed, InboxPlaced, Decoded
    <3> QED  BY <2>1, <2>3, <3>1, <3>3, CleanupStep DEF TakeOut
  <2> QED  BY <1>9, <2>2, <2>3 DEF PollLifecycle
<1>10. CASE AppPoll
  <2>1. /\ Head(inbox) = inbox[1] /\ 1 \in 1..Len(inbox)
        /\ Head(inbox) \in Calls \cup {Overflow}
    BY <1>10 DEF AppPoll, TypeOK
  <2>2. Head(inbox) # Overflow => Head(inbox) \in Calls /\ loc[Head(inbox)] = "inbox"
    BY <2>1 DEF Placed, InboxPlaced
  <2>3. handle' = "open" /\ UNCHANGED <<gen, active, cancelled, acks, acked>>
    BY <1>10 DEF AppPoll, handleVars, brokerVars
  <2>4. loc' = IF Head(inbox) = Overflow THEN loc ELSE [loc EXCEPT ![Head(inbox)] = "app"]
    BY <1>10 DEF AppPoll
  <2> QED  BY <2>2, <2>3, <2>4 DEF TypeOK
<1>11. ASSUME NEW c \in Calls, Release(c) PROVE Done
  BY <1>11, CleanupStep DEF Release, Decoded, brokerVars
<1>12. ASSUME NEW c \in Calls, SendAck(c) PROVE Done
  BY <1>12 DEF SendAck, requestVars
<1>13. ASSUME NEW c \in Calls, Dispatch(c) PROVE Done
  BY <1>13 DEF Dispatch, TypeOK, brokerVars
<1> QED  BY <1>2, <1>3, <1>4, <1>5, <1>6, <1>7, <1>8, <1>9, <1>10, <1>11, <1>12, <1>13
         DEF Next, Worker, Drop

-----------------------------------------------------------------------------
(* A request is in one place. *)

\* Only a dispatch and the decoding of the oldest request change the receiver
\* or move what is in it.
LEMMA ReceiverKept == TypeOK /\ Placed /\ Next => ReceiverPlaced'
<1> SUFFICES ASSUME TypeOK, Placed, Next PROVE ReceiverPlaced'
  OBVIOUS
<1> DEFINE Req == [call : Calls, gen : Generations]
<1>1. requests \in Seq(Req) /\ requests' \in Seq(Req)
  BY TypesKept DEF TypeOK
<1> HIDE DEF Req
<1>2. \A i \in 1..Len(requests) : requests[i] \in Req
  BY <1>1
<1>3. \A c \in Calls : Moved(c) /\ Followed(c)
  BY RequestStep
<1>4. CASE UNCHANGED requests
  <2>1. \A c \in Calls : loc[c] = "sent" => loc'[c] = "sent" /\ gen'[c] = gen[c]
    BY <1>3, <1>4 DEF Moved, Followed, Decoded
  <2>2. \A i \in 1..Len(requests) : requests[i].call \in Calls
    BY <1>2 DEF Req
  <2> QED  BY <1>4, <2>1, <2>2 DEF Placed, ReceiverPlaced
<1>5. CASE PollRequests /\ ~lagged /\ requests # <<>>
  <2>1. /\ requests' = Tail(requests)
        /\ Len(Tail(requests)) = Len(requests) - 1
        /\ \A i \in 1..(Len(requests) - 1) : Tail(requests)[i] = requests[i + 1]
        /\ Head(requests) = requests[1] /\ 1 \in 1..Len(requests)
    BY <1>1, <1>5 DEF PollRequests
  <2>2. /\ gen' = gen
        /\ \A c \in Calls : c # requests[1].call => loc'[c] = loc[c]
    BY <1>5, <2>1 DEF PollRequests, TypeOK
  <2>3. SUFFICES ASSUME NEW i \in 1..(Len(requests) - 1)
                 PROVE  /\ loc'[requests[i + 1].call] = "sent"
                        /\ requests[i + 1].gen = gen[requests[i + 1].call]
                        /\ \A j \in 1..(Len(requests) - 1) :
                              requests[i + 1].call = requests[j + 1].call => i = j
    BY <2>1, <2>2 DEF ReceiverPlaced
  <2>4. Len(requests) \in Nat /\ i + 1 \in 1..Len(requests) /\ i + 1 # 1
        /\ \A j \in 1..(Len(requests) - 1) : j + 1 \in 1..Len(requests) /\ (i + 1 = j + 1 => i = j)
    BY <1>1
  <2>5. requests[i + 1].call \in Calls /\ requests[i + 1].call # requests[1].call
    BY <1>2, <2>1, <2>4 DEF Placed, ReceiverPlaced, Req
  <2> QED  BY <2>2, <2>4, <2>5 DEF Placed, ReceiverPlaced
<1>6. ASSUME NEW c \in Calls, Dispatch(c) PROVE ReceiverPlaced'
  <2> DEFINE r == [call |-> c, gen |-> generation]
  <2> DEFINE n == Len(requests')
  <2>1. r \in Req /\ r.call = c /\ r.gen = generation
    BY DEF TypeOK, Req
  <2>2. /\ loc[c] = "new"
        /\ loc' = [loc EXCEPT ![c] = "sent"] /\ gen' = [gen EXCEPT ![c] = generation]
        /\ requests' = Published(requests, r)
    BY <1>6 DEF Dispatch
  <2> HIDE DEF r
  <2>3. PICK k \in {0, 1} :
           /\ n \in 1..Buffer /\ requests'[n] = r
           /\ n - 1 + k <= Len(requests)
           /\ \A j \in 1..(n - 1) : requests'[j] = requests[j + k]
    <3>1. Len(requests) <= Buffer /\ Len(requests) \in Nat
      BY <1>1 DEF TypeOK
    <3>2. /\ n \in 1..Buffer
          /\ n = (IF Len(requests) < Buffer THEN Len(requests) + 1 ELSE Len(requests))
          /\ requests'[n] = r
          /\ \A j \in 1..(n - 1) :
                requests'[j] = IF Len(requests) < Buffer THEN requests[j] ELSE requests[j + 1]
      <4> DEFINE p == Published(requests, r)
      <4>1. /\ Len(p) \in 1..Buffer
            /\ Len(p) = (IF Len(requests) < Buffer THEN Len(requests) + 1 ELSE Len(requests))
            /\ p[Len(p)] = r
            /\ \A j \in 1..(Len(p) - 1) :
                  p[j] = IF Len(requests) < Buffer THEN requests[j] ELSE requests[j + 1]
        BY <1>1, <2>1, <3>1, PublishedQueue, ZenonT(40)
      <4> QED  BY <2>2, <4>1
    <3> HIDE DEF n
    <3>3. CASE Len(requests) < Buffer
      BY <3>1, <3>2, <3>3, RpcWorkerAssumption
    <3>4. CASE ~(Len(requests) < Buffer)
      BY <3>1, <3>2, <3>4, RpcWorkerAssumption
    <3> QED  BY <3>3, <3>4
  <2>4. \A j \in 1..(n - 1) :
           /\ j + k \in 1..Len(requests)
           /\ requests'[j].call \in Calls /\ requests'[j].call # c
           /\ loc'[requests'[j].call] = "sent"
           /\ requests'[j].gen = gen'[requests'[j].call]
           /\ \A m \in 1..(n - 1) : requests'[j].call = requests'[m].call => j = m
    <3>1. ASSUME NEW j \in 1..(n - 1)
          PROVE  j + k \in 1..Len(requests) /\ requests'[j] = requests[j + k]
      BY <1>1, <2>3
    <3>2. ASSUME NEW j \in 1..(n - 1)
          PROVE  /\ requests'[j].call \in Calls /\ requests'[j].call # c
                 /\ loc'[requests'[j].call] = "sent"
                 /\ requests'[j].gen = gen'[requests'[j].call]
      <4>1. requests[j + k].call \in Calls /\ loc[requests[j + k].call] = "sent"
            /\ requests[j + k].gen = gen[requests[j + k].call]
        BY <1>2, <3>1 DEF Placed, ReceiverPlaced, Req
      <4> QED  BY <2>2, <3>1, <4>1 DEF TypeOK
    <3>3. ASSUME NEW j \in 1..(n - 1), NEW m \in 1..(n - 1), requests'[j].call = requests'[m].call
          PROVE  j = m
      <4>1. j + k = m + k
        BY <3>1, <3>3 DEF Placed, ReceiverPlaced
      <4> QED  BY <2>3, <4>1
    <3> QED  BY <3>1, <3>2, <3>3
  <2>5. requests'[n].call = c /\ loc'[c] = "sent" /\ requests'[n].gen = gen'[c]
    BY <2>1, <2>2, <2>3 DEF TypeOK
  <2>6. \A j \in 1..n : j = n \/ j \in 1..(n - 1)
    BY <2>3
  <2> HIDE DEF n
  <2>7. \A i \in 1..n :
           /\ loc'[requests'[i].call] = "sent"
           /\ requests'[i].gen = gen'[requests'[i].call]
           /\ \A j \in 1..n : requests'[i].call = requests'[j].call => i = j
    BY <2>4, <2>5, <2>6
  <2> QED  BY <2>7 DEF ReceiverPlaced, n
<1>7. CASE PollRequests /\ (lagged \/ requests = <<>>)
  BY <1>4, <1>7 DEF PollRequests
<1>8. CASE Worker /\ ~PollRequests
  BY <1>4, <1>8 DEF Worker, WorkerHead, CancelActive, ClearInbox, Push, Reject, RejectSend,
       PollLifecycle, Signal, Stop
<1>9. CASE Drop \/ AppPoll \/ Deregister \/ Lose \/ AnnounceGeneration \/ Reconnect
  BY <1>4, <1>9 DEF Drop, DropShutdown, DropCancel, DropClose, DropClear, AppPoll, Deregister,
       Lose, AnnounceGeneration, Reconnect, taskVars
<1>10. ASSUME NEW c \in Calls,
              \/ \E end \in BOOLEAN : Respond(c, end)
              \/ RespondSend(c) \/ Release(c) \/ BudgetExpires(c) \/ SendAck(c) \/ CancelCall(c)
       PROVE  ReceiverPlaced'
  BY <1>4, <1>10 DEF Respond, RespondSend, Release, BudgetExpires, SendAck, CancelCall, taskVars
<1> QED  BY <1>5, <1>6, <1>7, <1>8, <1>9, <1>10 DEF Next, Worker

\* The task pushes what it has in hand, and what leaves the inbox is popped or
\* dropped.
LEMMA InboxKept == TypeOK /\ Placed /\ Next => InboxPlaced'
<1> SUFFICES ASSUME TypeOK, Placed, Next PROVE InboxPlaced'
  OBVIOUS
<1> DEFINE Item == Calls \cup {Overflow}
<1>1. inbox \in Seq(Item) /\ inbox' \in Seq(Item)
  BY TypesKept DEF TypeOK
<1>2. /\ Len(inbox) \in Nat /\ \A i \in 1..Len(inbox) : inbox[i] \in Item
      /\ \A i \in 1..Len(inbox) : inbox[i] # Overflow => loc[inbox[i]] = "inbox"
      /\ \A i, j \in 1..Len(inbox) : inbox[i] # Overflow /\ inbox[i] = inbox[j] => i = j
  BY <1>1 DEF Placed, InboxPlaced
<1>3. ASSUME UNCHANGED inbox, \A c \in Calls : loc[c] = "inbox" => loc'[c] = "inbox"
      PROVE  InboxPlaced'
  BY <1>2, <1>3 DEF InboxPlaced
<1>4. ASSUME inbox' = <<>> PROVE InboxPlaced'
  BY <1>4 DEF InboxPlaced
<1>5. ASSUME NEW x \in Item, inbox' = Append(inbox, x),
             \A c \in Calls : loc[c] = "inbox" => c # x /\ loc'[c] = "inbox",
             x # Overflow => loc'[x] = "inbox"
      PROVE  InboxPlaced'
  <2>1. /\ Len(inbox') = Len(inbox) + 1 /\ inbox'[Len(inbox) + 1] = x
        /\ \A i \in 1..Len(inbox) : inbox'[i] = inbox[i]
    BY <1>1, <1>5
  <2>2. \A i \in 1..(Len(inbox) + 1) : i = Len(inbox) + 1 \/ i \in 1..Len(inbox)
    BY <1>2
  <2>3. \A i \in 1..Len(inbox) : inbox[i] # Overflow => inbox[i] # x /\ loc'[inbox[i]] = "inbox"
    BY <1>2, <1>5
  <2> QED  BY <1>2, <1>5, <2>1, <2>2, <2>3 DEF InboxPlaced
<1>6. CASE AppPoll
  <2>1. /\ inbox' = Tail(inbox) /\ Len(inbox') = Len(inbox) - 1
        /\ Head(inbox) = inbox[1] /\ 1 \in 1..Len(inbox)
        /\ \A i \in 1..(Len(inbox) - 1) : inbox'[i] = inbox[i + 1]
    BY <1>1, <1>6 DEF AppPoll
  <2>2. \A c \in Calls : c # inbox[1] => loc'[c] = loc[c]
    BY <1>6, <2>1 DEF AppPoll, TypeOK
  <2>3. SUFFICES ASSUME NEW i \in 1..(Len(inbox) - 1), inbox[i + 1] # Overflow
                 PROVE  /\ loc'[inbox[i + 1]] = "inbox"
                        /\ \A j \in 1..(Len(inbox) - 1) : inbox[i + 1] = inbox[j + 1] => i = j
    BY <2>1 DEF InboxPlaced
  <2>4. /\ i + 1 \in 1..Len(inbox) /\ i + 1 # 1
        /\ \A j \in 1..(Len(inbox) - 1) : j + 1 \in 1..Len(inbox) /\ (i + 1 = j + 1 => i = j)
    BY <1>2
  <2>5. inbox[i + 1] \in Calls /\ inbox[i + 1] # inbox[1]
    BY <1>2, <2>1, <2>3, <2>4
  <2> QED  BY <1>2, <2>2, <2>3, <2>4, <2>5
<1>7. ASSUME NEW c \in Calls, TakeOut(c) PROVE InboxPlaced'
  <2>1. PICK i \in DOMAIN inbox : inbox[i] = c /\ inbox' = RemoveAt(inbox, i)
    BY <1>7 DEF TakeOut
  <2>2. /\ Len(inbox') = Len(inbox) - 1 /\ i \in 1..Len(inbox)
        /\ \A j \in 1..(Len(inbox) - 1) : inbox'[j] = IF j < i THEN inbox[j] ELSE inbox[j + 1]
    BY <1>1, <2>1, TakenOut
  <2>3. \A d \in Calls : d # c => loc'[d] = loc[d]
    BY <1>7 DEF TakeOut, Cleanup
  <2> DEFINE at(j) == IF j < i THEN j ELSE j + 1
  <2>4. /\ \A j \in 1..(Len(inbox) - 1) : at(j) \in 1..Len(inbox) /\ at(j) # i /\ inbox'[j] = inbox[at(j)]
        /\ \A j, m \in 1..(Len(inbox) - 1) : at(j) = at(m) => j = m
    BY <1>2, <2>2
  <2> HIDE DEF at
  <2>5. SUFFICES ASSUME NEW j \in 1..(Len(inbox) - 1), inbox'[j] # Overflow
                 PROVE  /\ loc'[inbox'[j]] = "inbox"
                        /\ \A m \in 1..(Len(inbox) - 1) : inbox'[j] = inbox'[m] => j = m
    BY <2>2 DEF InboxPlaced
  <2>6. inbox'[j] \in Calls /\ inbox'[j] # c /\ loc[inbox'[j]] = "inbox"
    BY <1>2, <2>1, <2>2, <2>4, <2>5
  <2>7. \A m \in 1..(Len(inbox) - 1) : inbox'[j] = inbox'[m] => at(j) = at(m)
    BY <1>2, <2>4, <2>5
  <2> QED  BY <2>3, <2>4, <2>6, <2>7
<1>8. CASE ClearInbox \/ DropClear
  BY <1>4, <1>8 DEF ClearInbox, DropClear
<1>9. CASE PollRequests
  <2>1. \A c \in Calls : loc[c] = "inbox" => loc'[c] = "inbox"
    <3>1. \A c \in Calls : Moved(c)
      BY RequestStep
    <3>2. \A c \in Calls : loc'[c] \in {loc[c], "taken"}
      BY <1>9 DEF PollRequests, TypeOK
    <3> QED  BY <3>1, <3>2 DEF Moved
  <2>2. UNCHANGED inbox \/ inbox' = Append(inbox, Overflow)
    BY <1>9 DEF PollRequests
  <2> QED  BY <1>3, <1>5, <2>1, <2>2, RpcWorkerAssumption
<1>10. CASE Push
  <2>1. hand \in Calls /\ loc[hand] = "taken"
    BY <1>10 DEF Push, Placed, HandPlaced
  <2>2. CASE HasRoom
    <3>1. inbox' = Append(inbox, hand) /\ loc' = [loc EXCEPT ![hand] = "inbox"]
      BY <1>10, <2>2 DEF Push
    <3>2. loc'[hand] = "inbox" /\ \A c \in Calls : loc[c] = "inbox" => c # hand /\ loc'[c] = "inbox"
      BY <2>1, <3>1 DEF TypeOK
    <3> QED  BY <1>5, <2>1, <3>1, <3>2
  <2>3. CASE ~HasRoom
    BY <1>3, <1>10, <2>3 DEF Push
  <2> QED  BY <2>2, <2>3
<1>11. CASE Reject \/ RejectSend
  <2>1. hand \in Calls /\ loc[hand] = "taken"
    BY <1>11 DEF Reject, RejectSend, Placed, HandPlaced
  <2>2. UNCHANGED inbox /\ (UNCHANGED loc \/ Cleanup({hand}))
    BY <1>11 DEF Reject, RejectSend, inboxVars
  <2> QED  BY <1>3, <2>1, <2>2 DEF Cleanup
<1>12. CASE PollLifecycle
  <2>1. lifecycle # <<>> => Head(lifecycle) \in Calls
    BY DEF TypeOK
  <2> QED  BY <1>3, <1>7, <1>12, <2>1 DEF PollLifecycle
<1>13. CASE WorkerHead \/ CancelActive \/ Signal \/ Stop
            \/ DropShutdown \/ DropCancel \/ DropClose
            \/ Deregister \/ Lose \/ AnnounceGeneration \/ Reconnect
  BY <1>3, <1>13 DEF WorkerHead, CancelActive, Signal, Stop, DropShutdown, DropCancel, DropClose,
       Deregister, Lose, AnnounceGeneration, Reconnect, requestVars, inboxVars
<1>14. ASSUME NEW c \in Calls, (\E end \in BOOLEAN : Respond(c, end)) \/ RespondSend(c)
                \/ BudgetExpires(c) \/ SendAck(c) \/ CancelCall(c)
       PROVE  InboxPlaced'
  BY <1>3, <1>14 DEF Respond, RespondSend, BudgetExpires, SendAck, CancelCall, requestVars, inboxVars
<1>15. ASSUME NEW c \in Calls, Release(c) \/ Dispatch(c) PROVE InboxPlaced'
  BY <1>3, <1>15 DEF Release, Cleanup, Dispatch, inboxVars, TypeOK
<1> QED  BY <1>6, <1>8, <1>9, <1>10, <1>11, <1>12, <1>13, <1>14, <1>15 DEF Next, Worker, Drop

\* Nobody but the task takes the request out of its hand.
LEMMA HandKept == TypeOK /\ Placed /\ Next => HandPlaced'
<1> SUFFICES ASSUME TypeOK, Placed, Next PROVE HandPlaced'
  OBVIOUS
<1>1. ASSUME UNCHANGED <<wpc, hand>>, \A c \in Calls : loc[c] = "taken" => loc'[c] = "taken"
      PROVE  HandPlaced'
  BY <1>1 DEF Placed, HandPlaced
<1>2. ASSUME wpc' \notin {"push", "reject", "rejecting", "signal"} PROVE HandPlaced'
  BY <1>2 DEF HandPlaced
<1>3. CASE WorkerHead \/ CancelActive \/ ClearInbox \/ RejectSend \/ Signal \/ Stop
  BY <1>2, <1>3 DEF WorkerHead, CancelActive, ClearInbox, RejectSend, Signal, Stop
<1>4. CASE PollRequests
  <2>1. CASE wpc' # "push"
    BY <1>2, <1>4, <2>1 DEF PollRequests
  <2>2. CASE wpc' = "push"
    <3>1. /\ requests # <<>> /\ hand' = Head(requests).call
          /\ loc' = [loc EXCEPT ![Head(requests).call] = "taken"]
      BY <1>4, <2>2 DEF PollRequests
    <3>2. Head(requests) \in [call : Calls, gen : Generations]
      BY <3>1, QueueTypes DEF TypeOK
    <3>3. Head(requests).call \in Calls
      BY <3>2
    <3> QED  BY <2>2, <3>1, <3>3 DEF HandPlaced, TypeOK
  <2> QED  BY <2>1, <2>2
<1>5. CASE Push \/ Reject
  BY <1>5 DEF Push, Reject, Placed, HandPlaced
<1>6. CASE PollLifecycle
  <2>1. lifecycle # <<>> => Head(lifecycle) \in Calls
    BY DEF TypeOK
  <2>2. wpc' = "head" \/ (wpc' = "signal" /\ lifecycle # <<>> /\ hand' = Head(lifecycle))
    BY <1>6 DEF PollLifecycle
  <2> QED  BY <2>1, <2>2 DEF HandPlaced
<1>7. CASE DropShutdown \/ DropCancel \/ DropClose \/ Deregister \/ Lose
           \/ AnnounceGeneration \/ Reconnect
  BY <1>1, <1>7 DEF DropShutdown, DropCancel, DropClose, Deregister, Lose, AnnounceGeneration,
       Reconnect, taskVars, requestVars
<1>8. CASE AppPoll
  <2>1. Head(inbox) = inbox[1] /\ 1 \in 1..Len(inbox)
    BY <1>8 DEF AppPoll, TypeOK
  <2>2. \A c \in Calls : loc[c] = "taken" => loc'[c] = "taken"
    BY <1>8, <2>1 DEF AppPoll, Placed, InboxPlaced, TypeOK
  <2> QED  BY <1>1, <1>8, <2>2 DEF AppPoll, taskVars
<1>9. CASE DropClear
  <2>1. \A c \in Queued : loc[c] = "inbox"
    BY DEF Queued, ToSet, Placed, InboxPlaced, TypeOK
  <2> QED  BY <1>1, <1>9, <2>1 DEF DropClear, Cleanup, taskVars
<1>10. ASSUME NEW c \in Calls, (\E end \in BOOLEAN : Respond(c, end)) \/ RespondSend(c)
                \/ BudgetExpires(c) \/ SendAck(c) \/ CancelCall(c)
       PROVE  HandPlaced'
  BY <1>1, <1>10 DEF Respond, RespondSend, BudgetExpires, SendAck, CancelCall, taskVars, requestVars
<1>11. ASSUME NEW c \in Calls, Release(c) \/ Dispatch(c) PROVE HandPlaced'
  BY <1>1, <1>11 DEF Release, Cleanup, Dispatch, taskVars, TypeOK
<1> QED  BY <1>3, <1>4, <1>5, <1>6, <1>7, <1>8, <1>9, <1>10, <1>11 DEF Next, Worker, Drop

-----------------------------------------------------------------------------
(* Sessions and the drop. *)

\* The task has handled the session that is current.
UpToDate == seen = generation /\ wpc # "changed"

\* It comes up to date only by cancelling the active calls, and no session begins
\* that it has seen before.
LEMMA SessionStep ==
    ASSUME TypeOK, Current, Next
    PROVE  /\ seen' <= watched' /\ watched' <= generation'
           /\ UpToDate' => \/ UpToDate /\ generation' = generation
                           \/ CancelActive
<1> USE DEF UpToDate
<1>1. generation \in Nat /\ watched \in Nat /\ seen \in Nat
  BY RpcWorkerAssumption DEF TypeOK, Generations
<1>2. ASSUME UNCHANGED <<seen, watched, generation>>, wpc' # "changed" => wpc # "changed"
      PROVE  /\ seen' <= watched' /\ watched' <= generation'
             /\ UpToDate' => UpToDate /\ generation' = generation
  BY <1>2 DEF Current
<1>3. CASE WorkerHead
  BY <1>1, <1>3 DEF WorkerHead, Current, connVars
<1>4. CASE CancelActive
  BY <1>4 DEF CancelActive, Current, connVars
<1>5. CASE ClearInbox \/ PollRequests \/ Push \/ Reject \/ RejectSend \/ PollLifecycle
           \/ Signal \/ Stop
  BY <1>2, <1>5 DEF ClearInbox, PollRequests, Push, Reject, RejectSend, PollLifecycle,
       Signal, Stop, connVars
<1>6. CASE Lose
  BY <1>1, <1>6 DEF Lose, Current, taskVars
<1>7. CASE AnnounceGeneration
  BY <1>1, <1>7 DEF AnnounceGeneration, Current, taskVars
<1>8. CASE Drop \/ AppPoll \/ Deregister \/ Reconnect
  BY <1>2, <1>8 DEF Drop, DropShutdown, DropCancel, DropClose, DropClear, AppPoll, Deregister,
       Reconnect, connVars, taskVars
<1>9. ASSUME NEW c \in Calls
      PROVE  (\/ \E end \in BOOLEAN : Respond(c, end)
              \/ RespondSend(c) \/ Release(c) \/ BudgetExpires(c) \/ SendAck(c)
              \/ Dispatch(c) \/ CancelCall(c))
             => UNCHANGED <<seen, watched, generation, wpc>>
  BY DEF Respond, RespondSend, Release, BudgetExpires, SendAck, Dispatch, CancelCall,
     connVars, taskVars
<1> QED  BY <1>2, <1>3, <1>4, <1>5, <1>6, <1>7, <1>8, <1>9 DEF Next, Worker

\* The steps of the drop come in their order, a closed inbox stays closed, and an
\* empty one that is closed stays empty.
LEMMA DropStep ==
    ASSUME TypeOK, Next
    PROVE  /\ handle' \in {"cancelled", "closed", "done"} =>
                 handle \in {"cancelled", "closed", "done"} \/ DropCancel
           /\ handle' \in {"closed", "done"} => handle \in {"closed", "done"} \/ closed'
           /\ handle' = "done" => handle = "done" \/ inbox' = <<>>
           /\ closed => closed'
           /\ closed /\ inbox = <<>> => inbox' = <<>>
<1>1. ASSUME UNCHANGED <<inbox, closed, handle>>
      PROVE  /\ UNCHANGED handle
             /\ closed => closed'
             /\ closed /\ inbox = <<>> => inbox' = <<>>
  BY <1>1
<1>2. CASE DropShutdown \/ DropCancel \/ Deregister
  BY <1>2 DEF DropShutdown, DropCancel, Deregister, inboxVars, TypeOK
<1>3. CASE DropClose \/ DropClear
  BY <1>3 DEF DropClose, DropClear, TypeOK
<1>4. CASE Worker
  <2>1. UNCHANGED handle /\ (closed => closed')
    BY <1>4 DEF Worker, WorkerHead, CancelActive, ClearInbox, PollRequests, Push, Reject,
         RejectSend, PollLifecycle, Signal, Stop, handleVars, inboxVars
  <2>2. ASSUME closed, inbox = <<>> PROVE inbox' = <<>>
    <3>1. \A c : ~TakeOut(c)
      BY <2>2 DEF TakeOut
    <3> QED  BY <1>4, <2>2, <3>1 DEF Worker, WorkerHead, CancelActive, ClearInbox, PollRequests,
               Push, HasRoom, Reject, RejectSend, PollLifecycle, Signal, Stop, inboxVars
  <2> QED  BY <2>1, <2>2
<1>5. CASE AppPoll
  BY <1>5 DEF AppPoll, handleVars
<1>6. CASE Lose \/ AnnounceGeneration \/ Reconnect
  BY <1>1, <1>6 DEF Lose, AnnounceGeneration, Reconnect, handleVars, inboxVars
<1>7. ASSUME NEW c \in Calls
      PROVE  (\/ \E end \in BOOLEAN : Respond(c, end)
              \/ RespondSend(c) \/ Release(c) \/ BudgetExpires(c) \/ SendAck(c)
              \/ Dispatch(c) \/ CancelCall(c))
             => UNCHANGED <<inbox, closed, handle>>
  BY DEF Respond, RespondSend, Release, BudgetExpires, SendAck, Dispatch, CancelCall,
     handleVars, inboxVars
<1> QED  BY <1>1, <1>2, <1>3, <1>4, <1>5, <1>6, <1>7 DEF Next, Drop

-----------------------------------------------------------------------------
(* The invariant. *)

\* A worker just registered has nothing to account for.
LEMMA WorkerStarts == Init => WorkerInv
<1> SUFFICES ASSUME Init PROVE WorkerInv
  OBVIOUS
<1>1. TypeOK
  <2>1. 0 \in Generations
    BY RpcWorkerAssumption DEF Generations
  <2>2. /\ requests \in Seq([call : Calls, gen : Generations]) /\ Len(requests) <= Buffer
        /\ lifecycle \in Seq(Calls) /\ Len(lifecycle) <= Buffer
        /\ inbox \in Seq(Calls \cup {Overflow}) /\ Len(inbox) <= Capacity
    BY RpcWorkerAssumption DEF Init
  <2> QED  BY <2>1, <2>2 DEF Init, TypeOK
<1>2. Placed
  BY DEF Init, Placed, ReceiverPlaced, InboxPlaced, HandPlaced
<1>3. Tracked /\ Current /\ Dropped /\ Released
  BY DEF Init, Tracked, Current, Dropped, Released, Decoded, Held
<1> QED  BY <1>1, <1>2, <1>3 DEF WorkerInv

\* Every step of anybody keeps the account.
LEMMA WorkerKept == WorkerInv /\ [Next]_vars => WorkerInv'
<1> SUFFICES ASSUME WorkerInv, [Next]_vars PROVE WorkerInv'
  OBVIOUS
<1>1. CASE UNCHANGED vars
  BY <1>1 DEF WorkerInv, vars, connVars, taskVars, inboxVars, handleVars, requestVars, brokerVars, history,
       TypeOK, Placed, ReceiverPlaced, InboxPlaced, HandPlaced, Tracked, Current, Dropped,
       Released, Decoded, Held
<1>2. CASE Next
  <2>1. TypeOK' /\ Placed'
    BY <1>2, TypesKept, ReceiverKept, InboxKept, HandKept DEF WorkerInv, Placed
  <2>2. \A c \in Calls : Moved(c) /\ Followed(c)
    BY <1>2, RequestStep DEF WorkerInv
  <2>3. Tracked'
    BY <2>2 DEF WorkerInv, Tracked, Moved, Followed, Decoded
  <2>4. Current'
    <3>1. /\ seen' <= watched' /\ watched' <= generation'
          /\ UpToDate' => \/ UpToDate /\ generation' = generation
                          \/ CancelActive
      BY <1>2, SessionStep DEF WorkerInv
    <3>2. CASE UpToDate /\ generation' = generation
      BY <2>2, <3>1, <3>2 DEF WorkerInv, Current, UpToDate, Moved, Followed, Decoded
    <3>3. CASE CancelActive
      BY <3>1, <3>3 DEF CancelActive, WorkerInv, Tracked, Current, UpToDate, Decoded, requestVars
    <3> QED  BY <3>1, <3>2, <3>3 DEF Current, UpToDate
  <2>5. Dropped'
    <3>1. /\ handle' \in {"cancelled", "closed", "done"} =>
                handle \in {"cancelled", "closed", "done"} \/ DropCancel
          /\ handle' \in {"closed", "done"} => handle \in {"closed", "done"} \/ closed'
          /\ handle' = "done" => handle = "done" \/ inbox' = <<>>
          /\ closed => closed'
          /\ closed /\ inbox = <<>> => inbox' = <<>>
      BY <1>2, DropStep DEF WorkerInv
    <3>2. ASSUME handle' \in {"cancelled", "closed", "done"}, NEW c \in Calls PROVE ~Held(c)'
      <4>1. CASE DropCancel
        BY <4>1 DEF DropCancel, WorkerInv, Tracked, Decoded, Held, requestVars
      <4>2. CASE handle \in {"cancelled", "closed", "done"}
        BY <2>2, <3>2, <4>2 DEF WorkerInv, Dropped, Held, Moved, Followed
      <4> QED  BY <3>1, <3>2, <4>1, <4>2
    <3> QED  BY <3>1, <3>2 DEF WorkerInv, Dropped
  <2>6. Released'
    BY <2>1, <2>2 DEF WorkerInv, TypeOK, Released, Moved, Followed, Decoded
  <2> QED  BY <2>1, <2>3, <2>4, <2>5, <2>6 DEF WorkerInv
<1> QED  BY <1>1, <1>2

\* The account of requests, active calls, sessions and acknowledgments holds in
\* every state of the worker.
LEMMA WorkerAlways == Spec => []WorkerInv
<1>1. Init => WorkerInv
  BY WorkerStarts
<1>2. WorkerInv /\ [Next]_vars => WorkerInv'
  BY WorkerKept
<1> QED  BY <1>1, <1>2, PTL DEF Spec

-----------------------------------------------------------------------------
(* The theorems. *)

\* Once the task has handled a new session, the application holds no live request
\* of an earlier one: nothing that was decoded, pushed or popped while the
\* generation changed escapes the cancellation.
THEOREM LostRequestsCancelled == Spec => []LostContextsCancelled
<1>1. WorkerInv => LostContextsCancelled
  BY DEF WorkerInv, Current, LostContextsCancelled, Held, Decoded
<1> QED  BY <1>1, WorkerAlways, PTL

\* A dropped worker leaves an empty inbox and no live request, although its task
\* may be anywhere in its loop while the four steps of the drop run.
THEOREM DropCleansUp == Spec => []DropLeavesNothing
<1>1. WorkerInv => DropLeavesNothing
  BY DEF WorkerInv, Dropped, DropLeavesNothing
<1> QED  BY <1>1, WorkerAlways, PTL

\* Cleanup is acknowledged to the broker only for a request that nobody holds.
THEOREM AckedAreReleased == Spec => []AckMeansReleased
<1>1. WorkerInv => AckMeansReleased
  BY DEF WorkerInv, Released, AckMeansReleased
<1> QED  BY <1>1, WorkerAlways, PTL
================================================================================
