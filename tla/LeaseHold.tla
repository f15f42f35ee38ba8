------------------------------- MODULE LeaseHold -------------------------------
(***************************************************************************)
(* Acquiring, renewing and releasing leases: LeaseClient::acquire with its *)
(* acquisition gate, the LeaseHandle, and the managed execution of         *)
(* with_lease_authority_with_options.  Each task acquires one lease once,  *)
(* prepared to wait, and either uses the handle itself or runs a callback  *)
(* under it.  A waiting ACQUIRE is answered "queued" and completed later   *)
(* by a frame without correlation, which is broadcast to every receiver of *)
(* its message type.  The broker is external: it owns leases, hands them   *)
(* to waiters in order, lets them expire, rotates the credential with each *)
(* renewal, and forgets a session's leases and waiters with the session.   *)
(*                                                                         *)
(* A definition X_Y stated before X is a faulty variant of X: it is what   *)
(* the properties are tried against, and no specification uses it.         *)
(***************************************************************************)
EXTENDS Integers, Sequences, FiniteSets

CONSTANTS
    Tasks,          \* callers of acquire()
    Managed,        \* the ones that run a callback through with_lease
    Routes,         \* lease routes
    Gates,          \* LeaseClients: clones share a gate, client.lease() makes one
    RouteOf, GateOf,  \* of each task
    NoTask,
    MaxToken,       \* bound on fencing tokens given out
    MaxGeneration   \* bound on lost sessions

ASSUME LeaseHoldAssumption ==
    /\ Managed \subseteq Tasks
    /\ RouteOf \in [Tasks -> Routes]
    /\ GateOf \in [Tasks -> Gates]
    /\ NoTask \notin Tasks
    /\ MaxToken \in Nat /\ MaxGeneration \in Nat

VARIABLES
    phase, generation,  \* of the connection
    gate,        \* acquisition_gate: the task that holds the mutex
    pc,          \* progress of each task
    cb,          \* its managed callback
    stamp,       \* generation its pending request carries
    reply,       \* its oneshot
    rx,          \* its receiver of LEASE_ACQUIRE notifications
    tok,         \* LeaseHandle::fencing_token, 0 before
    gen,         \* LeaseHandle::generation
    \* the broker
    holder,      \* external: owner of each route
    cred,        \* external: the credential of that ownership
    waiters,     \* external: tasks queued for each route
    inbox,       \* external: tasks whose ACQUIRE it has yet to process
    nextTok,     \* external: next fencing token
    \* history
    from,        \* the task whose grant the handle was made of
    abandoned    \* tasks whose acquire() ended before its own answer: given up,
                 \* or with the completion of another task

connVars == <<phase, generation>>
taskVars == <<pc, cb, stamp, reply, rx>>
handleVars == <<tok, gen, from>>
brokerVars == <<holder, cred, waiters, inbox, nextTok>>
vars == <<connVars, gate, taskVars, handleVars, brokerVars, abandoned>>

Tokens == 1..MaxToken
Replies == [kind : {"none", "error", "queued", "ok"}, token : Tokens \cup {0}]
Reply(kind) == [kind |-> kind, token |-> 0]
Granted(token) == [kind |-> "ok", token |-> token]
Completion == [task : Tasks, token : Tokens \cup {0}]
Holding == {"held", "renewing", "cancelled", "releasing", "dropping"}

TypeOK ==
    /\ phase \in {"live", "down"}
    /\ generation \in 0..MaxGeneration
    /\ gate \in [Gates -> Tasks \cup {NoTask}]
    /\ pc \in [Tasks -> Holding \cup {"new", "asked", "queued", "done"}]
    /\ cb \in [Tasks -> {"none", "running", "cancelled", "returned"}]
    /\ stamp \in [Tasks -> 0..MaxGeneration]
    /\ reply \in [Tasks -> Replies]
    /\ rx \in [Tasks -> Seq(Completion)]
    /\ tok \in [Tasks -> 0..MaxToken]
    /\ \A t \in Tasks : pc[t] \in Holding => tok[t] # 0
    /\ gen \in [Tasks -> 0..MaxGeneration]
    /\ holder \in [Routes -> Tasks \cup {NoTask}]
    /\ cred \in [Routes -> 0..MaxToken]
    /\ waiters \in [Routes -> Seq(Tasks)]
    /\ inbox \subseteq Tasks
    /\ nextTok \in 1..MaxToken + 1
    /\ from \in [Tasks -> Tasks \cup {NoTask}]
    /\ abandoned \subseteq Tasks

Init ==
    /\ phase = "live" /\ generation = 0
    /\ gate = [g \in Gates |-> NoTask]
    /\ pc = [t \in Tasks |-> "new"]
    /\ cb = [t \in Tasks |-> "none"]
    /\ stamp = [t \in Tasks |-> 0]
    /\ reply = [t \in Tasks |-> Reply("none")]
    /\ rx = [t \in Tasks |-> <<>>]
    /\ tok = [t \in Tasks |-> 0]
    /\ gen = [t \in Tasks |-> 0]
    /\ holder = [r \in Routes |-> NoTask]
    /\ cred = [r \in Routes |-> 0]
    /\ waiters = [r \in Routes |-> <<>>]
    /\ inbox = {}
    /\ nextTok = 1
    /\ from = [t \in Tasks |-> NoTask]
    /\ abandoned = {}

-----------------------------------------------------------------------------
(* acquire() *)

Unlocked(t) == [gate EXCEPT ![GateOf[t]] = NoTask]

\* Takes the gate, opens the receiver of completions and sends ACQUIRE.
Acquire(t) ==
    /\ pc[t] = "new"
    /\ gate[GateOf[t]] = NoTask
    /\ gate' = [gate EXCEPT ![GateOf[t]] = t]
    /\ pc' = [pc EXCEPT ![t] = "asked"]
    /\ stamp' = [stamp EXCEPT ![t] = generation]
    /\ inbox' = inbox \cup {t}
    /\ UNCHANGED <<connVars, cb, reply, rx, handleVars, holder, cred, waiters, nextTok,
                   abandoned>>

\* acquire() ends without a handle and lets go of the gate and the receiver.
Refuse(t) ==
    /\ pc' = [pc EXCEPT ![t] = "done"]
    /\ gate' = Unlocked(t)
    /\ rx' = [rx EXCEPT ![t] = <<>>]
    /\ UNCHANGED <<cb, handleVars>>

\* The handle is made: its generation is read now, after the answer.
Hold(t, token, grantee) ==
    /\ pc' = [pc EXCEPT ![t] = "held"]
    /\ cb' = [cb EXCEPT ![t] = IF t \in Managed THEN "running" ELSE "none"]
    /\ gate' = Unlocked(t)
    /\ rx' = [rx EXCEPT ![t] = <<>>]
    /\ tok' = [tok EXCEPT ![t] = token]
    /\ gen' = [gen EXCEPT ![t] = generation]
    /\ from' = [from EXCEPT ![t] = grantee]

AcquireAnswered_EarlyUnlock(t) ==
    /\ pc[t] = "asked"
    /\ reply[t].kind # "none"
    /\ reply' = [reply EXCEPT ![t] = Reply("none")]
    /\ CASE reply[t].kind = "error" -> Refuse(t)
         [] reply[t].kind = "queued" ->
              /\ pc' = [pc EXCEPT ![t] = "queued"]
              /\ gate' = Unlocked(t)
              /\ UNCHANGED <<cb, rx, handleVars>>
         [] OTHER -> Hold(t, reply[t].token, t)
    /\ UNCHANGED <<connVars, stamp, brokerVars, abandoned>>

\* The response: an error, a lease, or a place in the queue to wait in.
AcquireAnswered(t) ==
    /\ pc[t] = "asked"
    /\ reply[t].kind # "none"
    /\ reply' = [reply EXCEPT ![t] = Reply("none")]
    /\ CASE reply[t].kind = "error" -> Refuse(t)
         [] reply[t].kind = "queued" ->
              /\ pc' = [pc EXCEPT ![t] = "queued"]
              /\ UNCHANGED <<gate, cb, rx, handleVars>>
         [] OTHER -> Hold(t, reply[t].token, t)
    /\ UNCHANGED <<connVars, stamp, brokerVars, abandoned>>

\* A waiting acquire() takes the first completion that was broadcast.
RecvDeferred(t) ==
    /\ pc[t] = "queued"
    /\ rx[t] # <<>>
    /\ IF Head(rx[t]).token = 0
       THEN Refuse(t)
       ELSE Hold(t, Head(rx[t]).token, Head(rx[t]).task)
    /\ abandoned' = IF Head(rx[t]).task = t THEN abandoned ELSE abandoned \cup {t}
    /\ UNCHANGED <<connVars, stamp, reply, brokerVars>>

\* The request times out or is failed with its session, or the caller drops
\* the future; the broker may still act on it.
AbandonAcquire(t) ==
    /\ pc[t] \in {"asked", "queued"}
    /\ Refuse(t)
    /\ reply' = [reply EXCEPT ![t] = Reply("none")]
    /\ abandoned' = abandoned \cup {t}
    /\ UNCHANGED <<connVars, stamp, brokerVars>>

-----------------------------------------------------------------------------
(* The handle and the managed callback. *)

\* LeaseHandle::current().
Current(t) == gen[t] = generation

RenewalFailed_Retries(t) ==
    /\ pc' = [pc EXCEPT ![t] = "held"]
    /\ UNCHANGED cb

\* What an error of extend() does: the managed execution cancels its callback,
\* another caller keeps the handle.
RenewalFailed(t) ==
    IF t \in Managed
    THEN /\ pc' = [pc EXCEPT ![t] = "cancelled"]
         /\ cb' = [cb EXCEPT ![t] = "cancelled"]
    ELSE pc' = [pc EXCEPT ![t] = "held"] /\ UNCHANGED cb

\* extend(): by the renewal timer or by the caller.
Extend(t) ==
    /\ pc[t] = "held"
    /\ IF Current(t)
       THEN /\ pc' = [pc EXCEPT ![t] = "renewing"]
            /\ stamp' = [stamp EXCEPT ![t] = generation]
            /\ UNCHANGED cb
       ELSE RenewalFailed(t) /\ UNCHANGED stamp
    /\ UNCHANGED <<connVars, gate, reply, rx, handleVars, brokerVars, abandoned>>

\* The answer to RENEW rotates the handle's credential.
RenewAnswered(t) ==
    /\ pc[t] = "renewing"
    /\ reply[t].kind # "none"
    /\ reply' = [reply EXCEPT ![t] = Reply("none")]
    /\ IF reply[t].kind = "error"
       THEN RenewalFailed(t) /\ UNCHANGED tok
       ELSE /\ tok' = [tok EXCEPT ![t] = reply[t].token]
            /\ pc' = [pc EXCEPT ![t] = "held"]
            /\ UNCHANGED cb
    /\ UNCHANGED <<connVars, gate, stamp, rx, gen, from, brokerVars, abandoned>>

\* RENEW times out or is failed with its session: it may have been applied.
RenewUnanswered(t) ==
    /\ pc[t] = "renewing"
    /\ RenewalFailed(t)
    /\ reply' = [reply EXCEPT ![t] = Reply("none")]
    /\ UNCHANGED <<connVars, gate, stamp, rx, handleVars, brokerVars, abandoned>>

\* The callback is over, or the caller is done with its handle: release().  A
\* stale handle is refused; after a failed renewal it is only dropped.
Finish(t) ==
    /\ pc[t] \in {"held", "cancelled"}
    /\ pc' = [pc EXCEPT ![t] = CASE pc[t] = "cancelled" -> "dropping"
                                 [] pc[t] = "held" /\ Current(t) -> "releasing"
                                 [] OTHER -> "done"]
    /\ cb' = [cb EXCEPT ![t] = IF t \in Managed THEN "returned" ELSE "none"]
    /\ UNCHANGED <<connVars, gate, stamp, reply, rx, handleVars, brokerVars, abandoned>>

\* The handle is dropped, or the future of release() or of the managed execution
\* that owns it: in its own session a task is spawned to release it.
DropHandle(t) ==
    /\ pc[t] \in {"held", "releasing"} \cup (IF t \in Managed THEN {"renewing", "cancelled"} ELSE {})
    /\ pc' = [pc EXCEPT ![t] = IF Current(t) THEN "dropping" ELSE "done"]
    /\ cb' = [cb EXCEPT ![t] = IF t \in Managed THEN "returned" ELSE "none"]
    /\ reply' = [reply EXCEPT ![t] = Reply("none")]
    /\ UNCHANGED <<connVars, gate, stamp, rx, handleVars, brokerVars, abandoned>>

\* RELEASE is answered, or not: then the handle is dropped, which sends it once
\* more; the spawned release does not care.
ReleaseEnds(t) ==
    /\ pc[t] \in {"releasing", "dropping"}
    /\ \/ /\ phase = "live" /\ Current(t)
          /\ holder' = [r \in Routes |-> IF r = RouteOf[t] /\ holder[r] = t /\ cred[r] = tok[t]
                                         THEN NoTask ELSE holder[r]]
          /\ \E fails \in {TRUE, FALSE} :
                pc' = [pc EXCEPT ![t] = IF fails /\ pc[t] = "releasing"
                                        THEN "dropping" ELSE "done"]
       \/ /\ pc' = [pc EXCEPT ![t] = IF pc[t] = "releasing" /\ Current(t)
                                     THEN "dropping" ELSE "done"]
          /\ UNCHANGED holder
    /\ UNCHANGED <<connVars, gate, cb, stamp, reply, rx, handleVars, cred, waiters, inbox,
                   nextTok, abandoned>>

-----------------------------------------------------------------------------
(* The broker and the session. *)

\* ACQUIRE is processed: granted, queued or rejected.
BrokerAcquire(t) ==
    LET r == RouteOf[t] IN
    /\ phase = "live"
    /\ t \in inbox
    /\ inbox' = inbox \ {t}
    /\ \/ /\ holder[r] = NoTask /\ waiters[r] = <<>>
          /\ nextTok <= MaxToken
          /\ holder' = [holder EXCEPT ![r] = t]
          /\ cred' = [cred EXCEPT ![r] = nextTok]
          /\ nextTok' = nextTok + 1
          /\ reply' = [reply EXCEPT ![t] = IF pc[t] = "asked" THEN Granted(nextTok) ELSE @]
          /\ UNCHANGED waiters
       \/ /\ holder[r] # NoTask
          /\ waiters' = [waiters EXCEPT ![r] = Append(@, t)]
          /\ reply' = [reply EXCEPT ![t] = IF pc[t] = "asked" THEN Reply("queued") ELSE @]
          /\ UNCHANGED <<holder, cred, nextTok>>
       \/ /\ reply' = [reply EXCEPT ![t] = IF pc[t] = "asked" THEN Reply("error") ELSE @]
          /\ UNCHANGED <<holder, cred, waiters, nextTok>>
    /\ UNCHANGED <<connVars, gate, pc, cb, stamp, rx, handleVars, abandoned>>

Broadcast_LateReceiver(completion) ==
    rx' = [t \in Tasks |-> IF pc[t] = "queued"
                           THEN Append(rx[t], completion) ELSE rx[t]]

\* The completion of a queued ACQUIRE has no correlation: every acquire() that
\* has its receiver open gets it.
Broadcast(completion) ==
    rx' = [t \in Tasks |-> IF pc[t] \in {"asked", "queued"}
                           THEN Append(rx[t], completion) ELSE rx[t]]

\* The first waiter gets the lease.
BrokerDefer(r) ==
    LET t == Head(waiters[r]) IN
    /\ phase = "live"
    /\ holder[r] = NoTask
    /\ waiters[r] # <<>>
    /\ nextTok <= MaxToken
    /\ holder' = [holder EXCEPT ![r] = t]
    /\ cred' = [cred EXCEPT ![r] = nextTok]
    /\ nextTok' = nextTok + 1
    /\ waiters' = [waiters EXCEPT ![r] = Tail(@)]
    /\ Broadcast([task |-> t, token |-> nextTok])
    /\ UNCHANGED <<connVars, gate, pc, cb, stamp, reply, handleVars, inbox, abandoned>>

\* Its wait_seconds are over.
BrokerWaitEnds(r) ==
    /\ phase = "live"
    /\ waiters[r] # <<>>
    /\ waiters' = [waiters EXCEPT ![r] = Tail(@)]
    /\ Broadcast([task |-> Head(waiters[r]), token |-> 0])
    /\ UNCHANGED <<connVars, gate, pc, cb, stamp, reply, handleVars, holder, cred, inbox,
                   nextTok, abandoned>>

\* RENEW is applied if the credential is the live one.
BrokerRenew(t) ==
    LET r == RouteOf[t] IN
    /\ phase = "live"
    /\ pc[t] = "renewing"
    /\ reply[t].kind = "none"
    /\ stamp[t] = generation
    /\ IF holder[r] = t /\ cred[r] = tok[t]
       THEN /\ nextTok <= MaxToken
            /\ cred' = [cred EXCEPT ![r] = nextTok]
            /\ nextTok' = nextTok + 1
            /\ reply' = [reply EXCEPT ![t] = Granted(nextTok)]
       ELSE /\ reply' = [reply EXCEPT ![t] = Reply("error")]
            /\ UNCHANGED <<cred, nextTok>>
    /\ UNCHANGED <<connVars, gate, pc, cb, stamp, rx, handleVars, holder, waiters, inbox,
                   abandoned>>

\* The TTL of a lease runs out.
Expire(r) ==
    /\ holder[r] # NoTask
    /\ holder' = [holder EXCEPT ![r] = NoTask]
    /\ UNCHANGED <<connVars, gate, taskVars, handleVars, cred, waiters, inbox, nextTok,
                   abandoned>>

\* The session is lost, and with it its leases, waiters and requests.
Lose ==
    /\ phase = "live"
    /\ generation < MaxGeneration
    /\ phase' = "down"
    /\ generation' = generation + 1
    /\ holder' = [r \in Routes |-> NoTask]
    /\ waiters' = [r \in Routes |-> <<>>]
    /\ inbox' = {}
    /\ UNCHANGED <<gate, taskVars, handleVars, cred, nextTok, abandoned>>

Reconnect ==
    /\ phase = "down"
    /\ phase' = "live"
    /\ UNCHANGED <<generation, gate, taskVars, handleVars, brokerVars, abandoned>>

-----------------------------------------------------------------------------
Acting(t) ==
    \/ Acquire(t) \/ AcquireAnswered(t) \/ RecvDeferred(t)
    \/ Extend(t) \/ RenewAnswered(t) \/ RenewUnanswered(t) \/ ReleaseEnds(t)

Broker ==
    \/ \E t \in Tasks : BrokerAcquire(t) \/ BrokerRenew(t)
    \/ \E r \in Routes : BrokerDefer(r) \/ BrokerWaitEnds(r)

Next ==
    \/ \E t \in Tasks : Acting(t) \/ AbandonAcquire(t) \/ Finish(t) \/ DropHandle(t)
    \/ Broker
    \/ \E r \in Routes : Expire(r)
    \/ Lose \/ Reconnect

Spec == Init /\ [][Next]_vars

\* The calls of every task advance (their request timers included), a connected
\* broker works off its queues, and the supervisor reconnects.  Nobody has to
\* abandon a call, finish a callback or drop a handle.
FairSpec ==
    /\ Spec
    /\ \A t \in Tasks : WF_vars(Acting(t))
    /\ \A t \in Tasks : WF_vars(BrokerAcquire(t)) /\ WF_vars(BrokerRenew(t))
    /\ \A r \in Routes : WF_vars(BrokerWaitEnds(r))
    /\ WF_vars(Reconnect)
    /\ \A t \in Tasks : WF_vars(pc[t] = "asked" /\ stamp[t] # generation /\ AbandonAcquire(t))

-----------------------------------------------------------------------------
(* Properties. *)

\* The acquisition gate keeps the uncorrelated completions apart: a handle is
\* made of another task's grant only if that task used another gate, or its own
\* acquire() had ended already: given up, or misled in the same way.
ForeignGrantNeedsGap ==
    \A t \in Tasks : from[t] \notin {t, NoTask} =>
        GateOf[from[t]] # GateOf[t] \/ from[t] \in abandoned

\* The managed execution notices a lost lease: a callback whose lease the broker
\* has expired, passed on or lost with the session is cancelled or has returned.
LossNoticed ==
    \A t \in Managed :
        (cb[t] = "running" /\ holder[RouteOf[t]] # t) ~> cb[t] # "running"

\* A queued acquire() ends while its session lasts, with the grant, the end of
\* its wait or another task's completion: no completion is broadcast before its
\* receiver is open or dropped unseen.
WaitEndsInSession ==
    \A t \in Tasks :
        (pc[t] = "queued" /\ stamp[t] = generation)
            ~> (pc[t] # "queued" \/ stamp[t] # generation)

=============================================================================
