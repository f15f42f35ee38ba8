---------------------------- MODULE SessionHandles ----------------------------
(***************************************************************************)
(* What an application holds of a session: reserved Queue items, KV        *)
(* transactions and Stream sessions, and the calls it makes on them; and   *)
(* the two retry loops, of reads bound to a generation and of an enqueue.  *)
(*                                                                         *)
(* A grant is known to the broker by an id that means something only in    *)
(* the session that gave it.  A handle keeps the generation it read when   *)
(* the grant was decoded, each call compares it with the current one, and  *)
(* the request is stamped later, when it is queued: three readings of a    *)
(* counter that another thread moves.  A request is written only in the    *)
(* session of its stamp (SessionFence of module Requests).  The broker is  *)
(* external: it takes requests in any order and may reject any of them.    *)
(*                                                                         *)
(* A definition X_Y stated before X is a faulty variant of X: it is what   *)
(* the properties are tried against, and no specification uses it.         *)
(***************************************************************************)
EXTENDS Integers, FiniteSets

CONSTANTS
    Handles,        \* what is granted
    Calls,          \* one-shot calls on a handle, or an enqueue
    NoHandle,       \* the handle of an enqueue
    MaxAttempts,    \* RetryPolicy::maximum_attempts
    MaxGeneration   \* bound on lost sessions

ASSUME HandlesAssumption ==
    /\ NoHandle \notin Handles
    /\ MaxAttempts \in Nat \ {0}
    /\ MaxGeneration \in Nat

VARIABLES
    gen,       \* AsyncConnection::generation()
    kind,      \* what each handle is
    stage,     \* progress of the call that begins or reserves it
    stamp,     \* QueueItem, KvTransaction, StreamSession::generation
    state,     \* QueueItem::state: 0 reserved, 1 settling, 2 settled
    call,      \* the locals of each call
    out,       \* external: requests on their way to the broker
    grant,     \* external: the session each handle was asked of, and its id there
    applied,   \* history: which handle a request meant and which it met
    admitted   \* history: messages each enqueue put in the queue

handleVars == <<kind, stage, stamp, state>>
brokerVars == <<out, grant, applied, admitted>>
vars == <<gen, handleVars, call, brokerVars>>

Generations == 0..MaxGeneration
Kinds == {"item", "transaction", "stream"}
Ops == {"extend", "settle", "read", "write", "append", "finish", "enqueue"}
Ids == 1..Cardinality(Handles)
Call ==
    [pc : {"new", "checked", "ready", "sent", "backoff", "done"},
     on : Handles \cup {NoHandle},
     op : Ops,
     attempt : 1..MaxAttempts,
     checked : Generations,    \* the generation its last check saw
     answer : {"none", "ok", "rejected", "indeterminate", "refused",
               "unknown", "stale", "failed"}]
NewCall == [pc |-> "new", on |-> NoHandle, op |-> "enqueue", attempt |-> 1,
            checked |-> 0, answer |-> "none"]
Request == [call : Calls, attempt : 1..MaxAttempts, checked : Generations, stamp : Generations]

TypeOK ==
    /\ gen \in Generations
    /\ kind \in [Handles -> Kinds]
    /\ stage \in [Handles -> {"new", "asked", "granted", "open", "gone"}]
    /\ stamp \in [Handles -> Generations]
    /\ state \in [Handles -> 0..2]
    /\ call \in [Calls -> Call]
    /\ out \subseteq Request
    /\ grant \in [Handles -> [session : -1..MaxGeneration, id : Ids \cup {0}]]
    /\ applied \subseteq [meant : Handles, met : Handles, checked : Generations, stamp : Generations]
    /\ admitted \in [Calls -> Nat]

Init ==
    /\ gen = 0
    /\ kind \in [Handles -> Kinds]
    /\ stage = [h \in Handles |-> "new"]
    /\ stamp = [h \in Handles |-> 0]
    /\ state = [h \in Handles |-> 0]
    /\ call = [c \in Calls |-> NewCall]
    /\ out = {}
    /\ grant = [h \in Handles |-> [session |-> -1, id |-> 0]]
    /\ applied = {}
    /\ admitted = [c \in Calls |-> 0]

-----------------------------------------------------------------------------
(* Handles: reserve() and the two begin(). *)

\* The request is queued, stamped with the generation of that moment.
Begin(h) ==
    /\ stage[h] = "new"
    /\ stage' = [stage EXCEPT ![h] = "asked"]
    /\ grant' = [grant EXCEPT ![h].session = gen]
    /\ UNCHANGED <<gen, kind, stamp, state, call, out, applied, admitted>>

\* The broker grants it under an id that is fresh in this session.
Grant(h) ==
    /\ stage[h] = "asked"
    /\ grant[h].session = gen
    /\ stage' = [stage EXCEPT ![h] = "granted"]
    /\ \E i \in Ids :
          /\ \A k \in Handles : grant[k] # [session |-> gen, id |-> i]
          /\ grant' = [grant EXCEPT ![h].id = i]
    /\ UNCHANGED <<gen, kind, stamp, state, call, out, applied, admitted>>

\* The caller wakes up with the response and reads the generation now.
Granted(h) ==
    /\ stage[h] = "granted"
    /\ stage' = [stage EXCEPT ![h] = "open"]
    /\ stamp' = [stamp EXCEPT ![h] = gen]
    /\ UNCHANGED <<gen, kind, state, call, brokerVars>>

\* An error status, a timeout, a lost session, or the call was dropped.
BeginFails(h) ==
    /\ stage[h] \in {"asked", "granted"}
    /\ stage' = [stage EXCEPT ![h] = "gone"]
    /\ UNCHANGED <<gen, kind, stamp, state, call, brokerVars>>

-----------------------------------------------------------------------------
(* Calls. *)

\* QueueItem, KvTransaction and StreamSession methods: extend; complete and
\* nack; get and scan; put, insert, delete and delete_range; append; commit
\* and rollback.
OpsOf(k) ==
    CASE k = "item" -> {"extend", "settle"}
      [] k = "transaction" -> {"read", "write", "finish"}
      [] k = "stream" -> {"append", "finish"}

\* append takes &mut self, commit and rollback take self: the compiler keeps
\* every other call on the handle from running beside them.
Exclusive == {"append", "finish"}
Users(h) == {c \in Calls : call[c].on = h /\ call[c].pc \notin {"new", "done"}}
Borrowable(h, o) ==
    IF o \in Exclusive THEN Users(h) = {} ELSE \A c \in Users(h) : call[c].op \notin Exclusive

Current_AnySession(h) == state[h] = 0

\* ensure_current, ensure_open, current.
Current(h) == stamp[h] = gen /\ state[h] = 0

\* A method is called and makes its check.  A settling call goes on to claim
\* the item, a scan of an empty range returns at once, a finished handle is
\* consumed whatever becomes of the call.
Start(c, h, o) ==
    /\ call[c].pc = "new"
    /\ stage[h] = "open"
    /\ o \in OpsOf(kind[h])
    /\ Borrowable(h, o)
    /\ stage' = IF o = "finish" THEN [stage EXCEPT ![h] = "gone"] ELSE stage
    /\ LET entered == [NewCall EXCEPT !.on = h, !.op = o] IN
       \/ /\ Current(h)
          /\ call' = [call EXCEPT ![c] =
                         [entered EXCEPT !.checked = gen,
                                         !.pc = IF o = "settle" THEN "checked" ELSE "ready"]]
       \/ /\ Current(h) /\ o = "read"
          /\ call' = [call EXCEPT ![c] = [entered EXCEPT !.pc = "done", !.answer = "ok"]]
       \/ /\ ~Current(h)
          /\ call' = [call EXCEPT ![c] = [entered EXCEPT !.pc = "done", !.answer = "stale"]]
    /\ UNCHANGED <<gen, kind, stamp, state, brokerVars>>

\* enqueue() holds no handle.
StartEnqueue(c) ==
    /\ call[c].pc = "new"
    /\ call' = [call EXCEPT ![c].pc = "ready"]
    /\ UNCHANGED <<gen, handleVars, brokerVars>>

\* CompletionGuard::drop: an item that was not acknowledged is released.
GuardDrop(v) == IF v = 1 THEN 0 ELSE v

\* The call returns with a; settling is acknowledged before the guard drops.
End(c, a) ==
    /\ call' = [call EXCEPT ![c] = [NewCall EXCEPT !.pc = "done", !.on = call[c].on,
                                                   !.op = call[c].op, !.answer = a]]
    /\ state' = IF call[c].op = "settle" /\ call[c].pc # "checked"
                THEN [state EXCEPT ![call[c].on] = GuardDrop(IF a = "ok" THEN 2 ELSE @)]
                ELSE state

Claim_Unconditional(c) ==
    /\ call[c].pc = "checked"
    /\ call' = [call EXCEPT ![c].pc = "ready"]
    /\ state' = [state EXCEPT ![call[c].on] = 1]
    /\ UNCHANGED <<gen, kind, stage, stamp, brokerVars>>

\* compare_exchange(0, 1) in complete() and nack(); the guard is armed.
Claim(c) ==
    /\ call[c].pc = "checked"
    /\ \/ /\ state[call[c].on] = 0
          /\ call' = [call EXCEPT ![c].pc = "ready"]
          /\ state' = [state EXCEPT ![call[c].on] = 1]
       \/ /\ state[call[c].on] # 0
          /\ End(c, "stale")
    /\ UNCHANGED <<gen, kind, stage, stamp, brokerVars>>

\* request_with_flags() queues the command with the generation of this moment.
Send(c) ==
    /\ call[c].pc = "ready"
    /\ call' = [call EXCEPT ![c].pc = "sent"]
    /\ out' = out \cup {[call |-> c, attempt |-> call[c].attempt,
                         checked |-> call[c].checked, stamp |-> gen]}
    /\ UNCHANGED <<gen, handleVars, grant, applied, admitted>>

\* The loop sleeps before the next attempt.
BackOff(c) ==
    /\ call[c].attempt < MaxAttempts
    /\ call' = [call EXCEPT ![c].pc = "backoff", ![c].attempt = @ + 1, ![c].answer = "none"]
    /\ UNCHANGED state

Retryable_AnyEffect(a) == a \in {"rejected", "indeterminate"}

\* is_retryable of a decoded rejection: only one that had no effect.
Retryable(a) == a = "rejected"

\* The response is decoded.  request_confirmed_negative tries an enqueue again
\* only after a rejection, everything else is returned.
Return(c) ==
    LET again == call[c].op = "enqueue" /\ Retryable(call[c].answer) IN
    /\ call[c].pc = "sent"
    /\ call[c].answer # "none"
    /\ \/ again /\ BackOff(c)
       \/ (again => call[c].attempt = MaxAttempts) /\ End(c, call[c].answer)
    /\ UNCHANGED <<gen, kind, stage, stamp, brokerVars>>

\* request_replayable_in_generation: a timeout, a lost session or a full queue
\* lets a read try again while its generation is current.
ReadFails(c) ==
    /\ call[c].op = "read"
    /\ call[c].pc \in {"ready", "sent"}
    /\ call[c].answer = "none"
    /\ call[c].attempt < MaxAttempts
    /\ IF stamp[call[c].on] = gen THEN BackOff(c) ELSE End(c, "stale")
    /\ UNCHANGED <<gen, kind, stage, stamp, brokerVars>>

\* The next attempt, which a read begins by comparing generations again.
Retry(c) ==
    /\ call[c].pc = "backoff"
    /\ \/ /\ call[c].op = "read" => stamp[call[c].on] = gen
          /\ call' = [call EXCEPT ![c].pc = "ready", ![c].checked = gen]
          /\ UNCHANGED state
       \/ /\ call[c].op = "read" /\ stamp[call[c].on] # gen
          /\ End(c, "stale")
    /\ UNCHANGED <<gen, kind, stage, stamp, brokerVars>>

\* Any other error: nothing was sent (the queue is full, ids are exhausted, the
\* capability is missing), or the outcome is unknown (a timeout, a lost session,
\* the caller drops the future).
Fails(c) ==
    /\ call[c].pc \in {"checked", "ready", "sent", "backoff"}
    /\ End(c, IF call[c].pc = "sent" THEN "unknown" ELSE "failed")
    /\ UNCHANGED <<gen, kind, stage, stamp, brokerVars>>

-----------------------------------------------------------------------------
(* The broker and the session. *)

\* The response completes the attempt that asked, if it is still awaited.
Respond(r, a) ==
    /\ r \in out
    /\ r.stamp = gen
    /\ out' = out \ {r}
    /\ call' = IF call[r.call].pc = "sent" /\ call[r.call].attempt = r.attempt
               THEN [call EXCEPT ![r.call].answer = a] ELSE call
    /\ UNCHANGED <<gen, handleVars, grant>>

\* The request is carried out on whatever has its id in this session.
Apply(r) ==
    LET meant == call[r.call].on IN
    /\ meant # NoHandle
    /\ \E k \in Handles :
          /\ grant[k] = [session |-> gen, id |-> grant[meant].id]
          /\ applied' = applied \cup {[meant |-> meant, met |-> k,
                                       checked |-> r.checked, stamp |-> r.stamp]}
    /\ Respond(r, "ok")
    /\ UNCHANGED admitted

\* The message is queued; a broker that cannot tell says so (effect not 0).
Admit(r) ==
    /\ call[r.call].on = NoHandle
    /\ admitted' = [admitted EXCEPT ![r.call] = @ + 1]
    /\ \E a \in {"ok", "indeterminate"} : Respond(r, a)
    /\ UNCHANGED applied

\* The request has no effect.
Reject(r) ==
    /\ \E a \in IF call[r.call].on = NoHandle
                THEN {"rejected", "refused", "indeterminate"} ELSE {"refused"} : Respond(r, a)
    /\ UNCHANGED <<applied, admitted>>

\* The session is lost and the generation moves on; requests stamped for it
\* are never written to another.
Lost ==
    /\ gen < MaxGeneration
    /\ gen' = gen + 1
    /\ out' = {}
    /\ UNCHANGED <<handleVars, call, grant, applied, admitted>>

Next ==
    \/ \E h \in Handles : Begin(h) \/ Grant(h) \/ Granted(h) \/ BeginFails(h)
    \/ \E c \in Calls :
          \/ \E h \in Handles, o \in Ops : Start(c, h, o)
          \/ StartEnqueue(c) \/ Claim(c) \/ Send(c)
          \/ Return(c) \/ ReadFails(c) \/ Retry(c) \/ Fails(c)
    \/ \E r \in out : Apply(r) \/ Admit(r) \/ Reject(r)
    \/ Lost

Spec == Init /\ [][Next]_vars

-----------------------------------------------------------------------------
(* Properties. *)

Settles(c, h) == call[c].on = h /\ call[c].op = "settle"
Settling(h) == {c \in Calls : Settles(c, h) /\ call[c].pc \in {"ready", "sent"}}
Settled(h) == {c \in Calls : Settles(c, h) /\ call[c].pc = "done" /\ call[c].answer = "ok"}

\* However complete() and nack() race on one item, fail, time out or are
\* dropped: never two of them in flight, and none once one was acknowledged.
OneCompletion ==
    \A h \in Handles : \A c, d \in Settling(h) \cup Settled(h) : c = d

\* A call touches what its own handle was granted.  It can touch another's only
\* when the generation moved between the grant and its decoding, or between the
\* check of the call and the stamp of its request.
OwnGrant ==
    \A a \in applied :
        \/ a.met = a.meant
        \/ stamp[a.meant] # grant[a.meant].session
        \/ a.checked # a.stamp

\* An enqueue never puts its message twice in the queue, and what it reports is
\* what happened: once for Ok, never for a rejection or an unsent request.
EnqueuedOnce ==
    \A c \in Calls :
        /\ admitted[c] <= 1
        /\ call[c].op = "enqueue" /\ call[c].pc = "done" =>
              /\ call[c].answer = "ok" => admitted[c] = 1
              /\ call[c].answer \in {"rejected", "refused", "failed"} => admitted[c] = 0
=============================================================================
