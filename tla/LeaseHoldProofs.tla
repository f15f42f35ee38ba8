----------------------------- MODULE LeaseHoldProofs -----------------------------
(***************************************************************************)
(* The acquisition gate keeps uncorrelated completions apart, for any      *)
(* number of tasks, routes and gates.  The broker owes a completion only   *)
(* to a task that still waits for it, and so holds its gate, or whose      *)
(* acquire() ended without it.                                             *)
(***************************************************************************)
EXTENDS LeaseHold, SequenceTheorems, TLAPS

\* The element n waits in the queue q.
In(n, q) == \E i \in 1..Len(q) : q[i] = n

\* Nothing is in the queue twice.
Once(q) == \A i, j \in 1..Len(q) : q[i] = q[j] => i = j

Notices == [task : Tasks, token : Nat]

HoldTypes ==
    /\ gate \in [Gates -> Tasks \cup {NoTask}]
    /\ pc \in [Tasks -> Holding \cup {"new", "asked", "queued", "done"}]
    /\ reply \in [Tasks -> [kind : {"none", "error", "queued", "ok"}, token : Nat]]
    /\ rx \in [Tasks -> Seq(Notices)]
    /\ waiters \in [Routes -> Seq(Tasks)]
    /\ inbox \subseteq Tasks /\ abandoned \subseteq Tasks
    /\ nextTok \in Nat
    /\ from \in [Tasks -> Tasks \cup {NoTask}]

InAcquire(t) == pc[t] \in {"asked", "queued"}

\* acquire() holds its gate until it ends, and one that ended early has ended.
GateHeld ==
    \A t \in Tasks : /\ InAcquire(t) => gate[GateOf[t]] = t
                     /\ t \in abandoned => ~InAcquire(t) /\ pc[t] # "new"

\* A request that is not made, or that the broker has yet to process, was not answered.
Unprocessed ==
    /\ \A t \in Tasks : pc[t] = "new" => reply[t].kind = "none"
    /\ \A t \in inbox : t \in abandoned \/ (pc[t] = "asked" /\ reply[t].kind = "none")

\* The broker owes a completion once, on the route it was asked for, to a task
\* that waits for it or has ended early.
Owed ==
    /\ \A r \in Routes : Once(waiters[r])
    /\ \A r \in Routes : \A t \in Tasks : In(t, waiters[r]) =>
          /\ r = RouteOf[t] /\ t \notin inbox
          /\ \/ t \in abandoned \/ pc[t] = "queued"
             \/ pc[t] = "asked" /\ reply[t].kind = "queued"

\* What a waiting acquire() received is the completion it was owed, or a foreign one
\* that the gate could not keep away.
Received ==
    \A t \in Tasks : \A c \in Notices : In(c, rx[t]) =>
        /\ InAcquire(t)
        /\ c.task = t => t \notin inbox /\ \A r \in Routes : ~In(t, waiters[r])
        /\ c.task # t => GateOf[c.task] # GateOf[t] \/ c.task \in abandoned

HoldInv == HoldTypes /\ GateHeld /\ Unprocessed /\ Owed /\ Received /\ ForeignGrantNeedsGap

-----------------------------------------------------------------------------
(* Queues. *)

\* What a queue holds after an element was added at its end.
LEMMA AddedLast ==
    ASSUME NEW S, NEW q \in Seq(S), NEW x \in S
    PROVE  /\ Append(q, x) \in Seq(S)
           /\ \A y : In(y, Append(q, x)) <=> In(y, q) \/ y = x
           /\ Once(q) /\ ~In(x, q) => Once(Append(q, x))
<1>1. /\ Append(q, x) \in Seq(S) /\ Len(q) \in Nat /\ Len(Append(q, x)) = Len(q) + 1
      /\ \A i \in 1..Len(q) : Append(q, x)[i] = q[i]
      /\ Append(q, x)[Len(q) + 1] = x
  OBVIOUS
<1>2. \A y : In(y, Append(q, x)) <=> In(y, q) \/ y = x
  BY <1>1 DEF In
<1>3. Once(q) /\ ~In(x, q) => Once(Append(q, x))
  BY <1>1 DEF Once, In
<1> QED  BY <1>1, <1>2, <1>3

\* What a queue holds after its first element was taken.
LEMMA TookFirst ==
    ASSUME NEW S, NEW q \in Seq(S), q # <<>>
    PROVE  /\ Head(q) \in S /\ In(Head(q), q) /\ Tail(q) \in Seq(S)
           /\ \A y : In(y, Tail(q)) => In(y, q)
           /\ Once(q) => Once(Tail(q)) /\ ~In(Head(q), Tail(q))
<1>1. /\ Len(q) \in Nat \ {0} /\ Head(q) = q[1] /\ Head(q) \in S /\ Tail(q) \in Seq(S)
      /\ Len(Tail(q)) = Len(q) - 1
      /\ \A i \in 1..Len(q) - 1 : Tail(q)[i] = q[i + 1]
  OBVIOUS
<1>2. In(Head(q), q)
  BY <1>1 DEF In
<1>3. \A y : In(y, Tail(q)) => In(y, q)
  BY <1>1 DEF In
<1>4. Once(q) => Once(Tail(q))
  BY <1>1 DEF Once
<1>5. Once(q) => ~In(Head(q), Tail(q))
  BY <1>1 DEF Once, In
<1> QED  BY <1>1, <1>2, <1>3, <1>4, <1>5

\* An empty queue.
LEMMA NoneThere == /\ \A y : ~In(y, <<>>)
                   /\ Once(<<>>)
                   /\ \A S : <<>> \in Seq(S)
BY DEF In, Once

-----------------------------------------------------------------------------
(* The steps. *)

\* acquire() begins: nobody owes it anything yet.
LEMMA AcquireKeeps ==
    ASSUME HoldInv, NEW t \in Tasks, Acquire(t)
    PROVE  HoldInv'
<1>1. /\ pc[t] = "new" /\ gate[GateOf[t]] = NoTask
      /\ gate' = [gate EXCEPT ![GateOf[t]] = t] /\ pc' = [pc EXCEPT ![t] = "asked"]
      /\ inbox' = inbox \cup {t}
      /\ UNCHANGED <<reply, rx, waiters, nextTok, from, abandoned>>
  BY DEF Acquire, handleVars
<1> USE DEF HoldInv, HoldTypes
<1>2. /\ \A u \in Tasks : InAcquire(u) => u # t /\ GateOf[u] # GateOf[t]
      /\ \A u \in Tasks : u # t => pc'[u] = pc[u] /\ (InAcquire(u)' <=> InAcquire(u))
      /\ pc'[t] = "asked" /\ InAcquire(t)' /\ GateOf[t] \in Gates
  BY <1>1, LeaseHoldAssumption DEF GateHeld, InAcquire
<1>3. /\ t \notin abandoned /\ t \notin inbox /\ (\A r \in Routes : ~In(t, waiters[r]))
      /\ \A c \in Notices : ~In(c, rx[t])
  BY <1>1, <1>2 DEF GateHeld, Unprocessed, Owed, Received
<1>4. HoldTypes'
  BY <1>1
<1>5. GateHeld'
  BY <1>1, <1>2, <1>3, LeaseHoldAssumption DEF GateHeld
<1>6. Unprocessed'
  BY <1>1, <1>2, <1>3 DEF Unprocessed
<1>7. Owed'
  BY <1>1, <1>2, <1>3 DEF Owed
<1>8. Received'
  BY <1>1, <1>2, <1>3 DEF Received, Notices
<1>9. ForeignGrantNeedsGap'
  BY <1>1 DEF ForeignGrantNeedsGap
<1> QED  BY <1>4, <1>5, <1>6, <1>7, <1>8, <1>9

\* acquire() ends, with its own answer or not: either nothing is owed to it any
\* more or it counts as abandoned.
LEMMA EndKeeps ==
    ASSUME HoldInv, NEW t \in Tasks, InAcquire(t),
           pc' \in [Tasks -> Holding \cup {"new", "asked", "queued", "done"}],
           ~InAcquire(t)', pc'[t] # "new", \A u \in Tasks \ {t} : pc'[u] = pc[u],
           gate' = [gate EXCEPT ![GateOf[t]] = NoTask], rx' = [rx EXCEPT ![t] = <<>>],
           reply' \in [Tasks -> [kind : {"none", "error", "queued", "ok"}, token : Nat]],
           \A u \in Tasks \ {t} : reply'[u] = reply[u],
           UNCHANGED <<waiters, inbox, nextTok>>,
           abandoned' = abandoned \/ abandoned' = abandoned \cup {t},
           t \in abandoned' \/ (t \notin inbox /\ \A r \in Routes : ~In(t, waiters[r])),
           from' = from \/ (\E u \in Tasks : /\ from' = [from EXCEPT ![t] = u]
                                             /\ u = t \/ GateOf[u] # GateOf[t] \/ u \in abandoned)
    PROVE  HoldInv'
<1> USE DEF HoldInv, HoldTypes
<1>1. /\ \A v \in Tasks \ {t} : (InAcquire(v)' <=> InAcquire(v)) /\ rx'[v] = rx[v]
      /\ \A v \in Tasks \ {t} : InAcquire(v) => GateOf[v] # GateOf[t]
      /\ abandoned \subseteq abandoned' /\ abandoned' \subseteq abandoned \cup {t}
      /\ rx'[t] = <<>> /\ GateOf[t] \in Gates
  BY LeaseHoldAssumption DEF InAcquire, GateHeld
<1>0. /\ waiters' = waiters /\ inbox' = inbox /\ nextTok' = nextTok
      /\ \A v \in Tasks : v \in inbox => v \in abandoned' \/ v # t
      /\ \A v \in Tasks : \A r \in Routes : In(v, waiters[r]) => v \in abandoned' \/ v # t
  OBVIOUS
<1>8. /\ from' \in [Tasks -> Tasks \cup {NoTask}]
      /\ \A v \in Tasks : from'[v] \notin {v, NoTask} =>
            GateOf[from'[v]] # GateOf[v] \/ from'[v] \in abandoned
  <2>1. CASE from' = from
    BY <2>1 DEF ForeignGrantNeedsGap
  <2>2. CASE from' # from
    <3>1. PICK u \in Tasks : /\ from' = [from EXCEPT ![t] = u]
                             /\ u = t \/ GateOf[u] # GateOf[t] \/ u \in abandoned
      BY <2>2
    <3> QED  BY <3>1 DEF ForeignGrantNeedsGap
  <2> QED  BY <2>1, <2>2
<1>2. HoldTypes'
  <2>1. rx' \in [Tasks -> Seq(Notices)]
    BY NoneThere
  <2>2. gate' \in [Gates -> Tasks \cup {NoTask}] /\ abandoned' \subseteq Tasks
    BY <1>1
  <2> QED  BY <1>0, <1>8, <2>1, <2>2
<1>3. GateHeld'
  BY <1>1, LeaseHoldAssumption DEF GateHeld
<1>4. Unprocessed'
  <2>1. \A v \in Tasks : pc'[v] = "new" => reply'[v].kind = "none"
    BY DEF Unprocessed
  <2>2. \A v \in inbox : v \in abandoned' \/ (pc'[v] = "asked" /\ reply'[v].kind = "none")
    <3> SUFFICES ASSUME NEW v \in inbox, v \notin abandoned' PROVE pc'[v] = "asked" /\ reply'[v].kind = "none"
      OBVIOUS
    <3>1. v \in Tasks \ {t} /\ v \notin abandoned
      BY <1>0, <1>1
    <3>2. pc'[v] = pc[v] /\ reply'[v] = reply[v]
      BY <3>1
    <3> QED  BY <3>1, <3>2 DEF Unprocessed
  <2> QED  BY <1>0, <2>1, <2>2 DEF Unprocessed
<1>5. Owed'
  BY <1>0, <1>1 DEF Owed
<1>6. Received'
  BY <1>0, <1>1, NoneThere DEF Received
<1>7. ForeignGrantNeedsGap'
  BY <1>1, <1>8 DEF ForeignGrantNeedsGap
<1> QED  BY <1>2, <1>3, <1>4, <1>5, <1>6, <1>7

\* A handle is used, renewed or given up, or the broker or the connection does
\* something that no acquire() waits for.
LEMMA QuietKeeps ==
    ASSUME HoldInv,
           pc' \in [Tasks -> Holding \cup {"new", "asked", "queued", "done"}],
           reply' \in [Tasks -> [kind : {"none", "error", "queued", "ok"}, token : Nat]],
           nextTok' \in Nat, UNCHANGED <<gate, rx, waiters, inbox, from, abandoned>>,
           \A u \in Tasks : \/ pc'[u] = pc[u] /\ reply'[u] = reply[u]
                            \/ pc[u] \in Holding /\ pc'[u] \in Holding \cup {"done"}
    PROVE  HoldInv'
<1> USE DEF HoldInv, HoldTypes
<1>1. \A u \in Tasks : /\ InAcquire(u)' <=> InAcquire(u)
                       /\ pc'[u] = "new" <=> pc[u] = "new"
                       /\ pc[u] \in {"new", "asked", "queued"} => pc'[u] = pc[u] /\ reply'[u] = reply[u]
  BY DEF InAcquire, Holding
<1>2. GateHeld'
  BY <1>1 DEF GateHeld
<1>3. Unprocessed'
  BY <1>1 DEF Unprocessed
<1>4. Owed'
  BY <1>1 DEF Owed
<1>5. Received'
  BY <1>1 DEF Received
<1>6. ForeignGrantNeedsGap'
  BY DEF ForeignGrantNeedsGap
<1> QED  BY <1>2, <1>3, <1>4, <1>5, <1>6

\* The answer "queued" leaves acquire() where it waits.
LEMMA QueuedKeeps ==
    ASSUME HoldInv, NEW t \in Tasks, AcquireAnswered(t), reply[t].kind = "queued"
    PROVE  HoldInv'
<1>1. /\ pc[t] = "asked" /\ pc' = [pc EXCEPT ![t] = "queued"]
      /\ reply' = [reply EXCEPT ![t] = Reply("none")]
      /\ UNCHANGED <<gate, rx, waiters, inbox, nextTok, from, abandoned>>
  BY DEF AcquireAnswered, handleVars, brokerVars
<1> USE DEF HoldInv, HoldTypes
<1>2. Reply("none") \in [kind : {"none", "error", "queued", "ok"}, token : Nat]
  BY DEF Reply
<1>3. HoldTypes'
  BY <1>1, <1>2
<1>4. \A u \in Tasks : /\ InAcquire(u)' <=> InAcquire(u)
                       /\ u # t => pc'[u] = pc[u] /\ reply'[u] = reply[u]
                       /\ pc'[t] = "queued" /\ t \notin inbox
  <2>1. t \notin inbox
    BY <1>1 DEF Unprocessed, GateHeld, InAcquire
  <2> QED  BY <1>1, <2>1 DEF InAcquire
<1>5. GateHeld'
  BY <1>1, <1>4 DEF GateHeld
<1>6. Unprocessed'
  BY <1>1, <1>4 DEF Unprocessed
<1>7. Owed'
  BY <1>1, <1>4 DEF Owed
<1>8. Received'
  BY <1>1, <1>4 DEF Received
<1>9. ForeignGrantNeedsGap'
  BY <1>1 DEF ForeignGrantNeedsGap
<1> QED  BY <1>3, <1>5, <1>6, <1>7, <1>8, <1>9

\* acquire() ends with an error or a lease of its own, with a completion, or without
\* either.
LEMMA AnswerKeeps ==
    ASSUME HoldInv, NEW t \in Tasks,
           AcquireAnswered(t) \/ RecvDeferred(t) \/ AbandonAcquire(t)
    PROVE  HoldInv'
<1>0. CASE AcquireAnswered(t) /\ reply[t].kind = "queued"
  BY <1>0, QueuedKeeps
<1> USE DEF HoldInv, HoldTypes
<1>1. /\ Reply("none") \in [kind : {"none", "error", "queued", "ok"}, token : Nat]
      /\ [reply EXCEPT ![t] = Reply("none")]
            \in [Tasks -> [kind : {"none", "error", "queued", "ok"}, token : Nat]]
      /\ \A u \in Tasks \ {t} : [reply EXCEPT ![t] = Reply("none")][u] = reply[u]
  BY DEF Reply
<1>2. ASSUME Refuse(t) \/ (\E k \in Nat, u \in Tasks : Hold(t, k, u))
      PROVE  /\ pc' \in [Tasks -> Holding \cup {"new", "asked", "queued", "done"}]
             /\ ~InAcquire(t)' /\ pc'[t] # "new" /\ \A u \in Tasks \ {t} : pc'[u] = pc[u]
             /\ gate' = [gate EXCEPT ![GateOf[t]] = NoTask] /\ rx' = [rx EXCEPT ![t] = <<>>]
  BY <1>2 DEF Refuse, Hold, Unlocked, InAcquire, Holding
<1>3. CASE AcquireAnswered(t) /\ reply[t].kind # "queued"
  <2>1. /\ InAcquire(t) /\ reply' = [reply EXCEPT ![t] = Reply("none")]
        /\ UNCHANGED <<waiters, inbox, nextTok>> /\ abandoned' = abandoned
        /\ reply[t].kind \in {"error", "ok"} /\ pc[t] = "asked"
        /\ Refuse(t) \/ Hold(t, reply[t].token, t)
    BY <1>3 DEF AcquireAnswered, InAcquire, brokerVars
  <2>2. t \notin inbox /\ \A r \in Routes : ~In(t, waiters[r])
    BY <2>1 DEF GateHeld, Unprocessed, Owed
  <2>3. from' = from \/ from' = [from EXCEPT ![t] = t]
    BY <2>1 DEF Refuse, Hold, handleVars
  <2>4. Refuse(t) \/ (\E k \in Nat, u \in Tasks : Hold(t, k, u))
    BY <2>1
  <2> QED  BY <1>1, <1>2, <2>1, <2>2, <2>3, <2>4, EndKeeps
<1>4. CASE RecvDeferred(t)
  <2> DEFINE c == Head(rx[t])
  <2>1. /\ InAcquire(t) /\ reply' = reply /\ rx[t] # <<>>
        /\ UNCHANGED <<waiters, inbox, nextTok>>
        /\ abandoned' = IF c.task = t THEN abandoned ELSE abandoned \cup {t}
        /\ Refuse(t) \/ Hold(t, c.token, c.task)
    BY <1>4 DEF RecvDeferred, InAcquire, brokerVars
  <2>2. c \in Notices /\ In(c, rx[t])
    BY <2>1, TookFirst
  <2> HIDE DEF c
  <2>3. c.task \in Tasks /\ c.token \in Nat
    BY <2>2 DEF Notices
  <2>4. /\ c.task = t => t \notin inbox /\ \A r \in Routes : ~In(t, waiters[r])
        /\ c.task # t => GateOf[c.task] # GateOf[t] \/ c.task \in abandoned
    BY <2>2 DEF Received
  <2>5. from' = from \/ from' = [from EXCEPT ![t] = c.task]
    BY <2>1 DEF Refuse, Hold, handleVars
  <2>6. Refuse(t) \/ (\E k \in Nat, u \in Tasks : Hold(t, k, u))
    BY <2>1, <2>3
  <2>7. /\ t \in abandoned' \/ (t \notin inbox /\ \A r \in Routes : ~In(t, waiters[r]))
        /\ abandoned' = abandoned \/ abandoned' = abandoned \cup {t}
        /\ reply' \in [Tasks -> [kind : {"none", "error", "queued", "ok"}, token : Nat]]
    BY <2>1, <2>4
  <2> QED  BY <1>2, <2>1, <2>3, <2>4, <2>5, <2>6, <2>7, EndKeeps
<1>5. CASE AbandonAcquire(t)
  <2>1. /\ InAcquire(t) /\ reply' = [reply EXCEPT ![t] = Reply("none")]
        /\ UNCHANGED <<waiters, inbox, nextTok>> /\ abandoned' = abandoned \cup {t}
        /\ Refuse(t) /\ from' = from
    BY <1>5 DEF AbandonAcquire, InAcquire, brokerVars, Refuse, handleVars
  <2> QED  BY <1>1, <1>2, <2>1, EndKeeps
<1> QED  BY <1>0, <1>3, <1>4, <1>5

\* The use of a handle, its renewals and its release, the expiry of a lease and a
\* new session.
LEMMA HandleKeeps ==
    ASSUME HoldInv,
           \/ \E t \in Tasks : \/ Extend(t) \/ RenewAnswered(t) \/ RenewUnanswered(t)
                               \/ Finish(t) \/ DropHandle(t) \/ ReleaseEnds(t) \/ BrokerRenew(t)
           \/ \E r \in Routes : Expire(r)
           \/ Reconnect
    PROVE  HoldInv'
<1> USE DEF HoldInv, HoldTypes
<1>0. /\ Reply("none") \in [kind : {"none", "error", "queued", "ok"}, token : Nat]
      /\ Reply("error") \in [kind : {"none", "error", "queued", "ok"}, token : Nat]
      /\ Granted(nextTok) \in [kind : {"none", "error", "queued", "ok"}, token : Nat]
  BY DEF Reply, Granted
<1> USE DEF handleVars, brokerVars, taskVars, connVars
<1>1. ASSUME NEW t \in Tasks, Extend(t) PROVE HoldInv'
  <2>1. pc[t] \in Holding /\ (\E s \in Holding : pc' = [pc EXCEPT ![t] = s]) /\ reply' = reply
    BY <1>1 DEF Extend, RenewalFailed, Holding
  <2> QED  BY <1>1, <2>1, QuietKeeps DEF Extend
<1>2. ASSUME NEW t \in Tasks, RenewAnswered(t) \/ RenewUnanswered(t) PROVE HoldInv'
  <2>1. /\ pc[t] \in Holding /\ (\E s \in Holding : pc' = [pc EXCEPT ![t] = s])
        /\ reply' = [reply EXCEPT ![t] = Reply("none")]
    BY <1>2 DEF RenewAnswered, RenewUnanswered, RenewalFailed, Holding
  <2>2. UNCHANGED <<gate, rx, waiters, inbox, from, abandoned, nextTok>>
    BY <1>2 DEF RenewAnswered, RenewUnanswered
  <2> QED  BY <1>0, <2>1, <2>2, QuietKeeps
<1>3. ASSUME NEW t \in Tasks, Finish(t) PROVE HoldInv'
  <2>1. pc[t] \in Holding /\ (\E s \in Holding \cup {"done"} : pc' = [pc EXCEPT ![t] = s])
        /\ reply' = reply
    BY <1>3 DEF Finish, Holding
  <2> QED  BY <1>3, <2>1, QuietKeeps DEF Finish
<1>4. ASSUME NEW t \in Tasks, DropHandle(t) PROVE HoldInv'
  <2>1. /\ pc[t] \in Holding /\ (\E s \in Holding \cup {"done"} : pc' = [pc EXCEPT ![t] = s])
        /\ reply' = [reply EXCEPT ![t] = Reply("none")]
    BY <1>4 DEF DropHandle, Holding
  <2> QED  BY <1>0, <1>4, <2>1, QuietKeeps DEF DropHandle
<1>5. ASSUME NEW t \in Tasks, ReleaseEnds(t) PROVE HoldInv'
  <2>1. pc[t] \in Holding /\ (\E s \in Holding \cup {"done"} : pc' = [pc EXCEPT ![t] = s])
        /\ reply' = reply
    BY <1>5 DEF ReleaseEnds, Holding
  <2> QED  BY <1>5, <2>1, QuietKeeps DEF ReleaseEnds
<1>6. ASSUME NEW t \in Tasks, BrokerRenew(t) PROVE HoldInv'
  <2>1. /\ pc[t] \in Holding /\ pc' = pc /\ nextTok' \in Nat
        /\ \/ reply' = [reply EXCEPT ![t] = Granted(nextTok)]
           \/ reply' = [reply EXCEPT ![t] = Reply("error")]
        /\ UNCHANGED <<gate, rx, waiters, inbox, from, abandoned>>
    BY <1>6 DEF BrokerRenew, Holding
  <2>2. /\ reply' \in [Tasks -> [kind : {"none", "error", "queued", "ok"}, token : Nat]]
        /\ \A u \in Tasks : pc'[u] = pc[u] /\ (u = t \/ reply'[u] = reply[u])
    BY <1>0, <2>1, ZenonT(40)
  <2> QED  BY <2>1, <2>2, QuietKeeps
<1>7. ASSUME NEW r \in Routes, Expire(r) PROVE HoldInv'
  BY <1>7, QuietKeeps DEF Expire
<1>8. CASE Reconnect
  BY <1>8, QuietKeeps DEF Reconnect
<1> QED  BY <1>1, <1>2, <1>3, <1>4, <1>5, <1>6, <1>7, <1>8

\* ACQUIRE is granted, refused or queued, once.
LEMMA BrokerAcquireKeeps ==
    ASSUME HoldInv, NEW t \in Tasks, BrokerAcquire(t)
    PROVE  HoldInv'
<1>1. /\ t \in inbox /\ inbox' = inbox \ {t} /\ UNCHANGED <<gate, pc, rx, from, abandoned>>
      /\ \/ /\ waiters' = waiters /\ nextTok' \in {nextTok, nextTok + 1}
            /\ \E a \in {Granted(nextTok), Reply("error")} :
                  reply' = [reply EXCEPT ![t] = IF pc[t] = "asked" THEN a ELSE @]
         \/ /\ waiters' = [waiters EXCEPT ![RouteOf[t]] = Append(@, t)] /\ nextTok' = nextTok
            /\ reply' = [reply EXCEPT ![t] = IF pc[t] = "asked" THEN Reply("queued") ELSE @]
  BY DEF BrokerAcquire, handleVars
<1> USE DEF HoldInv, HoldTypes
<1>2. \A k \in {"none", "error", "queued"} :
         /\ Reply(k) \in [kind : {"none", "error", "queued", "ok"}, token : Nat]
         /\ Reply(k).kind = k
  BY DEF Reply
<1>3. Granted(nextTok) \in [kind : {"none", "error", "queued", "ok"}, token : Nat]
  BY DEF Granted
<1>4. /\ RouteOf[t] \in Routes /\ pc[t] # "new" /\ (t \in abandoned \/ pc[t] = "asked")
      /\ (\A r \in Routes : ~In(t, waiters[r])) /\ \A c \in Notices : In(c, rx[t]) => c.task # t
  BY <1>1, LeaseHoldAssumption DEF Unprocessed, Owed, Received, GateHeld
<1>5. /\ reply' \in [Tasks -> [kind : {"none", "error", "queued", "ok"}, token : Nat]]
      /\ \A u \in Tasks : u # t => reply'[u] = reply[u]
      /\ \A u \in Tasks : InAcquire(u)' <=> InAcquire(u)
  <2>1. \E a \in [kind : {"none", "error", "queued", "ok"}, token : Nat] :
           reply' = [reply EXCEPT ![t] = a]
    <3>1. CASE pc[t] = "asked"
      <4>1. \E a \in {Granted(nextTok), Reply("error"), Reply("queued")} :
               reply' = [reply EXCEPT ![t] = a]
        BY <1>1, <3>1
      <4> QED  BY <1>2, <1>3, <4>1
    <3>2. CASE pc[t] # "asked"
      <4>1. reply' = [reply EXCEPT ![t] = reply[t]]
        BY <1>1, <3>2
      <4> QED  BY <4>1
    <3> QED  BY <3>1, <3>2
  <2> QED  BY <1>1, <2>1 DEF InAcquire
<1>6. \/ waiters' = waiters
      \/ /\ waiters' = [waiters EXCEPT ![RouteOf[t]] = Append(waiters[RouteOf[t]], t)]
         /\ t \in abandoned \/ reply'[t].kind = "queued"
  BY <1>1, <1>2, <1>4
<1>7. \A r \in Routes : /\ waiters'[r] \in Seq(Tasks) /\ Once(waiters'[r])
                        /\ \A u : In(u, waiters'[r]) =>
                              \/ In(u, waiters[r])
                              \/ /\ u = t /\ r = RouteOf[t]
                                 /\ t \in abandoned \/ reply'[t].kind = "queued"
  <2>1. CASE waiters' = waiters
    BY <2>1 DEF Owed
  <2>2. CASE waiters' # waiters
    <3>1. /\ Append(waiters[RouteOf[t]], t) \in Seq(Tasks) /\ Once(Append(waiters[RouteOf[t]], t))
          /\ \A u : In(u, Append(waiters[RouteOf[t]], t)) <=> In(u, waiters[RouteOf[t]]) \/ u = t
      BY <1>4, AddedLast DEF Owed
    <3>2. /\ waiters'[RouteOf[t]] = Append(waiters[RouteOf[t]], t)
          /\ \A r \in Routes : r # RouteOf[t] => waiters'[r] = waiters[r]
      BY <1>4, <1>6, <2>2
    <3>3. ASSUME NEW r \in Routes, r # RouteOf[t] PROVE Once(waiters'[r]) /\ waiters'[r] = waiters[r]
      BY <3>2, <3>3 DEF Owed
    <3>4. t \in abandoned \/ reply'[t].kind = "queued"
      BY <1>6, <2>2
    <3> QED  BY <1>4, <3>1, <3>2, <3>3, <3>4
  <2> QED  BY <2>1, <2>2
<1>8. HoldTypes'
  <2>1. waiters' \in [Routes -> Seq(Tasks)]
    BY <1>4, <1>6, <1>7
  <2>2. nextTok' \in Nat
    BY <1>1
  <2> QED  BY <1>1, <1>5, <2>1, <2>2
<1>9. GateHeld'
  BY <1>1, <1>5 DEF GateHeld
<1>10. Unprocessed'
  BY <1>1, <1>4, <1>5 DEF Unprocessed
<1>11. Owed'
  BY <1>1, <1>4, <1>5, <1>7 DEF Owed
<1>12. Received'
  BY <1>1, <1>4, <1>5, <1>7 DEF Received
<1>13. ForeignGrantNeedsGap'
  BY <1>1 DEF ForeignGrantNeedsGap
<1> QED  BY <1>8, <1>9, <1>10, <1>11, <1>12, <1>13

\* The first waiter is completed, by a grant or by the end of its wait: whoever has
\* its receiver open on the same gate is that waiter, or that waiter has ended early.
LEMMA CompletionKeeps ==
    ASSUME HoldInv, NEW r \in Routes, BrokerDefer(r) \/ BrokerWaitEnds(r)
    PROVE  HoldInv'
<1>0. PICK t \in Tasks : t = Head(waiters[r])
  BY TookFirst DEF HoldInv, HoldTypes, BrokerDefer, BrokerWaitEnds
<1>1. PICK k \in Nat :
         /\ waiters[r] # <<>> /\ waiters' = [waiters EXCEPT ![r] = Tail(@)]
         /\ Broadcast([task |-> t, token |-> k]) /\ nextTok' \in {nextTok, nextTok + 1}
         /\ UNCHANGED <<gate, pc, reply, inbox, from, abandoned>>
  <2>1. CASE BrokerDefer(r)
    BY <1>0, <2>1 DEF BrokerDefer, handleVars, HoldInv, HoldTypes
  <2>2. CASE BrokerWaitEnds(r)
    BY <1>0, <2>2 DEF BrokerWaitEnds, handleVars
  <2> QED  BY <2>1, <2>2
<1> DEFINE c == [task |-> t, token |-> k]
<1>2. c \in Notices /\ c.task = t /\ rx' = [u \in Tasks |-> IF InAcquire(u) THEN Append(rx[u], c) ELSE rx[u]]
  BY <1>1 DEF Broadcast, InAcquire, Notices
<1> HIDE DEF c
<1> USE DEF HoldInv, HoldTypes
<1>3. /\ waiters'[r] \in Seq(Tasks) /\ Once(waiters'[r]) /\ ~In(t, waiters'[r])
      /\ \A u : In(u, waiters'[r]) => In(u, waiters[r])
      /\ \A s \in Routes \ {r} : waiters'[s] = waiters[s]
      /\ In(t, waiters[r])
  <2>1. Once(waiters[r])
    BY DEF Owed
  <2> QED  BY <1>0, <1>1, <2>1, TookFirst
<1>4. /\ r = RouteOf[t] /\ t \notin inbox /\ (\A s \in Routes : ~In(t, waiters'[s]))
      /\ t \in abandoned \/ InAcquire(t)
  <2>1. /\ r = RouteOf[t] /\ t \notin inbox
        /\ t \in abandoned \/ InAcquire(t)
    BY <1>3 DEF Owed, InAcquire
  <2>2. ASSUME NEW s \in Routes, In(t, waiters'[s]) PROVE FALSE
    <3>1. s # r /\ In(t, waiters[s])
      BY <1>3, <2>2
    <3> QED  BY <2>1, <3>1 DEF Owed
  <2> QED  BY <2>1, <2>2
<1>5. \A u \in Tasks : /\ rx'[u] \in Seq(Notices)
                       /\ \A d : In(d, rx'[u]) => In(d, rx[u]) \/ (d = c /\ InAcquire(u))
  <2> SUFFICES ASSUME NEW u \in Tasks
               PROVE  /\ rx'[u] \in Seq(Notices)
                      /\ \A d : In(d, rx'[u]) => In(d, rx[u]) \/ (d = c /\ InAcquire(u))
    OBVIOUS
  <2>1. CASE InAcquire(u)
    BY <1>2, <2>1, AddedLast
  <2>2. CASE ~InAcquire(u)
    BY <1>2, <2>2
  <2> QED  BY <2>1, <2>2
<1>6. HoldTypes'
  <2>1. rx' \in [Tasks -> Seq(Notices)] /\ waiters' \in [Routes -> Seq(Tasks)] /\ nextTok' \in Nat
    BY <1>1, <1>2, <1>3, <1>5
  <2> QED  BY <1>1, <2>1
<1>7. GateHeld' /\ Unprocessed' /\ ForeignGrantNeedsGap'
  BY <1>1 DEF GateHeld, Unprocessed, ForeignGrantNeedsGap, InAcquire
<1>8. Owed'
  BY <1>1, <1>3 DEF Owed
<1>9. Received'
  <2>1. \A u \in Tasks : InAcquire(u) /\ u # t => GateOf[t] # GateOf[u] \/ t \in abandoned
    BY <1>4 DEF GateHeld
  <2>2. ASSUME NEW s \in Routes, NEW u, In(u, waiters'[s]) PROVE In(u, waiters[s])
    <3>1. CASE s = r
      BY <1>3, <2>2, <3>1
    <3>2. CASE s # r
      BY <1>3, <2>2, <3>2
    <3> QED  BY <3>1, <3>2
  <2>3. \A u \in Tasks : InAcquire(u)' <=> InAcquire(u)
    BY <1>1 DEF InAcquire
  <2> QED  BY <1>1, <1>2, <1>4, <1>5, <2>1, <2>2, <2>3 DEF Received
<1> QED  BY <1>6, <1>7, <1>8, <1>9

\* With the session the broker forgets what it owes.
LEMMA LoseKeeps ==
    ASSUME HoldInv, Lose
    PROVE  HoldInv'
<1>1. /\ waiters' = [r \in Routes |-> <<>>] /\ inbox' = {}
      /\ UNCHANGED <<gate, pc, reply, rx, nextTok, from, abandoned>>
  BY DEF Lose, taskVars, handleVars
<1> USE DEF HoldInv, HoldTypes
<1>2. HoldTypes'
  <2>1. waiters' \in [Routes -> Seq(Tasks)]
    BY <1>1, NoneThere
  <2> QED  BY <1>1, <2>1
<1>3. GateHeld' /\ Unprocessed' /\ ForeignGrantNeedsGap'
  BY <1>1 DEF GateHeld, Unprocessed, ForeignGrantNeedsGap, InAcquire
<1>4. Owed'
  BY <1>1, NoneThere DEF Owed
<1>5. Received'
  BY <1>1, NoneThere DEF Received, InAcquire
<1> QED  BY <1>2, <1>3, <1>4, <1>5

-----------------------------------------------------------------------------
(* The theorem. *)

\* Nobody has asked for a lease.
LEMMA HoldStarts == Init => HoldInv
<1> SUFFICES ASSUME Init PROVE HoldInv
  OBVIOUS
<1> USE NoneThere DEF Init, Reply
<1>1. HoldTypes
  BY DEF HoldTypes
<1>2. GateHeld /\ Unprocessed /\ Owed
  BY DEF GateHeld, Unprocessed, Owed, InAcquire
<1>3. Received /\ ForeignGrantNeedsGap
  BY DEF Received, ForeignGrantNeedsGap
<1> QED  BY <1>1, <1>2, <1>3 DEF HoldInv

\* No step of a task, of the broker or of the connection breaks it.
LEMMA HoldKept == HoldInv /\ [Next]_vars => HoldInv'
<1> SUFFICES ASSUME HoldInv, [Next]_vars PROVE HoldInv'
  OBVIOUS
<1>1. CASE UNCHANGED vars
  BY <1>1 DEF HoldInv, HoldTypes, GateHeld, Unprocessed, Owed, Received, ForeignGrantNeedsGap,
              InAcquire, vars, connVars, taskVars, handleVars, brokerVars
<1>2. CASE Next
  BY <1>2, AcquireKeeps, AnswerKeeps, HandleKeeps, BrokerAcquireKeeps, CompletionKeeps, LoseKeeps
     DEF Next, Acting, Broker
<1> QED  BY <1>1, <1>2

\* Under any number of tasks, routes and gates, the completion of a queued ACQUIRE
\* that acquire() takes for its own was meant for a task on another gate or for one
\* whose acquire() had ended without it: LeaseClient's gate admits no other mix-up.
THEOREM GateKeepsGrantsApart == Spec => []ForeignGrantNeedsGap
<1>1. HoldInv => ForeignGrantNeedsGap
  BY DEF HoldInv
<1> QED  BY <1>1, HoldStarts, HoldKept, PTL DEF Spec
================================================================================
