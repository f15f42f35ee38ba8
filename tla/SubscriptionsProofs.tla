-------------------------- MODULE SubscriptionsProofs --------------------------
(***************************************************************************)
(* Proofs about the two families of subscriptions.  Own registrations: a   *)
(* handle has the wire id of its own pattern, a restore accounts for every *)
(* registration, and notices reach the handle they are meant for.  Shared  *)
(* subscriptions: the count of a pattern covers the handles that refer to  *)
(* it, so that an open handle is served and the last one closes cleanly.   *)
(* Both machines are parts of one connection with no variable in common.   *)
(***************************************************************************)
EXTENDS Registrations, SharedSubscriptions, SequenceTheorems, FiniteSetTheorems, TLAPS

\* The element n waits in the queue q.
In(n, q) == \E i \in 1..Len(q) : q[i] = n

-----------------------------------------------------------------------------
(* Own registrations: the inductive invariant. *)

\* What a session has done in each of its phases: nothing while it is down; while
\* it restores, nothing yet for the registrations that are still to be asked for.
Phases ==
    /\ \A s \in Subs : wireGen[s] <= generation
    /\ phase = "down" =>
          /\ replies = <<>>
          /\ \A s \in Subs : issued[s] = 0 /\ wireGen[s] < generation
    /\ phase # "restoring" => current = Nobody /\ todo = {}
    /\ \A s \in todo : issued[s] = 0 /\ wireGen[s] < generation
    /\ current # Nobody => current \notin todo /\ wireGen[current] < generation

\* In an orderly session the one answer in transit is the answer to the round
\* trip that waits for it.
Orderly ==
    generation \notin strayed /\ replies # <<>> =>
        /\ current # Nobody
        /\ Len(replies) = 1
        /\ replies[1] = [sub |-> current, id |-> issued[current]]

\* The broker gives an id to one subscription at a time.
Distinct == \A s, u \in Subs : issued[s] = issued[u] /\ issued[s] # 0 => s = u

\* OwnWireId, for every handle that has an id and in every phase.
Wired ==
    \A s \in Subs :
        (/\ pc[s] \in {"answered", "open"}
         /\ wireGen[s] = generation
         /\ generation \notin strayed) => wire[s] = issued[s]

\* RegistrationsRestored, while the restore still runs.
Accounted ==
    phase # "down" =>
        \A s \in snapshot :
            s \in todo \/ s = current \/ wireGen[s] = generation \/ s \in failed

\* What waits in a receiver.  A notice of this session carries the id of another
\* subscription, unless it is the handle's own; ids are not given up while a
\* session restores; and a notice of the session that numbered the handle
\* carries the handle's id only if it is meant for it.
Sound(s, n) ==
    /\ n.gen <= generation
    /\ n.gen = generation =>
          /\ phase # "down"
          /\ phase = "restoring" => issued[n.sub] = n.id
          /\ n.sub # s /\ issued[s] # 0 => n.id # issued[s]
    /\ (/\ pc[s] \in {"answered", "open"}
        /\ n.gen = wireGen[s] /\ n.gen \notin strayed /\ n.id = wire[s]) => n.sub = s

Buffered ==
    \A s \in Subs :
        /\ pc[s] \in {"new", "closed"} => buf[s] = <<>>
        /\ \A n \in Notice : In(n, buf[s]) => Sound(s, n)

RegInv == /\ TypeOK /\ Phases /\ Orderly /\ Distinct /\ Wired /\ Accounted /\ Buffered
          /\ SameSessionRouting

-----------------------------------------------------------------------------
(* Queues. *)

\* What waits in a queue after an element is appended or its head is taken.
LEMMA QueueFacts ==
    ASSUME NEW S, NEW q \in Seq(S), NEW n
    PROVE  /\ Len(q) \in Nat /\ ~In(n, <<>>)
           /\ In(n, q) => n \in S
           /\ \A x \in S : /\ Append(q, x) \in Seq(S) /\ Len(Append(q, x)) = Len(q) + 1
                           /\ In(n, Append(q, x)) => n = x \/ In(n, q)
           /\ q # <<>> => /\ Head(q) \in S /\ In(Head(q), q)
                          /\ Tail(q) \in Seq(S) /\ Len(Tail(q)) = Len(q) - 1
                          /\ In(n, Tail(q)) => In(n, q)
<1>1. Len(q) \in Nat /\ ~In(n, <<>>) /\ (In(n, q) => n \in S)
  BY DEF In
<1>2. ASSUME NEW x \in S
      PROVE  /\ Append(q, x) \in Seq(S) /\ Len(Append(q, x)) = Len(q) + 1
             /\ In(n, Append(q, x)) => n = x \/ In(n, q)
  <2>1. \A i \in 1..(Len(q) + 1) : i = Len(q) + 1 \/ i \in 1..Len(q)
    OBVIOUS
  <2>2. /\ Append(q, x) \in Seq(S) /\ Len(Append(q, x)) = Len(q) + 1
        /\ Append(q, x)[Len(q) + 1] = x
        /\ \A i \in 1..Len(q) : Append(q, x)[i] = q[i]
    OBVIOUS
  <2> QED  BY <2>1, <2>2 DEF In
<1>3. ASSUME q # <<>>
      PROVE  /\ Head(q) \in S /\ In(Head(q), q)
             /\ Tail(q) \in Seq(S) /\ Len(Tail(q)) = Len(q) - 1
             /\ In(n, Tail(q)) => In(n, q)
  <2>1. /\ Head(q) = q[1] /\ Head(q) \in S /\ 1 \in 1..Len(q)
        /\ Tail(q) \in Seq(S) /\ Len(Tail(q)) = Len(q) - 1
        /\ \A i \in 1..(Len(q) - 1) : Tail(q)[i] = q[i + 1] /\ i + 1 \in 1..Len(q)
    BY <1>3
  <2> QED  BY <2>1 DEF In
<1> QED  BY <1>1, <1>2, <1>3

\* What a receiver holds after publish_notification(): the notice, and before it
\* nothing that was not there.
LEMMA PublishFacts ==
    ASSUME TypeOK, NEW n \in Notice, Publish(n)
    PROVE  /\ buf' \in [Subs -> Seq(Notice)] /\ lagged' \in [Subs -> BOOLEAN]
           /\ \A s \in Subs :
                 /\ Len(buf'[s]) <= Capacity
                 /\ \A m : In(m, buf'[s]) => m = n \/ In(m, buf[s])
                 /\ pc[s] \in {"new", "closed"} => buf'[s] = buf[s]
<1> DEFINE listening == {s \in Subs : pc[s] \in {"asked", "answered", "open"}}
<1>1. /\ buf' = [s \in Subs |->
                  IF s \notin listening THEN buf[s]
                  ELSE IF Len(buf[s]) < Capacity THEN Append(buf[s], n)
                  ELSE Append(Tail(buf[s]), n)]
      /\ lagged' = [s \in Subs |-> lagged[s] \/ (s \in listening /\ Len(buf[s]) >= Capacity)]
  BY DEF Publish
<1>2. ASSUME NEW s \in Subs
      PROVE  /\ buf'[s] \in Seq(Notice) /\ Len(buf'[s]) <= Capacity
             /\ \A m : In(m, buf'[s]) => m = n \/ In(m, buf[s])
             /\ pc[s] \in {"new", "closed"} => buf'[s] = buf[s]
  <2>1. buf[s] \in Seq(Notice) /\ Len(buf[s]) <= Capacity /\ Capacity \in Nat \ {0}
    BY RegistrationsAssumption DEF TypeOK
  <2>2. CASE s \notin listening
    BY <1>1, <2>1, <2>2
  <2>3. CASE s \in listening /\ Len(buf[s]) < Capacity
    <3>1. buf'[s] = Append(buf[s], n)
      BY <1>1, <2>3
    <3> QED  BY <2>1, <2>3, <3>1, QueueFacts
  <2>4. CASE s \in listening /\ ~(Len(buf[s]) < Capacity)
    <3>1. buf'[s] = Append(Tail(buf[s]), n) /\ buf[s] # <<>>
      BY <1>1, <2>1, <2>4
    <3>2. Tail(buf[s]) \in Seq(Notice) /\ Len(Tail(buf[s])) = Len(buf[s]) - 1
      BY <2>1, <3>1, QueueFacts
    <3>3. Append(Tail(buf[s]), n) \in Seq(Notice) /\ Len(Append(Tail(buf[s]), n)) = Len(buf[s])
      BY <3>2, <2>1, QueueFacts
    <3>4. \A m : In(m, Append(Tail(buf[s]), n)) => m = n \/ In(m, Tail(buf[s]))
      BY <3>2, QueueFacts
    <3>5. \A m : In(m, Tail(buf[s])) => In(m, buf[s])
      BY <2>1, <3>1, QueueFacts
    <3> QED  BY <2>1, <2>4, <3>1, <3>3, <3>4, <3>5
  <2> QED  BY <2>2, <2>3, <2>4
<1>3. buf' \in [Subs -> Seq(Notice)]
  BY <1>1, <1>2
<1>4. lagged' \in [Subs -> BOOLEAN]
  BY <1>1, Zenon
<1> QED  BY <1>2, <1>3, <1>4

-----------------------------------------------------------------------------
(* Own registrations: types. *)

\* The steps of a handle keep the types.
LEMMA HandleTypes ==
    ASSUME TypeOK, NEW s \in Subs,
           Ask(s) \/ Answered(s) \/ AskFails(s) \/ Register(s) \/ Poll(s) \/ Leave(s)
    PROVE  TypeOK'
<1> USE DEF TypeOK, connVars, subVars, brokerVars, history
<1>0. <<>> \in Seq(Notice) /\ Len(<<>>) <= Capacity /\ FreshIds \subseteq WireIds
  BY RegistrationsAssumption DEF FreshIds
<1>1. CASE Ask(s)
  BY <1>0, <1>1 DEF Ask
<1>2. CASE Answered(s)
  <2>1. wireGen' \in [Subs -> -1..MaxGeneration]
    BY <1>2, RegistrationsAssumption DEF Answered
  <2> QED  BY <1>2, <2>1 DEF Answered
<1>3. CASE AskFails(s)
  BY <1>0, <1>3 DEF AskFails
<1>4. CASE Register(s)
  BY <1>4 DEF Register
<1>5. CASE Poll(s)
  <2>1. CASE UNCHANGED <<buf, got>>
    BY <1>5, <2>1 DEF Poll
  <2>2. CASE ~UNCHANGED <<buf, got>>
    <3>1. buf[s] # <<>> /\ buf' = [buf EXCEPT ![s] = Tail(buf[s])] /\ UNCHANGED lagged
      BY <1>5, <2>2 DEF Poll
    <3>2. /\ Head(buf[s]) \in Notice /\ Tail(buf[s]) \in Seq(Notice)
          /\ Len(Tail(buf[s])) = Len(buf[s]) - 1 /\ Len(buf[s]) \in Nat
      BY <3>1, QueueFacts
    <3>3. buf' \in [Subs -> Seq(Notice)] /\ \A u \in Subs : Len(buf'[u]) <= Capacity
      BY <3>1, <3>2, RegistrationsAssumption
    <3>4. got' \in [Subs -> Yielded]
      <4> DEFINE y == [sub |-> Head(buf[s]).sub, gen |-> Head(buf[s]).gen, by |-> wireGen[s]]
      <4>1. y \in Yielded
        BY <3>2, RegistrationsAssumption, SMTT(30) DEF Notice, Yielded
      <4>2. got' = got \/ got' = [got EXCEPT ![s] = y]
        BY <1>5 DEF Poll
      <4> HIDE DEF y
      <4> QED  BY <4>1, <4>2
    <3> QED  BY <1>5, <3>1, <3>3, <3>4 DEF Poll
  <2> QED  BY <2>1, <2>2
<1>6. CASE Leave(s)
  BY <1>0, <1>6 DEF Leave
<1> QED  BY <1>1, <1>2, <1>3, <1>4, <1>5, <1>6

\* So do notifications, restores and lost sessions.
LEMMA RegTypes == TypeOK /\ Next => TypeOK'
<1> SUFFICES ASSUME TypeOK, Next PROVE TypeOK'
  OBVIOUS
<1>0. ASSUME NEW s \in Subs,
             Ask(s) \/ Answered(s) \/ AskFails(s) \/ Register(s) \/ Poll(s) \/ Leave(s)
      PROVE  TypeOK'
  BY <1>0, HandleTypes
<1>1. ASSUME NEW s \in Subs, Notify(s) PROVE TypeOK'
  <2> DEFINE n == [id |-> issued[s], sub |-> s, gen |-> generation]
  <2>1. n \in Notice
    BY <1>1 DEF Notify, Notice, TypeOK
  <2>2. Publish(n) /\ notices' \in 0..MaxNotices
        /\ UNCHANGED <<connVars, wire, pc, issued, replies, history>>
    BY <1>1, RegistrationsAssumption DEF Notify, TypeOK
  <2> HIDE DEF n
  <2>3. /\ buf' \in [Subs -> Seq(Notice)] /\ lagged' \in [Subs -> BOOLEAN]
        /\ \A u \in Subs : Len(buf'[u]) <= Capacity
    BY <2>1, <2>2, PublishFacts
  <2> QED  BY <2>2, <2>3 DEF TypeOK, connVars, history
<1> USE DEF TypeOK, connVars, subVars, brokerVars, history
<1>2. CASE StartRestore \/ ServeSession
  BY <1>2 DEF StartRestore, ServeSession
<1>3. CASE RestoreTimesOut
  BY <1>3 DEF RestoreTimesOut
<1>4. ASSUME replies # <<>>
      PROVE  /\ Head(replies).id \in WireIds \cup {0} /\ Tail(replies) \in Seq(ReplyMsg)
             /\ generation \in -1..MaxGeneration
  <2>1. Head(replies) \in ReplyMsg /\ Tail(replies) \in Seq(ReplyMsg)
    BY <1>4, QueueFacts
  <2> QED  BY <2>1, RegistrationsAssumption DEF ReplyMsg
<1>5. CASE RestoreReply
  BY <1>4, <1>5 DEF RestoreReply
<1>6. CASE LateReply
  <2>1. <<>> \in Seq(Notice) /\ Len(<<>>) <= Capacity
    BY RegistrationsAssumption
  <2>2. buf' \in [Subs -> Seq(Notice)] /\ \A s \in Subs : Len(buf'[s]) <= Capacity
    <3>1. buf' = buf \/ buf' = [buf EXCEPT ![first] = <<>>]
      BY <1>6 DEF LateReply
    <3> QED  BY <2>1, <3>1
  <2>3. CASE Head(replies).id # 0
    BY <1>4, <1>6, <2>2, <2>3, ZenonT(40) DEF LateReply
  <2>4. CASE Head(replies).id = 0
    BY <1>4, <1>6, <2>2, <2>4 DEF LateReply
  <2> QED  BY <2>3, <2>4
<1>7. ASSUME NEW s \in Subs, RestoreNext(s) PROVE TypeOK'
  <2>1. UNCHANGED <<issued, replies>> \/ \E i \in WireIds \cup {0} :
           issued' = [issued EXCEPT ![s] = i] /\ replies' = Append(replies, [sub |-> s, id |-> i])
    BY <1>7 DEF RestoreNext, FreshIds
  <2>2. issued' \in [Subs -> WireIds \cup {0}]
    BY <2>1
  <2>3. replies' \in Seq(ReplyMsg)
    <3>1. \A i \in WireIds \cup {0} : [sub |-> s, id |-> i] \in ReplyMsg
      BY DEF ReplyMsg
    <3>2. replies \in Seq(ReplyMsg)
      OBVIOUS
    <3>3. \A m \in ReplyMsg : Append(replies, m) \in Seq(ReplyMsg)
      BY <3>2, QueueFacts
    <3>4. \A i \in WireIds \cup {0} : Append(replies, [sub |-> s, id |-> i]) \in Seq(ReplyMsg)
      BY <3>1, <3>3, Zenon
    <3> QED  BY <2>1, <3>2, <3>4, Zenon
  <2> QED  BY <1>7, <2>2, <2>3 DEF RestoreNext
<1>8. CASE LoseSession
  <2>1. generation' \in 0..MaxGeneration
    BY <1>8, RegistrationsAssumption DEF LoseSession
  <2>2. replies' \in Seq(ReplyMsg)
    BY <1>8 DEF LoseSession
  <2> QED  BY <1>8, <2>1, <2>2 DEF LoseSession
<1> QED  BY <1>0, <1>1, <1>2, <1>3, <1>5, <1>6, <1>7, <1>8 DEF Next, RestoreStep

-----------------------------------------------------------------------------
(* Own registrations: the steps. *)

\* An id that is free belongs to nobody.
LEMMA FreshFacts ==
    ASSUME TypeOK, NEW i \in FreshIds
    PROVE  i \in WireIds /\ i # 0 /\ \A s \in Subs : issued[s] # i
BY RegistrationsAssumption DEF FreshIds, TypeOK

\* The broker keeps ids apart: a subscription gets a free one, gives its own up,
\* or all are given up with the session.
LEMMA DistinctKept == TypeOK /\ Distinct /\ Next => Distinct'
<1> SUFFICES ASSUME TypeOK, Distinct, Next PROVE Distinct'
  OBVIOUS
<1>1. CASE UNCHANGED issued
  BY <1>1 DEF Distinct
<1>2. ASSUME NEW s \in Subs, NEW i \in FreshIds \cup {0}, issued' = [issued EXCEPT ![s] = i]
      PROVE  Distinct'
  <2>1. \A u \in Subs : i # 0 => issued[u] # i
    BY FreshFacts
  <2> QED  BY <1>2, <2>1 DEF Distinct, TypeOK
<1>3. CASE \A s \in Subs : issued'[s] = 0
  BY <1>3 DEF Distinct
<1>4. ASSUME NEW s \in Subs, Ask(s) PROVE Distinct'
  BY <1>2, <1>4 DEF Ask
<1>5. ASSUME NEW s \in Subs, Leave(s) PROVE Distinct'
  BY <1>1, <1>2, <1>5 DEF Leave
<1>6. ASSUME NEW s \in Subs, RestoreNext(s) PROVE Distinct'
  BY <1>1, <1>2, <1>6 DEF RestoreNext
<1>7. CASE LoseSession
  BY <1>3, <1>7 DEF LoseSession
<1>8. ASSUME NEW s \in Subs, Answered(s) \/ AskFails(s) \/ Register(s) \/ Poll(s) \/ Notify(s)
      PROVE  Distinct'
  BY <1>1, <1>8 DEF Answered, AskFails, Register, Poll, Notify, brokerVars
<1>9. CASE StartRestore \/ RestoreReply \/ RestoreTimesOut \/ ServeSession \/ LateReply
  BY <1>1, <1>9 DEF StartRestore, RestoreReply, RestoreTimesOut, ServeSession, LateReply, brokerVars
<1> QED  BY <1>4, <1>5, <1>6, <1>7, <1>8, <1>9 DEF Next, RestoreStep

\* A session goes through its phases, and a registration is asked for before it
\* is numbered.
LEMMA PhasesKept == TypeOK /\ Phases /\ Next => Phases'
<1> SUFFICES ASSUME TypeOK, Phases, Next PROVE Phases'
  OBVIOUS
<1> USE DEF connVars, subVars, brokerVars, history
<1>1. /\ generation \in Nat /\ \A s \in Subs : wireGen[s] \in Int
      /\ Nobody \notin Subs
  BY RegistrationsAssumption DEF TypeOK
<1>2. CASE UNCHANGED <<phase, generation, wireGen, replies, issued, current, todo>>
  BY <1>2 DEF Phases
<1>3. ASSUME NEW s \in Subs, AskFails(s) \/ Register(s) \/ Poll(s) \/ Notify(s)
      PROVE  Phases'
  BY <1>2, <1>3 DEF AskFails, Register, Poll, Notify
<1>4. ASSUME NEW s \in Subs, Ask(s) \/ Answered(s) PROVE Phases'
  <2>1. /\ phase = "live" /\ current = Nobody /\ todo = {}
        /\ UNCHANGED <<phase, generation, current, todo>>
    BY <1>4 DEF Ask, Answered, Phases
  <2>2. \A u \in Subs : wireGen'[u] = wireGen[u] \/ wireGen'[u] = generation
    BY <1>4 DEF Ask, Answered, TypeOK
  <2> QED  BY <1>1, <2>1, <2>2 DEF Phases
<1>5. ASSUME NEW s \in Subs, Leave(s) PROVE Phases'
  BY <1>1, <1>5 DEF Leave, Phases, TypeOK
<1>6. CASE StartRestore
  BY <1>1, <1>6 DEF StartRestore, Phases, TypeOK
<1>7. ASSUME NEW s \in Subs, RestoreNext(s) PROVE Phases'
  BY <1>1, <1>7 DEF RestoreNext, Phases, TypeOK
<1>8. CASE RestoreReply
  <2>1. /\ phase = "restoring" /\ current \in Subs /\ current \notin todo
        /\ current' = Nobody
        /\ UNCHANGED <<phase, generation, todo, issued>>
    BY <1>8 DEF RestoreReply, TypeOK, Phases
  <2>2. \A s \in Subs : wireGen'[s] <= generation /\ (s # current => wireGen'[s] = wireGen[s])
    BY <1>1, <1>8, <2>1 DEF RestoreReply, TypeOK, Phases
  <2> QED  BY <1>1, <2>1, <2>2 DEF Phases, TypeOK
<1>9. CASE RestoreTimesOut \/ ServeSession
  BY <1>1, <1>9 DEF RestoreTimesOut, ServeSession, Phases, TypeOK
<1>10. CASE LateReply
  <2>1. /\ phase = "live" /\ UNCHANGED <<phase, generation, current, todo, issued>>
        /\ first \in Subs
    BY <1>10 DEF LateReply, TypeOK
  <2>2. \A s \in Subs : wireGen'[s] = wireGen[s] \/ wireGen'[s] = generation
    BY <1>10, <2>1 DEF LateReply, TypeOK
  <2> QED  BY <1>1, <2>1, <2>2 DEF Phases
<1>11. CASE LoseSession
  BY <1>1, <1>11 DEF LoseSession, Phases, TypeOK
<1> QED  BY <1>3, <1>4, <1>5, <1>6, <1>7, <1>8, <1>9, <1>10, <1>11 DEF Next, RestoreStep

\* While a session is served, an answer in transit has strayed from its restore.
LEMMA LateHasStrayed ==
    Phases /\ Orderly /\ phase = "live" /\ replies # <<>> => generation \in strayed
BY DEF Phases, Orderly

\* The round trips of a restore come one at a time.
LEMMA OrderlyKept == TypeOK /\ Phases /\ Orderly /\ Next => Orderly'
<1> SUFFICES ASSUME TypeOK, Phases, Orderly, Next PROVE Orderly'
  OBVIOUS
<1> USE DEF connVars, subVars, brokerVars, history
<1>1. CASE UNCHANGED <<generation, strayed, replies, current, issued>>
  BY <1>1 DEF Orderly
<1>2. CASE phase = "live" /\ UNCHANGED <<generation, strayed, replies>>
  BY <1>2, LateHasStrayed DEF Orderly
<1>3. ASSUME NEW s \in Subs,
             Answered(s) \/ AskFails(s) \/ Register(s) \/ Poll(s) \/ Notify(s)
      PROVE  Orderly'
  BY <1>1, <1>3 DEF Answered, AskFails, Register, Poll, Notify
<1>4. ASSUME NEW s \in Subs, Ask(s) PROVE Orderly'
  BY <1>2, <1>4 DEF Ask
<1>5. ASSUME NEW s \in Subs, Leave(s) PROVE Orderly'
  BY <1>1, <1>2, <1>5 DEF Leave
<1>6. CASE StartRestore \/ ServeSession
  BY <1>1, <1>6 DEF StartRestore, ServeSession
<1>7. ASSUME NEW s \in Subs, RestoreNext(s) PROVE Orderly'
  <2>1. SUFFICES ASSUME generation \notin strayed PROVE Orderly'
    BY <1>7 DEF RestoreNext, Orderly
  <2>2. replies = <<>> /\ current' = s
    BY <1>7, <2>1 DEF RestoreNext, Orderly
  <2>3. CASE UNCHANGED replies
    BY <2>2, <2>3 DEF Orderly
  <2>4. ASSUME NEW i \in FreshIds \cup {0}, issued' = [issued EXCEPT ![s] = i],
               replies' = Append(replies, [sub |-> s, id |-> i])
        PROVE  Orderly'
    <3>1. replies' = <<[sub |-> s, id |-> i]>> /\ issued'[s] = i
      BY <2>2, <2>4 DEF TypeOK
    <3> QED  BY <2>2, <3>1, RegistrationsAssumption DEF Orderly
  <2> QED  BY <1>7, <2>3, <2>4 DEF RestoreNext
<1>8. CASE RestoreReply
  <2>1. generation \notin strayed => Tail(replies) = <<>>
    <3>1. replies # <<>> /\ replies \in Seq(ReplyMsg)
      BY <1>8 DEF RestoreReply, TypeOK
    <3>2. generation \notin strayed => Len(replies) = 1
      BY <3>1 DEF Orderly
    <3>3. Tail(replies) \in Seq(ReplyMsg) /\ Len(Tail(replies)) = Len(replies) - 1
      BY <3>1, QueueFacts
    <3>4. Len(Tail(replies)) = 0 => Tail(replies) = <<>>
      BY <3>3, EmptySeq
    <3> QED  BY <3>2, <3>3, <3>4
  <2> QED  BY <1>8, <2>1 DEF RestoreReply, Orderly
<1>9. CASE RestoreTimesOut
  BY <1>9 DEF RestoreTimesOut, Orderly
<1>10. CASE LateReply
  <2>1. generation \in strayed
    BY <1>10, LateHasStrayed DEF LateReply
  <2> QED  BY <1>10, <2>1 DEF LateReply, Orderly
<1>11. CASE LoseSession
  BY <1>11 DEF LoseSession, Orderly
<1> QED  BY <1>3, <1>4, <1>5, <1>6, <1>7, <1>8, <1>9, <1>10, <1>11 DEF Next, RestoreStep

\* The answer that a round trip takes in an orderly session is its own.
LEMMA OwnAnswer ==
    ASSUME TypeOK, Orderly, RestoreReply, generation \notin strayed
    PROVE  current \in Subs /\ Head(replies).id = issued[current]
<1>1. current # Nobody /\ replies[1] = [sub |-> current, id |-> issued[current]] /\ replies # <<>>
  BY DEF RestoreReply, Orderly
<1>2. Head(replies) = replies[1]
  BY <1>1 DEF TypeOK
<1> QED  BY <1>1, <1>2 DEF TypeOK

\* A handle is numbered by the answer to its own request, and the broker does not
\* renumber it while its session lasts.
LEMMA WiredKept == TypeOK /\ Phases /\ Orderly /\ Wired /\ Next => Wired'
<1> SUFFICES ASSUME TypeOK, Phases, Orderly, Wired, Next PROVE Wired'
  OBVIOUS
<1> USE DEF connVars, subVars, brokerVars, history
<1>1. ASSUME UNCHANGED <<wire, wireGen, issued, generation>>, strayed \subseteq strayed',
             \A s \in Subs : pc'[s] \in {"answered", "open"} => pc[s] \in {"answered", "open"}
      PROVE  Wired'
  BY <1>1 DEF Wired
<1>2. ASSUME NEW s \in Subs, AskFails(s) \/ Register(s) \/ Poll(s) \/ Notify(s)
      PROVE  Wired'
  BY <1>1, <1>2 DEF AskFails, Register, Poll, Notify, TypeOK
<1>3. ASSUME NEW s \in Subs, Ask(s) \/ Answered(s) \/ Leave(s) PROVE Wired'
  BY <1>3 DEF Ask, Answered, Leave, Wired, TypeOK
<1>4. CASE StartRestore \/ RestoreTimesOut \/ ServeSession
  BY <1>1, <1>4 DEF StartRestore, RestoreTimesOut, ServeSession
<1>5. ASSUME NEW s \in Subs, RestoreNext(s) PROVE Wired'
  <2>1. wireGen[s] # generation
    BY <1>5, RegistrationsAssumption DEF RestoreNext, Phases, TypeOK
  <2>2. \A u \in Subs : u # s => issued'[u] = issued[u]
    BY <1>5 DEF RestoreNext, TypeOK
  <2>3. UNCHANGED <<wire, wireGen, generation, strayed, pc>>
    BY <1>5 DEF RestoreNext
  <2> QED  BY <2>1, <2>2, <2>3 DEF Wired
<1>6. CASE RestoreReply
  <2>1. generation \notin strayed => current \in Subs /\ Head(replies).id = issued[current]
    BY <1>6, OwnAnswer
  <2> QED  BY <1>6, <2>1 DEF RestoreReply, Wired, TypeOK
<1>7. CASE LateReply
  <2>1. generation \in strayed
    BY <1>7, LateHasStrayed DEF LateReply
  <2> QED  BY <1>7, <2>1 DEF LateReply, Wired
<1>8. CASE LoseSession
  <2>1. \A s \in Subs : wireGen[s] # generation + 1
    BY RegistrationsAssumption DEF Phases, TypeOK
  <2> QED  BY <1>8, <2>1 DEF LoseSession, Wired
<1> QED  BY <1>2, <1>3, <1>4, <1>5, <1>6, <1>7, <1>8 DEF Next, RestoreStep

\* A restore gives up none of the registrations it set out with.
LEMMA AccountedKept == TypeOK /\ Phases /\ Accounted /\ Next => Accounted'
<1> SUFFICES ASSUME TypeOK, Phases, Accounted, Next PROVE Accounted'
  OBVIOUS
<1> USE DEF connVars, subVars, brokerVars, history
<1>1. ASSUME UNCHANGED <<phase, snapshot, todo, current, generation, failed>>,
             \A s \in Subs : wireGen'[s] \in {wireGen[s], generation}
      PROVE  Accounted'
  BY <1>1 DEF Accounted, TypeOK
<1>2. ASSUME NEW s \in Subs,
             \/ Ask(s) \/ Answered(s) \/ AskFails(s) \/ Register(s) \/ Poll(s) \/ Leave(s)
             \/ Notify(s)
      PROVE  Accounted'
  BY <1>1, <1>2 DEF Ask, Answered, AskFails, Register, Poll, Leave, Notify, TypeOK
<1>3. CASE StartRestore
  BY <1>3 DEF StartRestore, Accounted
<1>4. ASSUME NEW s \in Subs, RestoreNext(s) PROVE Accounted'
  BY <1>4, RegistrationsAssumption DEF RestoreNext, Accounted, TypeOK
<1>5. CASE RestoreReply
  BY <1>5 DEF RestoreReply, Accounted, TypeOK
<1>6. CASE RestoreTimesOut \/ ServeSession
  BY <1>6 DEF RestoreTimesOut, ServeSession, Accounted, Phases
<1>7. CASE LateReply
  BY <1>1, <1>7 DEF LateReply, TypeOK
<1>8. CASE LoseSession
  BY <1>8 DEF LoseSession, Accounted
<1> QED  BY <1>2, <1>3, <1>4, <1>5, <1>6, <1>7, <1>8 DEF Next, RestoreStep

\* A receiver is open only while its handle is, and what comes to wait there is
\* told apart by its id.
LEMMA BufferedKept ==
    TypeOK /\ Phases /\ Orderly /\ Distinct /\ Wired /\ Buffered /\ Next => Buffered'
<1> SUFFICES ASSUME TypeOK, Phases, Orderly, Distinct, Wired, Buffered, Next PROVE Buffered'
  OBVIOUS
<1> USE DEF connVars, subVars, brokerVars, history
<1>1. /\ \A n \in Notice : n.id # 0 /\ n.sub \in Subs /\ n.gen \in Nat
      /\ generation \in Nat
      /\ \A s \in Subs : wireGen[s] \in Int
  BY RegistrationsAssumption DEF Notice, TypeOK
<1>2. \A s \in Subs, n \in Notice : In(n, buf[s]) => Sound(s, n)
  BY DEF Buffered
<1>3. ASSUME \A s \in Subs : /\ pc'[s] \in {"new", "closed"} => buf'[s] = <<>>
                             /\ buf'[s] = <<>> \/ buf'[s] = buf[s],
             \A s \in Subs, n \in Notice : buf[s] # <<>> /\ buf'[s] = buf[s] /\ Sound(s, n) => Sound(s, n)'
      PROVE  Buffered'
  <2>1. \A n : ~In(n, <<>>)
    BY DEF In
  <2>2. ASSUME NEW s \in Subs, NEW n \in Notice, In(n, buf'[s]) PROVE Sound(s, n)'
    <3>1. buf'[s] = buf[s] /\ buf[s] # <<>>
      BY <1>3, <2>1, <2>2
    <3>2. Sound(s, n)
      BY <1>2, <2>2, <3>1
    <3> QED  BY <1>3, <3>1, <3>2
  <2> QED  BY <1>3, <2>2 DEF Buffered
<1>4. \A s \in Subs : buf[s] # <<>> => pc[s] \in {"asked", "answered", "open"}
  BY DEF Buffered, TypeOK
<1>5. ASSUME NEW s \in Subs, Ask(s) PROVE Buffered'
  <2>1. buf[s] = <<>> /\ phase = "live"
    BY <1>5 DEF Ask, Buffered
  <2>2. ASSUME NEW u \in Subs, NEW n \in Notice, buf[u] # <<>>, Sound(u, n) PROVE Sound(u, n)'
    BY <1>5, <2>1, <2>2 DEF Ask, Sound, TypeOK
  <2> QED  BY <1>3, <1>5, <2>1, <2>2 DEF Ask, Buffered, TypeOK
<1>6. ASSUME NEW s \in Subs, Answered(s) PROVE Buffered'
  <2>1. ASSUME NEW u \in Subs, NEW n \in Notice, Sound(u, n) PROVE Sound(u, n)'
    <3>1. CASE u # s
      BY <1>6, <2>1, <3>1 DEF Answered, Sound, TypeOK
    <3>2. CASE u = s
      BY <1>6, <2>1, <3>2 DEF Answered, Sound, TypeOK
    <3> QED  BY <3>1, <3>2
  <2> QED  BY <1>3, <1>6, <2>1 DEF Answered, Buffered, TypeOK
<1>7. ASSUME NEW s \in Subs, AskFails(s) \/ Register(s) PROVE Buffered'
  <2>1. ASSUME NEW u \in Subs, NEW n \in Notice, Sound(u, n) PROVE Sound(u, n)'
    BY <1>7, <2>1 DEF AskFails, Register, Sound, TypeOK
  <2> QED  BY <1>3, <1>7, <2>1 DEF AskFails, Register, Buffered, TypeOK
<1>8. ASSUME NEW s \in Subs, Leave(s) PROVE Buffered'
  <2>1. ASSUME NEW u \in Subs, NEW n \in Notice, Sound(u, n), u # s PROVE Sound(u, n)'
    BY <1>8, <2>1 DEF Leave, Sound, TypeOK
  <2>2. buf'[s] = <<>>
    BY <1>8 DEF Leave, TypeOK
  <2> QED  BY <1>3, <1>8, <2>1, <2>2 DEF Leave, Buffered, TypeOK
<1>9. ASSUME NEW s \in Subs, Poll(s) PROVE Buffered'
  <2>1. \A u \in Subs, n \in Notice : Sound(u, n)' <=> Sound(u, n)
    BY <1>9 DEF Poll, Sound
  <2>2. \A u \in Subs, n \in Notice : In(n, buf'[u]) => In(n, buf[u])
    <3>1. CASE UNCHANGED buf
      BY <3>1
    <3>2. CASE buf[s] # <<>> /\ buf' = [buf EXCEPT ![s] = Tail(buf[s])]
      <4>1. \A n : In(n, Tail(buf[s])) => In(n, buf[s])
        BY <3>2, QueueFacts DEF TypeOK
      <4> QED  BY <3>2, <4>1 DEF TypeOK
    <3> QED  BY <1>9, <3>1, <3>2 DEF Poll
  <2>3. pc[s] = "open" /\ UNCHANGED pc /\ \A u \in Subs : u # s => buf'[u] = buf[u]
    BY <1>9 DEF Poll, TypeOK
  <2> QED  BY <1>2, <2>1, <2>2, <2>3 DEF Buffered
<1>10. ASSUME NEW s \in Subs, Notify(s) PROVE Buffered'
  <2> DEFINE n0 == [id |-> issued[s], sub |-> s, gen |-> generation]
  <2>1. n0 \in Notice /\ n0.id = issued[s] /\ n0.sub = s /\ n0.gen = generation
    BY <1>10 DEF Notify, Notice, TypeOK
  <2>2. /\ Publish(n0) /\ phase # "down" /\ issued[s] # 0
        /\ UNCHANGED <<phase, generation, issued, pc, wire, wireGen, strayed>>
    BY <1>10 DEF Notify, Phases, TypeOK
  <2> HIDE DEF n0
  <2>3. \A u \in Subs : /\ \A m : In(m, buf'[u]) => m = n0 \/ In(m, buf[u])
                        /\ pc[u] \in {"new", "closed"} => buf'[u] = buf[u]
    BY <2>1, <2>2, PublishFacts
  <2>4. \A u \in Subs, n \in Notice : Sound(u, n)' <=> Sound(u, n)
    BY <2>2 DEF Sound
  <2>5. \A u \in Subs : Sound(u, n0)
    BY <1>1, <2>1, <2>2 DEF Sound, Distinct, Wired
  <2> QED  BY <1>2, <2>1, <2>2, <2>3, <2>4, <2>5 DEF Buffered
<1>11. CASE StartRestore \/ ServeSession \/ RestoreTimesOut
  <2>1. ASSUME NEW u \in Subs, NEW n \in Notice, Sound(u, n) PROVE Sound(u, n)'
    BY <1>11, <2>1 DEF StartRestore, ServeSession, RestoreTimesOut, Sound
  <2> QED  BY <1>3, <1>11, <2>1 DEF StartRestore, ServeSession, RestoreTimesOut, Buffered
<1>12. ASSUME NEW s \in Subs, RestoreNext(s) PROVE Buffered'
  <2>1. /\ phase = "restoring" /\ issued[s] = 0
        /\ UNCHANGED <<phase, generation, pc, wire, wireGen, strayed, buf>>
    BY <1>12 DEF RestoreNext, Phases
  <2>2. UNCHANGED issued \/ \E i \in FreshIds \cup {0} : issued' = [issued EXCEPT ![s] = i]
    BY <1>12 DEF RestoreNext
  <2>3. \A u \in Subs : u # s => issued'[u] = issued[u]
    BY <2>2 DEF TypeOK
  <2>4. \A u \in Subs : issued'[s] # 0 => issued'[s] # issued[u]
    BY <2>1, <2>2, FreshFacts DEF TypeOK
  <2>5. ASSUME NEW u \in Subs, NEW n \in Notice, Sound(u, n) PROVE Sound(u, n)'
    <3>1. n.gen = generation => issued[n.sub] = n.id /\ n.sub # s /\ issued'[n.sub] = n.id
      BY <1>1, <2>1, <2>3, <2>5 DEF Sound
    <3>2. CASE u # s
      BY <2>1, <2>3, <2>5, <3>1, <3>2 DEF Sound
    <3>3. CASE u = s
      BY <1>1, <2>1, <2>4, <2>5, <3>1, <3>3 DEF Sound
    <3> QED  BY <3>2, <3>3
  <2> QED  BY <1>3, <2>1, <2>5 DEF Buffered
<1>13. CASE RestoreReply
  <2>1. /\ current \in Subs /\ wireGen[current] # generation
        /\ UNCHANGED <<phase, generation, pc, issued, strayed, buf>>
    BY <1>1, <1>13 DEF RestoreReply, Phases, TypeOK
  <2>2. generation \notin strayed => Head(replies).id = issued[current]
    BY <1>13, OwnAnswer
  <2>3. ASSUME NEW u \in Subs, NEW n \in Notice, Sound(u, n) PROVE Sound(u, n)'
    <3>1. CASE UNCHANGED <<wire, wireGen>> \/ u # current
      BY <1>13, <2>1, <2>3, <3>1 DEF RestoreReply, Sound, TypeOK
    <3>2. CASE u = current /\ wire'[u] = Head(replies).id /\ wireGen'[u] = generation
      BY <1>1, <2>1, <2>2, <2>3, <3>2 DEF Sound
    <3> QED  BY <1>13, <3>1, <3>2 DEF RestoreReply, TypeOK
  <2> QED  BY <1>3, <2>1, <2>3 DEF Buffered
<1>14. CASE LateReply
  <2>1. generation \in strayed /\ first \in Subs
    BY <1>14, LateHasStrayed DEF LateReply, TypeOK
  <2>2. /\ UNCHANGED <<phase, generation, issued, strayed>>
        /\ \A u \in Subs : u # first => /\ pc'[u] = pc[u] /\ wire'[u] = wire[u]
                                        /\ wireGen'[u] = wireGen[u] /\ buf'[u] = buf[u]
        /\ \/ wireGen'[first] = generation /\ pc'[first] = "answered" /\ buf'[first] = buf[first]
           \/ pc'[first] = "closed" /\ buf'[first] = <<>>
    BY <1>14, <2>1 DEF LateReply, TypeOK
  <2>3. ASSUME NEW u \in Subs, NEW n \in Notice, Sound(u, n) PROVE Sound(u, n)'
    <3>1. CASE u # first
      BY <2>2, <2>3, <3>1 DEF Sound
    <3>2. CASE u = first
      BY <2>1, <2>2, <2>3, <3>2 DEF Sound
    <3> QED  BY <3>1, <3>2
  <2> QED  BY <1>3, <2>2, <2>3 DEF Buffered
<1>15. CASE LoseSession
  <2>1. ASSUME NEW u \in Subs, NEW n \in Notice, Sound(u, n) PROVE Sound(u, n)'
    <3>1. n.gen <= generation' /\ n.gen # generation'
      BY <1>1, <1>15, <2>1 DEF LoseSession, Sound
    <3> QED  BY <1>15, <2>1, <3>1 DEF LoseSession, Sound
  <2> QED  BY <1>3, <1>15, <2>1 DEF LoseSession, Buffered
<1> QED  BY <1>5, <1>6, <1>7, <1>8, <1>9, <1>10, <1>11, <1>12, <1>13, <1>14, <1>15
         DEF Next, RestoreStep

\* What a handle yields was sound while it waited.
LEMMA RoutingKept ==
    TypeOK /\ Buffered /\ SameSessionRouting /\ Next => SameSessionRouting'
<1> SUFFICES ASSUME TypeOK, Buffered, SameSessionRouting, Next PROVE SameSessionRouting'
  OBVIOUS
<1> USE DEF connVars, subVars, brokerVars, history
<1>1. ASSUME UNCHANGED got, strayed \subseteq strayed' PROVE SameSessionRouting'
  BY <1>1 DEF SameSessionRouting
<1>2. ASSUME NEW s \in Subs, Poll(s) PROVE SameSessionRouting'
  <2>1. CASE UNCHANGED got
    BY <1>1, <1>2, <2>1 DEF Poll
  <2>2. CASE ~UNCHANGED got
    <3> DEFINE n == Head(buf[s])
    <3> DEFINE y == [sub |-> n.sub, gen |-> n.gen, by |-> wireGen[s]]
    <3>1. buf[s] # <<>> /\ n.id = wire[s] /\ pc[s] = "open" /\ got' = [got EXCEPT ![s] = y]
      BY <1>2, <2>2 DEF Poll
    <3>2. n \in Notice /\ In(n, buf[s])
      BY <3>1, QueueFacts DEF TypeOK
    <3>3. y.sub = n.sub /\ y.gen = n.gen /\ y.by = wireGen[s]
      OBVIOUS
    <3>4. Sound(s, n)
      BY <3>2 DEF Buffered
    <3> HIDE DEF n, y
    <3>5. y.sub = s \/ y.gen # y.by \/ y.gen \in strayed
      BY <3>1, <3>3, <3>4 DEF Sound
    <3>6. UNCHANGED strayed
      BY <1>2 DEF Poll
    <3> QED  BY <3>1, <3>5, <3>6 DEF SameSessionRouting, TypeOK
  <2> QED  BY <2>1, <2>2
<1>3. ASSUME NEW s \in Subs,
             Ask(s) \/ Answered(s) \/ AskFails(s) \/ Register(s) \/ Leave(s) \/ Notify(s)
             \/ RestoreNext(s)
      PROVE  SameSessionRouting'
  BY <1>1, <1>3 DEF Ask, Answered, AskFails, Register, Leave, Notify, RestoreNext
<1>4. CASE StartRestore \/ RestoreReply \/ RestoreTimesOut \/ ServeSession \/ LateReply \/ LoseSession
  BY <1>1, <1>4 DEF StartRestore, RestoreReply, RestoreTimesOut, ServeSession, LateReply, LoseSession
<1> QED  BY <1>2, <1>3, <1>4 DEF Next, RestoreStep

\* A connection that has not begun has no subscription to account for.
LEMMA RegStarts == Init => RegInv
<1> SUFFICES ASSUME Init PROVE RegInv
  OBVIOUS
<1>1. TypeOK
  <2>1. /\ NoNotice \in Yielded /\ -1 \in -1..MaxGeneration /\ 0 \in 0..MaxGeneration
        /\ 0 \in 0..MaxNotices
    BY RegistrationsAssumption DEF NoNotice, Yielded
  <2>2. <<>> \in Seq(Notice) /\ <<>> \in Seq(ReplyMsg) /\ Len(<<>>) <= Capacity
    BY RegistrationsAssumption
  <2> QED  BY <2>1, <2>2 DEF Init, TypeOK
<1>2. Phases /\ Orderly /\ Distinct /\ Wired /\ Accounted
  BY DEF Init, Phases, Orderly, Distinct, Wired, Accounted
<1>3. Buffered /\ SameSessionRouting
  BY DEF Init, Buffered, SameSessionRouting, In, NoNotice
<1> QED  BY <1>1, <1>2, <1>3 DEF RegInv

\* The account of ids, round trips and receivers holds in every state.
LEMMA RegAlways == Spec => []RegInv
<1>1. Init => RegInv
  BY RegStarts
<1>2. RegInv /\ [Next]_vars => RegInv'
  <2> SUFFICES ASSUME RegInv, [Next]_vars PROVE RegInv'
    OBVIOUS
  <2>1. CASE Next
    BY <2>1, RegTypes, PhasesKept, OrderlyKept, DistinctKept, WiredKept, AccountedKept,
         BufferedKept, RoutingKept DEF RegInv
  <2>2. CASE UNCHANGED vars
    BY <2>2 DEF vars, connVars, subVars, brokerVars, history, RegInv, TypeOK, Phases, Orderly,
         Distinct, Wired, Accounted, Buffered, Sound, In, SameSessionRouting
  <2> QED  BY <2>1, <2>2
<1> QED  BY <1>1, <1>2, PTL DEF Spec

-----------------------------------------------------------------------------
(* Own registrations: the theorems. *)

\* In a session without a restore timeout a handle has the wire id that the broker
\* gave its own pattern, for any number of subscriptions, sessions and notices.
THEOREM HandleHasOwnId == Spec => []OwnWireId
<1>1. RegInv => OwnWireId
  BY DEF RegInv, Wired, OwnWireId
<1> QED  BY <1>1, RegAlways, PTL

\* A served session has restored every registration it found, or knows that it
\* failed.
THEOREM RestoreIsComplete == Spec => []RegistrationsRestored
<1>1. RegInv => RegistrationsRestored
  BY RegistrationsAssumption DEF RegInv, Accounted, Phases, RegistrationsRestored, TypeOK
<1> QED  BY <1>1, RegAlways, PTL

\* A handle yields a notice of another subscription only across two sessions or in
\* one where an answer strayed.
THEOREM NoticesReachTheirHandle == Spec => []SameSessionRouting
<1>1. RegInv => SameSessionRouting
  BY DEF RegInv
<1> QED  BY <1>1, RegAlways, PTL

-----------------------------------------------------------------------------
(* Shared subscriptions: the inductive invariant. *)

SharedSpec == SharedInit /\ [][SharedNext]_sharedVars

RequestMsg == [task : SharedTasks, what : {"subscribe", "unsubscribe", "unsubscribe_all"},
               id : BrokerIds \cup {NoId}]

\* The order in which calls wait for a mutex does not matter here, so that nothing
\* is said of line.
SharedTypeOK ==
    /\ family \in {"notice", "pattern"}
    /\ session \in [number : Nat, up : BOOLEAN]
    /\ step \in [SharedTasks -> {"new", "joining", "asking", "open", "leaving", "clearing",
                                 "ending", "gone"}]
    /\ owner \in [SharedTasks -> Places]
    /\ reg \in [Sharers -> Sharers \cup {NoTask}]
    /\ stored \in [Sharers -> BrokerIds \cup {NoId}]
    /\ given \in [Sharers -> BrokerIds \cup {NoId}]
    /\ holder \in [Places -> SharedTasks \cup {NoTask}]
    /\ entry \in [Places -> [refs : Nat \ {0}, reg : Sharers] \cup {NoEntry}]
    /\ enabled \subseteq Sharers /\ ended \subseteq Sharers
    /\ reply \in [SharedTasks -> {"none", "ok", "error"}]
    /\ sentIn \in [SharedTasks -> Nat]
    /\ pending \subseteq RequestMsg
    /\ served \subseteq Sharers
    /\ excused \subseteq Sharers /\ miscounted \subseteq Sharers /\ cleared \subseteq Sharers
    /\ tainted \subseteq Places

\* Which calls are what: unsubscribe_all() is made on the Notice client, and a
\* handle has a registration from when it is open.
Roles ==
    /\ \A t \in Clears : owner[t] = Main /\ step[t] \in {"new", "clearing", "ending", "gone"}
    /\ \A t \in Clears : step[t] # "new" => family = "notice"
    /\ \A h \in Sharers : step[h] # "clearing"
    /\ \A h \in Sharers :
          /\ step[h] \in {"new", "joining", "asking"} => reg[h] = NoTask
          /\ step[h] \in {"open", "leaving", "ending"} => reg[h] # NoTask
          /\ reg[h] # NoTask => reg[reg[h]] = reg[h] /\ owner[reg[h]] = owner[h]

\* The call that waits for the broker holds the mutex of its place; nothing else
\* is done there until it is answered.
Locked ==
    /\ \A t \in SharedTasks : step[t] \in {"asking", "ending"} => holder[Mutex(owner[t])] = t
    /\ \A h \in Sharers : step[h] = "asking" => entry[owner[h]] = NoEntry
    /\ \A h \in Sharers : step[h] = "ending" =>
          /\ entry[owner[h]] # NoEntry /\ entry[owner[h]].refs = 1
          /\ Astray(h) => entry[owner[h]].reg \in miscounted /\ owner[h] \in tainted
    /\ \A k \in Places : holder[k] # NoTask => Mutex(owner[holder[k]]) = k
                                                /\ step[holder[k]] \in {"asking", "ending"}

\* A request the broker may still take belongs to a call that waits for it or has
\* given up.
Outstanding ==
    /\ \A p \in pending :
          /\ p.what = "subscribe" =>
                /\ p.task \in Sharers /\ reg[p.task] = NoTask /\ p.id = NoId
                /\ \/ step[p.task] = "asking" /\ reply[p.task] = "none"
                   \/ step[p.task] = "gone" /\ owner[p.task] \in tainted
          /\ p.what = "unsubscribe" => p.task \in Sharers /\ step[p.task] \in {"ending", "gone"}
                                       /\ reg[p.task] # NoTask
          /\ p.what = "unsubscribe_all" => p.task \in Clears /\ step[p.task] \in {"ending", "gone"}
    /\ \A t \in SharedTasks : sentIn[t] <= session.number
    /\ \A t \in SharedTasks :
          (step[t] \in {"asking", "ending"} /\ reply[t] = "ok" /\ ~Crossed(t)) => session.up

\* A place maps to a registration that a handle there created and
\* that has not been ended.
Entries ==
    \A k \in Places : entry[k] # NoEntry =>
        /\ entry[k].reg \in enabled /\ entry[k].reg \notin ended \cup cleared
        /\ owner[entry[k].reg] = k /\ reg[entry[k].reg] = entry[k].reg

\* The handles that refer to the registration of place k.
Users(k) ==
    {h \in Sharers : /\ owner[h] = k /\ reg[h] = entry[k].reg
                     /\ step[h] \in {"open", "leaving", "ending"}}

\* The count covers the handles, unless an overtaken unsubscribe() spoiled it, and
\* is exact at a place where nothing was dropped and nothing went unanswered.
References ==
    \A k \in Places : entry[k] # NoEntry =>
        /\ IsFiniteSet(Users(k))
        /\ entry[k].reg \notin miscounted => Cardinality(Users(k)) <= entry[k].refs
        /\ k \notin tainted => Cardinality(Users(k)) = entry[k].refs

\* A handle that can be used refers to what the pattern maps to.
Linked ==
    \A h \in Sharers : step[h] \in {"open", "leaving"} =>
        \/ entry[owner[h]] # NoEntry /\ entry[owner[h]].reg = reg[h]
        \/ reg[h] \in cleared \cup miscounted

\* The call that holds the mutex of place k is ending what is registered there.
Ending(k) ==
    \E t \in SharedTasks : step[t] = "ending" /\ (owner[t] = k \/ t \in Clears)

\* What the pattern maps to is served under the id that is stored for it, unless it
\* is excused, and the answer to a subscribe() says so of what it will map to.
Serving ==
    /\ session.up => \A k \in Places : entry[k] # NoEntry =>
          \/ entry[k].reg \in served /\ stored[entry[k].reg] = given[entry[k].reg]
          \/ entry[k].reg \in excused \cup miscounted
          \/ Ending(k)
    /\ \A h \in Sharers :
          (step[h] = "asking" /\ reply[h] = "ok" /\ ~Crossed(h)) => h \in served \cup excused

\* At a place that is not tainted, only what the pattern maps to, or is about to,
\* is active or served, and an acknowledged end has ended it.
Tidy ==
    /\ \A h \in Sharers :
          /\ h \in enabled \cup served => step[h] \notin {"new", "joining"}
          /\ h \in enabled \cup ended \cup cleared => reg[h] = h
          /\ h \in served => reg[h] = h \/ (reg[h] = NoTask /\ step[h] \in {"asking", "gone"})
          /\ step[h] = "asking" /\ reply[h] = "none" => h \notin served
    /\ \A h \in Sharers : owner[h] \notin tainted =>
          /\ h \in enabled => entry[owner[h]] # NoEntry /\ entry[owner[h]].reg = h
          /\ h \in served =>
                \/ entry[owner[h]] # NoEntry /\ entry[owner[h]].reg = h
                \/ step[h] = "asking" /\ reply[h] # "error"
    /\ \A t \in SharedTasks, k \in Places \ tainted :
          (/\ step[t] = "ending" /\ reply[t] = "ok" /\ ~Crossed(t)
           /\ owner[t] = k \/ t \in Clears
           /\ entry[k] # NoEntry) => entry[k].reg \notin served

SharedInv ==
    /\ SharedTypeOK /\ Roles /\ Locked /\ Outstanding /\ Entries /\ References
    /\ Linked /\ Serving /\ Tidy

-----------------------------------------------------------------------------
(* Shared subscriptions: types. *)

\* The record that counts a shared registration, and no other, is an entry.
LEMMA EntryFacts ==
    ASSUME SharedTypeOK, NEW k \in Places, entry[k] # NoEntry
    PROVE  /\ entry[k].refs \in Nat \ {0} /\ entry[k].reg \in Sharers
           /\ [entry EXCEPT ![k].refs = entry[k].refs + 1]
                 = [entry EXCEPT ![k] = [refs |-> entry[k].refs + 1, reg |-> entry[k].reg]]
           /\ [entry EXCEPT ![k].refs = entry[k].refs - 1]
                 = [entry EXCEPT ![k] = [refs |-> entry[k].refs - 1, reg |-> entry[k].reg]]
<1>1. entry[k] \in [refs : Nat \ {0}, reg : Sharers]
  BY DEF SharedTypeOK
<1>2. \A n : [entry[k] EXCEPT !.refs = n] = [refs |-> n, reg |-> entry[k].reg]
  BY <1>1
<1>3. \A n : [entry EXCEPT ![k].refs = n] = [entry EXCEPT ![k] = [entry[k] EXCEPT !.refs = n]]
  OBVIOUS
<1> QED  BY <1>1, <1>2, <1>3

\* A counted registration is never mistaken for the absence of an entry.
LEMMA NewEntry == \A n \in Nat \ {0}, r \in Sharers : [refs |-> n, reg |-> r] # NoEntry
BY SharedAssumption

\* A restore in which the broker registers S and T are answered in time.
Restores(S, T) ==
    \E new \in [S -> BrokerIds], from \in [T -> S] :
       /\ served' = S
       /\ given' = [r \in Sharers |-> IF r \in S THEN new[r] ELSE given[r]]
       /\ stored' = [r \in Sharers |-> IF r \in T THEN new[from[r]] ELSE stored[r]]
       /\ excused' = (excused \cup Restorable) \ {r \in S \cap T : from[r] = r}

\* restore_registrations has such an outcome.
LEMMA RestoreOutcome == RestoreShared => \E S, T \in SUBSET Restorable : Restores(S, T)
BY DEF RestoreShared, Restores

\* Every step keeps the types; a registration is always a handle's.
LEMMA SharedTypes == SharedTypeOK /\ Roles /\ Outstanding /\ SharedNext => SharedTypeOK'
<1> SUFFICES ASSUME SharedTypeOK, Roles, Outstanding, SharedNext PROVE SharedTypeOK'
  OBVIOUS
<1> USE DEF SharedTypeOK, lockVars, handleVars, regVars, wireVars, servedVars, sharedHistory,
            SharedTasks
<1>0. \A k \in Places : Mutex(k) \in Places
  BY SharedAssumption DEF Mutex
<1>1. ASSUME NEW t \in SharedTasks, NEW k \in Places,
             NEW what \in {"subscribe", "unsubscribe", "unsubscribe_all"},
             NEW id \in BrokerIds \cup {NoId}, NEW next \in {"asking", "ending"},
             AskHolding(t, k, what, id, next)
      PROVE  /\ step' \in [SharedTasks -> {"new", "joining", "asking", "open", "leaving", "clearing",
                                           "ending", "gone"}]
             /\ holder' \in [Places -> SharedTasks \cup {NoTask}]
             /\ reply' \in [SharedTasks -> {"none", "ok", "error"}]
             /\ sentIn' \in [SharedTasks -> Nat]
             /\ pending' \subseteq RequestMsg
  BY <1>0, <1>1 DEF AskHolding, RequestMsg
<1>2. ASSUME NEW h \in Sharers, NEW k \in Places, Subscribe(h, k) PROVE SharedTypeOK'
  BY <1>2 DEF Subscribe, Wait
<1>3. ASSUME NEW h \in Sharers, Join(h) PROVE SharedTypeOK'
  <2>1. CASE entry[owner[h]] = NoEntry
    BY <1>1, <1>3, <2>1 DEF Join
  <2>2. CASE entry[owner[h]] # NoEntry
    <3>1. entry' = [entry EXCEPT ![owner[h]] = [refs |-> entry[owner[h]].refs + 1,
                                                reg |-> entry[owner[h]].reg]]
      BY <1>3, <2>2, EntryFacts DEF Join, Share
    <3>2. entry' \in [Places -> [refs : Nat \ {0}, reg : Sharers] \cup {NoEntry}]
      BY <2>2, <3>1, EntryFacts
    <3> QED  BY <1>3, <2>2, <3>2, EntryFacts, SMTT(30) DEF Join
  <2> QED  BY <2>1, <2>2
<1>4. ASSUME NEW h \in Sharers, Joined(h) PROVE SharedTypeOK'
  <2>1. entry' \in [Places -> [refs : Nat \ {0}, reg : Sharers] \cup {NoEntry}]
    BY <1>4 DEF Joined
  <2> QED  BY <1>0, <1>4, <2>1 DEF Joined, Finish
<1>5. ASSUME NEW h \in Sharers, JoinFails(h) \/ Unsubscribe(h) \/ DropHandle(h) PROVE SharedTypeOK'
  <2>1. CASE JoinFails(h)
    BY <1>0, <2>1 DEF JoinFails, Finish
  <2>2. CASE Unsubscribe(h)
    BY <2>2, ZenonT(40) DEF Unsubscribe, Wait
  <2>3. CASE DropHandle(h)
    BY <2>3 DEF DropHandle
  <2> QED  BY <1>5, <2>1, <2>2, <2>3
<1>6. ASSUME NEW h \in Sharers, Release(h) PROVE SharedTypeOK'
  <2> DEFINE k == owner[h]
  <2>1. CASE entry[k] = NoEntry
    BY <1>6, <2>1 DEF Release
  <2>2. CASE entry[k] # NoEntry
    <3>0. entry[k].refs \in Nat \ {0} /\ entry[k].reg \in Sharers
      BY <2>2, EntryFacts
    <3>1. miscounted' \subseteq Sharers /\ tainted' \subseteq Places
      BY <1>6, <2>2, <3>0 DEF Release
    <3>2. CASE entry[k].refs > 1
      <4>1. entry' = [entry EXCEPT ![k] = [refs |-> entry[k].refs - 1, reg |-> entry[k].reg]]
        BY <1>6, <2>2, <3>2, EntryFacts DEF Release
      <4>2. entry' \in [Places -> [refs : Nat \ {0}, reg : Sharers] \cup {NoEntry}]
        BY <3>0, <3>2, <4>1
      <4> QED  BY <1>6, <2>2, <3>1, <3>2, <4>2 DEF Release
    <3>3. CASE entry[k].refs = 1
      <4>1. stored[reg[h]] \in BrokerIds \cup {NoId}
        BY <1>6 DEF Release, Roles
      <4> QED  BY <1>1, <1>6, <2>2, <3>1, <3>3, <4>1 DEF Release
    <3>4. \A n \in Nat \ {0} : n > 1 \/ n = 1
      OBVIOUS
    <3> QED  BY <3>0, <3>2, <3>3, <3>4
  <2> QED  BY <2>1, <2>2
<1>7. ASSUME NEW h \in Sharers, Released(h) \/ ReleaseFails(h) PROVE SharedTypeOK'
  <2>1. reg[h] \in Sharers
    BY <1>7 DEF Released, ReleaseFails, Roles
  <2> QED  BY <1>0, <1>7, <2>1 DEF Released, ReleaseFails, Finish
<1>8. ASSUME NEW t \in Clears, ClearAll(t) PROVE SharedTypeOK'
  <2>1. CASE step[t] = "new"
    <3>1. step' = [step EXCEPT ![t] = "clearing"]
      BY <1>8, <2>1 DEF ClearAll, Wait
    <3> QED  BY <1>8, <2>1, <3>1 DEF ClearAll
  <2>2. CASE step[t] = "clearing"
    BY <1>1, <1>8, <2>2, SharedAssumption DEF ClearAll
  <2> QED  BY <1>8, <2>1, <2>2 DEF ClearAll
<1>9. ASSUME NEW t \in Clears, Cleared(t) \/ ClearFails(t) PROVE SharedTypeOK'
  <2>1. Mapped \subseteq Sharers
    BY EntryFacts DEF Mapped
  <2> QED  BY <1>0, <1>9, <2>1 DEF Cleared, ClearFails, Finish
<1>10. ASSUME NEW t \in SharedTasks, DropWaiting(t) PROVE SharedTypeOK'
  BY <1>10 DEF DropWaiting
<1>11. ASSUME NEW p \in pending, TakeSubscribe(p) \/ TakeEnd(p) \/ RefuseRequest(p)
       PROVE  SharedTypeOK'
  <2>1. p \in RequestMsg /\ p.task \in SharedTasks
    BY DEF RequestMsg
  <2>2. reply' \in [SharedTasks -> {"none", "ok", "error"}] /\ pending' \subseteq RequestMsg
    BY <1>11, <2>1 DEF TakeSubscribe, TakeEnd, RefuseRequest, Answer
  <2>3. /\ Stopped(p) \subseteq Sharers /\ Strangers(p) \subseteq Sharers
        /\ p.what = "subscribe" => p.task \in Sharers
    BY <2>1 DEF Stopped, Strangers, Outstanding, RequestMsg
  <2>4. served' \subseteq Sharers /\ excused' \subseteq Sharers /\ tainted' \subseteq Places
    BY <1>11, <2>1, <2>3 DEF TakeSubscribe, TakeEnd, RefuseRequest
  <2>5. given' \in [Sharers -> BrokerIds \cup {NoId}]
    BY <1>11, <2>3 DEF TakeSubscribe, TakeEnd, RefuseRequest
  <2> QED  BY <1>11, <2>2, <2>4, <2>5 DEF TakeSubscribe, TakeEnd, RefuseRequest, Answer
<1>12. CASE LoseServed
  BY <1>12 DEF LoseServed
<1>13. CASE RestoreShared
  <2>1. /\ served' \subseteq Sharers /\ excused' \subseteq Sharers
        /\ given' \in [Sharers -> BrokerIds \cup {NoId}]
        /\ stored' \in [Sharers -> BrokerIds \cup {NoId}]
    <3>1. PICK S \in SUBSET Restorable, T \in SUBSET Restorable : Restores(S, T)
      BY <1>13, RestoreOutcome
    <3>2. Restorable \subseteq Sharers
      BY DEF Restorable
    <3> QED  BY <3>1, <3>2 DEF Restores
  <2>2. session' \in [number : Nat, up : BOOLEAN]
    BY <1>13 DEF RestoreShared
  <2> QED  BY <1>13, <2>1, <2>2 DEF RestoreShared
<1> QED  BY <1>2, <1>3, <1>4, <1>5, <1>6, <1>7, <1>8, <1>9, <1>10, <1>11, <1>12, <1>13
         DEF SharedNext

-----------------------------------------------------------------------------
(* Shared subscriptions: the steps. *)

\* The handle refers to a registration.
Shared(h) == step[h] \in {"open", "leaving", "ending"}

\* The invariant but for the types.
SharedRest ==
    Roles /\ Locked /\ Outstanding /\ Entries /\ References /\ Linked /\ Serving /\ Tidy

\* A step that leaves the entries alone, and no handle but perhaps handles of
\* tainted clients gives up its reference, keeps the count.
LEMMA CountKept ==
    ASSUME SharedTypeOK, References, UNCHANGED entry, miscounted \subseteq miscounted',
           tainted \subseteq tainted',
           \A h \in Sharers :
              /\ Shared(h)' => Shared(h)
              /\ Shared(h) => owner'[h] = owner[h] /\ reg'[h] = reg[h]
              /\ Shared(h) /\ ~Shared(h)' =>
                    \/ owner[h] \in tainted' \/ entry[owner[h]] = NoEntry
                    \/ reg[h] # entry[owner[h]].reg
    PROVE  References'
<1> SUFFICES ASSUME NEW k \in Places, entry[k] # NoEntry
             PROVE  /\ IsFiniteSet(Users(k)')
                    /\ entry[k].reg \notin miscounted' => Cardinality(Users(k)') <= entry[k].refs
                    /\ k \notin tainted' => Cardinality(Users(k)') = entry[k].refs
  BY DEF References
<1> DEFINE A == Users(k)
<1> DEFINE B == Users(k)'
<1>1. B \subseteq A /\ (k \notin tainted' => B = A)
  BY DEF Users, Shared
<1>2. /\ IsFiniteSet(A) /\ (entry[k].reg \notin miscounted => Cardinality(A) <= entry[k].refs)
      /\ (k \notin tainted => Cardinality(A) = entry[k].refs)
  BY DEF References
<1>3. entry[k].refs \in Nat
  BY EntryFacts
<1> HIDE DEF A, B
<1>4. IsFiniteSet(B) /\ Cardinality(B) <= Cardinality(A) /\ Cardinality(A) \in Nat /\ Cardinality(B) \in Nat
  BY <1>1, <1>2, FS_Subset, FS_CardinalityType
<1>5. /\ IsFiniteSet(B)
      /\ entry[k].reg \notin miscounted' => Cardinality(B) <= entry[k].refs
      /\ k \notin tainted' => Cardinality(B) = entry[k].refs
  BY <1>1, <1>2, <1>3, <1>4
<1> QED  BY <1>5 DEF B

\* A step that touches one entry keeps the count of the others.
LEMMA CountElsewhere ==
    ASSUME SharedTypeOK, References, NEW k \in Places,
           miscounted \subseteq miscounted', tainted \subseteq tainted',
           \A j \in Places \ {k} :
              entry'[j] = entry[j] /\ (entry[j] # NoEntry => Users(j)' = Users(j)),
           entry'[k] # NoEntry =>
              /\ IsFiniteSet(Users(k)')
              /\ entry'[k].reg \notin miscounted' => Cardinality(Users(k)') <= entry'[k].refs
              /\ k \notin tainted' => Cardinality(Users(k)') = entry'[k].refs
    PROVE  References'
<1> SUFFICES ASSUME NEW j \in Places, entry'[j] # NoEntry
             PROVE  /\ IsFiniteSet(Users(j)')
                    /\ entry'[j].reg \notin miscounted' => Cardinality(Users(j)') <= entry'[j].refs
                    /\ j \notin tainted' => Cardinality(Users(j)') = entry'[j].refs
  BY DEF References
<1>1. CASE j = k
  BY <1>1
<1>2. CASE j # k
  <2>1. entry'[j] = entry[j] /\ Users(j)' = Users(j) /\ entry[j] # NoEntry
    BY <1>2
  <2>2. /\ IsFiniteSet(Users(j))
        /\ entry[j].reg \notin miscounted => Cardinality(Users(j)) <= entry[j].refs
        /\ j \notin tainted => Cardinality(Users(j)) = entry[j].refs
    BY <2>1 DEF References
  <2> QED  BY <2>1, <2>2
<1> QED  BY <1>1, <1>2

\* subscribe() of a handle that nothing refers to yet.
LEMMA SubscribeKeeps ==
    ASSUME SharedInv, NEW h \in Sharers, NEW k \in Places, Subscribe(h, k)
    PROVE  SharedRest'
<1>1. /\ step[h] = "new" /\ step' = [step EXCEPT ![h] = "joining"]
      /\ owner' = [owner EXCEPT ![h] = k]
      /\ UNCHANGED <<family, session, reg, holder, regVars, wireVars, stored, served, given, sharedHistory>>
  BY DEF Subscribe, Wait, servedVars
<1> USE DEF SharedInv, SharedTypeOK, regVars, wireVars, sharedHistory
<1>2. reg[h] = NoTask /\ \A u \in Sharers : reg[u] # h
  BY <1>1, SharedAssumption DEF Roles
<1>3. h \in SharedTasks /\ h \notin Clears
  BY SharedAssumption DEF SharedTasks
<1>4. Roles'
  BY <1>1, <1>2, <1>3 DEF Roles
<1>5. Locked'
  BY <1>1, <1>2, <1>3 DEF Locked, Mutex, Astray
<1>6. Outstanding'
  BY <1>1, <1>2, <1>3 DEF Outstanding, Crossed, RequestMsg
<1>7. Entries'
  BY <1>1, <1>2, <1>3 DEF Entries
<1>8. References'
  BY <1>1, <1>2, <1>3, CountKept DEF Shared
<1>9. Linked'
  BY <1>1, <1>2, <1>3 DEF Linked
<1>10. Serving'
  BY <1>1, <1>2, <1>3 DEF Serving, Ending, Crossed, Locked
<1>11. Tidy'
  BY <1>1, <1>2, <1>3 DEF Tidy, Crossed
<1> QED  BY <1>4, <1>5, <1>6, <1>7, <1>8, <1>9, <1>10, <1>11 DEF SharedRest

\* subscribe() of a known pattern: one reference and one user more.
LEMMA ShareKeeps ==
    ASSUME SharedInv, NEW h \in Sharers, Join(h), entry[owner[h]] # NoEntry
    PROVE  SharedRest'
<1>0. PICK k \in Places, m \in Places : k = owner[h] /\ m = Mutex(k)
  BY SharedAssumption DEF SharedInv, SharedTypeOK, SharedTasks, Mutex
<1> USE <1>0 DEF Mutex
<1> DEFINE r == entry[k].reg
<1>1. /\ step[h] = "joining" /\ step' = [step EXCEPT ![h] = "open"]
      /\ reg' = [reg EXCEPT ![h] = r] /\ holder[m] = NoTask
      /\ entry' = [entry EXCEPT ![k].refs = entry[k].refs + 1]
      /\ UNCHANGED <<family, session, owner, enabled, ended, stored, served, given, sharedHistory, holder, wireVars>>
  BY DEF Join, Share, Turn, servedVars
<1> USE DEF SharedInv, SharedTypeOK, wireVars, sharedHistory
<1>2. reg[h] = NoTask /\ \A u \in Sharers : reg[u] # h
  BY <1>1, SharedAssumption DEF Roles
<1>3. h \in SharedTasks /\ h \notin Clears
  BY SharedAssumption DEF SharedTasks
<1>4. entry[k].refs \in Nat \ {0} /\ r \in Sharers
  BY <1>3, EntryFacts
<1>5. /\ entry'[k] # NoEntry /\ entry'[k].reg = r /\ entry'[k].refs = entry[k].refs + 1
      /\ \A j \in Places : /\ entry'[j] = NoEntry <=> entry[j] = NoEntry
                           /\ entry[j] # NoEntry => entry'[j].reg = entry[j].reg
                           /\ j # k => entry'[j] = entry[j]
  <2>1. entry' = [entry EXCEPT ![k] = [refs |-> entry[k].refs + 1, reg |-> r]]
    BY <1>1, <1>3, EntryFacts
  <2>2. [refs |-> entry[k].refs + 1, reg |-> r] # NoEntry
    <3>1. entry[k].refs + 1 \in Nat \ {0}
      BY <1>4
    <3> QED  BY <1>4, <3>1, NewEntry
  <2> QED  BY <1>3, <2>1, <2>2
<1>6. r # h /\ reg[r] = r /\ owner[r] = k
  BY <1>2, <1>3, SharedAssumption DEF Entries
<1> HIDE DEF r
<1>7. Roles'
  BY <1>1, <1>2, <1>3, <1>4, <1>6, SharedAssumption DEF Roles
<1>8. Locked'
  <2>1. \A t \in SharedTasks : step[t] \in {"asking", "ending"} => t # h /\ Mutex(owner[t]) # m /\ owner[t] # k
    BY <1>1, SharedAssumption DEF Locked, SharedTasks
  <2>2. \A t \in SharedTasks : step'[t] \in {"asking", "ending"} => step'[t] = step[t]
    BY <1>1, <1>3
  <2>3. \A t \in Sharers : t # h => reg'[t] = reg[t]
    BY <1>1
  <2>4. /\ \A t \in SharedTasks : step'[t] \in {"asking", "ending"} => holder'[Mutex(owner'[t])] = t
        /\ \A t \in Sharers : step'[t] = "asking" => entry'[owner'[t]] = NoEntry
    BY <1>1, <1>5, <2>1, <2>2 DEF Locked, SharedTasks
  <2>5. \A t \in Sharers : step'[t] = "ending" =>
          /\ entry'[owner'[t]] # NoEntry /\ entry'[owner'[t]].refs = 1
          /\ Astray(t)' => entry'[owner'[t]].reg \in miscounted' /\ owner'[t] \in tainted'
    BY <1>1, <1>5, <2>1, <2>2, <2>3 DEF Locked, Astray, SharedTasks
  <2>6. \A j \in Places : holder'[j] # NoTask => Mutex(owner'[holder'[j]]) = j
                                                /\ step'[holder'[j]] \in {"asking", "ending"}
    BY <1>1, <1>3 DEF Locked
  <2> QED  BY <1>1, <2>4, <2>5, <2>6 DEF Locked
<1>9. Outstanding'
  BY <1>1, <1>2, <1>3 DEF Outstanding, Crossed, RequestMsg
<1>10. Entries'
  BY <1>1, <1>2, <1>3, <1>5 DEF Entries
<1>11. References'
  <2>1. ASSUME NEW j \in Places, j # k, entry[j] # NoEntry PROVE Users(j)' = Users(j)
    BY <1>1, <1>2, <1>3, <1>5, <2>1 DEF Users
  <2>2. Users(k)' = Users(k) \cup {h} /\ h \notin Users(k)
    BY <1>1, <1>2, <1>3, <1>5 DEF Users, r
  <2>3. /\ IsFiniteSet(Users(k)) /\ (r \notin miscounted => Cardinality(Users(k)) <= entry[k].refs)
        /\ (k \notin tainted => Cardinality(Users(k)) = entry[k].refs)
    BY <1>3 DEF References, r
  <2>4. /\ IsFiniteSet(Users(k) \cup {h}) /\ Cardinality(Users(k) \cup {h}) = Cardinality(Users(k)) + 1
        /\ Cardinality(Users(k)) \in Nat
    BY <2>2, <2>3, FS_AddElement, FS_CardinalityType
  <2>5. /\ IsFiniteSet(Users(k)')
        /\ r \notin miscounted' => Cardinality(Users(k)') <= entry'[k].refs
        /\ k \notin tainted' => Cardinality(Users(k)') = entry'[k].refs
    BY <1>1, <1>4, <1>5, <2>2, <2>3, <2>4
  <2>6. \A j \in Places \ {k} :
           entry'[j] = entry[j] /\ (entry[j] # NoEntry => Users(j)' = Users(j))
    BY <1>5, <2>1
  <2>7. miscounted \subseteq miscounted' /\ tainted \subseteq tainted'
    BY <1>1
  <2> QED  BY <1>3, <1>5, <2>5, <2>6, <2>7, CountElsewhere
<1>12. Linked'
  BY <1>1, <1>2, <1>3, <1>5 DEF Linked, r
<1>13. Serving'
  BY <1>1, <1>2, <1>3, <1>5 DEF Serving, Ending, Crossed, Locked
<1>14. Tidy'
  BY <1>1, <1>2, <1>3, <1>5, <1>6 DEF Tidy, Crossed
<1> QED  BY <1>7, <1>8, <1>9, <1>10, <1>11, <1>12, <1>13, <1>14 DEF SharedRest

\* subscribe() of an unknown pattern asks, with the mutex held.
LEMMA AskKeeps ==
    ASSUME SharedInv, NEW h \in Sharers, Join(h), entry[owner[h]] = NoEntry
    PROVE  SharedRest'
<1>0. PICK k \in Places, m \in Places : k = owner[h] /\ m = Mutex(k)
  BY SharedAssumption DEF SharedInv, SharedTypeOK, SharedTasks, Mutex
<1> USE <1>0 DEF Mutex
<1> DEFINE q == [task |-> h, what |-> "subscribe", id |-> NoId]
<1>1. /\ step[h] = "joining" /\ step' = [step EXCEPT ![h] = "asking"]
      /\ holder[m] = NoTask /\ holder' = [holder EXCEPT ![m] = h]
      /\ sentIn' = [sentIn EXCEPT ![h] = session.number]
      /\ reply' = [reply EXCEPT ![h] = "none"]
      /\ pending' = pending \cup {q}
      /\ UNCHANGED <<family, session, owner, reg, entry, enabled, ended, stored, served, given, sharedHistory>>
  BY DEF Join, Turn, AskHolding, servedVars
<1>6. q.task = h /\ q.what = "subscribe" /\ q.id = NoId
  OBVIOUS
<1> USE DEF SharedInv, SharedTypeOK, sharedHistory
<1>2. reg[h] = NoTask /\ \A u \in Sharers : reg[u] # h
  BY <1>1, SharedAssumption DEF Roles
<1>3. h \in SharedTasks /\ h \notin Clears /\ h # NoTask
  BY SharedAssumption DEF SharedTasks
<1> HIDE DEF q
<1>4. \A t \in SharedTasks : holder[Mutex(owner[t])] = t => Mutex(owner[t]) # m /\ owner[t] # k
  BY <1>1, SharedAssumption DEF SharedTasks
<1>7. Roles'
  BY <1>1, <1>2, <1>3 DEF Roles
<1>8. Locked'
  BY <1>1, <1>2, <1>3, <1>4 DEF Locked, Astray, SharedTasks
<1>9. Outstanding'
  <2>1. ASSUME NEW p \in pending PROVE p.task # h
    BY <1>1, <2>1 DEF Outstanding, RequestMsg
  <2> QED  BY <1>1, <1>6, <1>2, <1>3, <2>1 DEF Outstanding, Crossed, RequestMsg
<1>10. Entries'
  BY <1>1, <1>2, <1>3 DEF Entries
<1>11. References'
  BY <1>1, <1>2, <1>3, CountKept DEF Shared
<1>12. Linked'
  BY <1>1, <1>2, <1>3 DEF Linked
<1>13. Serving'
  BY <1>1, <1>2, <1>3 DEF Serving, Ending, Crossed, Locked
<1>14. Tidy'
  BY <1>1, <1>2, <1>3 DEF Tidy, Crossed
<1> QED  BY <1>7, <1>8, <1>9, <1>10, <1>11, <1>12, <1>13, <1>14 DEF SharedRest

\* The answer makes the first reference, of a registration that is served unless
\* the answer crossed a reconnect.
LEMMA JoinedKeeps ==
    ASSUME SharedInv, NEW h \in Sharers, Joined(h)
    PROVE  SharedRest'
<1>0. PICK k \in Places, m \in Places : k = owner[h] /\ m = Mutex(k)
  BY SharedAssumption DEF SharedInv, SharedTypeOK, SharedTasks, Mutex
<1> USE <1>0 DEF Mutex
<1>1. /\ step[h] = "asking" /\ reply[h] = "ok" /\ step' = [step EXCEPT ![h] = "open"]
      /\ holder' = [holder EXCEPT ![m] = NoTask]
      /\ reply' = [reply EXCEPT ![h] = "none"] /\ sentIn' = [sentIn EXCEPT ![h] = 0]
      /\ reg' = [reg EXCEPT ![h] = h]
      /\ stored' = [stored EXCEPT ![h] = given[h]]
      /\ entry' = [entry EXCEPT ![k] = [refs |-> 1, reg |-> h]]
      /\ enabled' = enabled \cup {h}
      /\ excused' = IF Crossed(h) THEN excused \cup {h} ELSE excused
      /\ UNCHANGED <<family, session, owner, ended, pending, served, given,
                     miscounted, cleared, tainted>>
  BY DEF Joined, Finish, servedVars
<1> USE DEF SharedInv, SharedTypeOK
<1>2. reg[h] = NoTask /\ \A u \in Sharers : reg[u] # h
  BY <1>1, SharedAssumption DEF Roles
<1>3. h \in SharedTasks /\ h \notin Clears /\ h # NoTask
  BY SharedAssumption DEF SharedTasks
<1>4. entry[k] = NoEntry /\ holder[m] = h
  BY <1>1, <1>3 DEF Locked
<1>5. /\ entry'[k] # NoEntry /\ entry'[k].reg = h /\ entry'[k].refs = 1
      /\ \A j \in Places : j # k => entry'[j] = entry[j]
  <2>1. [refs |-> 1, reg |-> h] # NoEntry
    BY NewEntry
  <2> QED  BY <1>1, <1>3, <2>1
<1>6. \A t \in SharedTasks : t # h /\ step[t] \in {"asking", "ending"} => Mutex(owner[t]) # m /\ owner[t] # k
  BY <1>4 DEF Locked
<1>15. h \notin ended \cup cleared
  BY <1>2, <1>3 DEF Tidy
<1>7. Roles'
  BY <1>1, <1>2, <1>3 DEF Roles
<1>8. Locked'
  BY <1>1, <1>2, <1>3, <1>4, <1>5, <1>6 DEF Locked, Astray, SharedTasks
<1>9. Outstanding'
  BY <1>1, <1>2, <1>3 DEF Outstanding, Crossed, RequestMsg
<1>10. Entries'
  BY <1>1, <1>2, <1>3, <1>5, <1>15 DEF Entries
<1>11. References'
  <2>1. ASSUME NEW j \in Places, j # k, entry[j] # NoEntry PROVE Users(j)' = Users(j)
    BY <1>1, <1>2, <1>3, <1>5, <2>1 DEF Users
  <2>2. Users(k)' = {h}
    BY <1>1, <1>2, <1>3, <1>5 DEF Users
  <2>3. IsFiniteSet({h}) /\ Cardinality({h}) = 1
    BY FS_Singleton
  <2>4. /\ IsFiniteSet(Users(k)') /\ Cardinality(Users(k)') <= entry'[k].refs
        /\ Cardinality(Users(k)') = entry'[k].refs
    BY <1>5, <2>2, <2>3
  <2>6. \A j \in Places \ {k} :
           entry'[j] = entry[j] /\ (entry[j] # NoEntry => Users(j)' = Users(j))
    BY <1>5, <2>1
  <2>7. miscounted \subseteq miscounted' /\ tainted \subseteq tainted'
    BY <1>1
  <2> QED  BY <1>3, <1>5, <2>4, <2>6, <2>7, CountElsewhere
<1>12. Linked'
  BY <1>1, <1>2, <1>3, <1>4, <1>5 DEF Linked
<1>13. Serving'
  BY <1>1, <1>2, <1>3, <1>4, <1>5 DEF Serving, Ending, Crossed, Locked
<1>14. Tidy'
  <2>1. \A u \in SharedTasks : u # h => /\ step'[u] = step[u] /\ reply'[u] = reply[u]
                                        /\ Crossed(u)' = Crossed(u)
    BY <1>1 DEF Crossed
  <2>2. \A t \in Clears : step[t] # "ending" \/ m # Main \/ family # "notice"
    BY <1>3, <1>6 DEF Roles, SharedTasks
  <2>3. ASSUME NEW t \in SharedTasks, NEW j \in Places, j \notin tainted, step'[t] = "ending",
               reply'[t] = "ok", ~Crossed(t)', owner[t] = j \/ t \in Clears, entry'[j] # NoEntry
        PROVE  entry'[j].reg \notin served
    <3>1. t # h /\ step[t] = "ending" /\ reply[t] = "ok" /\ ~Crossed(t)
      BY <1>1, <1>3, <2>1, <2>3
    <3>2. t \in Clears => family = "notice"
      BY <3>1 DEF Roles
    <3>3. j # k
      BY <1>6, <2>2, <2>3, <3>1, <3>2
    <3> QED  BY <1>5, <2>3, <3>1, <3>3 DEF Tidy
  <2>4. \A u \in Sharers : u # h => u \in SharedTasks
    BY DEF SharedTasks
  <2> QED  BY <1>1, <1>2, <1>3, <1>4, <1>5, <2>1, <2>3, <2>4 DEF Tidy
<1> QED  BY <1>7, <1>8, <1>9, <1>10, <1>11, <1>12, <1>13, <1>14 DEF SharedRest

\* A subscribe() that fails leaves no entry; only an answer says that the broker
\* does not serve it.
LEMMA JoinFailsKeeps ==
    ASSUME SharedInv, NEW h \in Sharers, JoinFails(h)
    PROVE  SharedRest'
<1>0. PICK k \in Places, m \in Places : k = owner[h] /\ m = Mutex(k)
  BY SharedAssumption DEF SharedInv, SharedTypeOK, SharedTasks, Mutex
<1> USE <1>0 DEF Mutex
<1>1. /\ step[h] = "asking" /\ step' = [step EXCEPT ![h] = "gone"]
      /\ holder' = [holder EXCEPT ![m] = NoTask]
      /\ reply' = [reply EXCEPT ![h] = "none"] /\ sentIn' = [sentIn EXCEPT ![h] = 0]
      /\ tainted' = IF reply[h] = "error" THEN tainted ELSE tainted \cup {k}
      /\ UNCHANGED <<family, session, owner, reg, entry, enabled, ended, pending,
                     stored, served, given, excused, miscounted, cleared>>
  BY DEF JoinFails, Finish, handleVars, regVars, servedVars
<1> USE DEF SharedInv, SharedTypeOK
<1>2. reg[h] = NoTask /\ \A u \in Sharers : reg[u] # h
  BY <1>1, SharedAssumption DEF Roles
<1>3. h \in SharedTasks /\ h \notin Clears /\ h # NoTask
  BY SharedAssumption DEF SharedTasks
<1>4. entry[k] = NoEntry /\ holder[m] = h
  BY <1>1, <1>3 DEF Locked
<1>6. \A t \in SharedTasks : t # h /\ step[t] \in {"asking", "ending"} => Mutex(owner[t]) # m /\ owner[t] # k
  BY <1>4 DEF Locked
<1>7. Roles'
  BY <1>1, <1>2, <1>3 DEF Roles
<1>8. Locked'
  BY <1>1, <1>2, <1>3, <1>4, <1>6 DEF Locked, Astray, SharedTasks
<1>9. Outstanding'
  BY <1>1, <1>2, <1>3 DEF Outstanding, Crossed, RequestMsg
<1>10. Entries'
  BY <1>1, <1>2, <1>3 DEF Entries
<1>11. References'
  BY <1>1, <1>2, <1>3, CountKept DEF Shared
<1>12. Linked'
  BY <1>1, <1>2, <1>3 DEF Linked
<1>13. Serving'
  BY <1>1, <1>2, <1>3, <1>4 DEF Serving, Ending, Crossed, Locked
<1>14. Tidy'
  BY <1>1, <1>2, <1>3, <1>4, <1>6 DEF Tidy, Crossed
<1> QED  BY <1>7, <1>8, <1>9, <1>10, <1>11, <1>12, <1>13, <1>14 DEF SharedRest

\* unsubscribe(), the loss of a handle and the loss of a call that waits for the
\* mutex: the handle goes without its reference, or its client is tainted.
LEMMA CloseKeeps ==
    ASSUME SharedInv, NEW h \in SharedTasks,
           (h \in Sharers /\ (Unsubscribe(h) \/ DropHandle(h))) \/ DropWaiting(h)
    PROVE  SharedRest'
<1>0. PICK k \in Places, m \in Places : k = owner[h] /\ m = Mutex(k)
  BY SharedAssumption DEF SharedInv, SharedTypeOK, SharedTasks, Mutex
<1> USE <1>0 DEF Mutex
<1>1. /\ \/ h \in Sharers /\ step[h] = "open" /\ step'[h] \in {"leaving", "gone"}
         \/ step[h] \in {"joining", "leaving", "clearing"} /\ step'[h] = "gone"
      /\ step'[h] = "gone" =>
            \/ k \in tainted' \/ step[h] \in {"joining", "clearing"}
            \/ h \in Sharers /\ step[h] = "open" /\ reg[h] \in ended
      /\ step' = [step EXCEPT ![h] = step'[h]]
      /\ tainted \subseteq tainted' /\ tainted' \subseteq tainted \cup {k}
      /\ UNCHANGED <<family, session, owner, reg, holder, entry, enabled, ended, reply, sentIn, pending,
                     stored, served, given, excused, miscounted, cleared>>
  <2>1. CASE Unsubscribe(h) /\ h \in Sharers
    BY <2>1 DEF Unsubscribe, Wait, handleVars, regVars, wireVars, servedVars, sharedHistory,
                SharedInv, SharedTypeOK
  <2>2. CASE DropHandle(h) /\ h \in Sharers
    BY <2>2 DEF DropHandle, handleVars, lockVars, regVars, wireVars, servedVars, SharedInv, SharedTypeOK
  <2>3. CASE DropWaiting(h)
    BY <2>3 DEF DropWaiting, handleVars, regVars, wireVars, servedVars, SharedInv, SharedTypeOK
  <2> QED  BY <2>1, <2>2, <2>3
<1> USE DEF SharedInv, SharedTypeOK
<1>3. (h \in Sharers <=> h \notin Clears) /\ h # NoTask
  BY SharedAssumption DEF SharedTasks
<1>4. \A t \in SharedTasks : step'[t] \in {"asking", "ending"} <=> step[t] \in {"asking", "ending"}
  BY <1>1, <1>3
<1>5. \A t \in SharedTasks : t # h => step'[t] = step[t]
  BY <1>1, <1>3
<1>7. Roles'
  BY <1>1, <1>3, <1>5 DEF Roles, SharedTasks
<1>8. Locked'
  BY <1>1, <1>3, <1>4, <1>5, SharedAssumption DEF Locked, Astray, SharedTasks
<1>9. Outstanding'
  BY <1>1, <1>3, <1>4, <1>5 DEF Outstanding, Crossed, RequestMsg
<1>10. Entries'
  BY <1>1 DEF Entries
<1>11. References'
  BY <1>1, <1>3, <1>5, CountKept DEF Shared, Entries, SharedTasks
<1>12. Linked'
  BY <1>1, <1>3, <1>5 DEF Linked, SharedTasks
<1>13. Serving'
  BY <1>1, <1>3, <1>5, SharedAssumption DEF Serving, Ending, Crossed, Locked, SharedTasks
<1>14. Tidy'
  BY <1>1, <1>3, <1>5 DEF Tidy, Crossed, SharedTasks
<1> QED  BY <1>7, <1>8, <1>9, <1>10, <1>11, <1>12, <1>13, <1>14 DEF SharedRest

\* unsubscribe() when the pattern maps to nothing any more.
LEMMA ReleaseNothingKeeps ==
    ASSUME SharedInv, NEW h \in Sharers, Release(h), entry[owner[h]] = NoEntry
    PROVE  SharedRest'
<1>0. PICK k \in Places, m \in Places : k = owner[h] /\ m = Mutex(k)
  BY SharedAssumption DEF SharedInv, SharedTypeOK, SharedTasks, Mutex
<1> USE <1>0 DEF Mutex
<1>1. /\ step[h] = "leaving" /\ step' = [step EXCEPT ![h] = "gone"] /\ entry[k] = NoEntry
      /\ holder[m] = NoTask
      /\ UNCHANGED <<family, session, owner, reg, holder, entry, enabled, ended, reply, sentIn,
                     pending, stored, served, given, excused, miscounted, cleared, tainted>>
  BY DEF Release, Turn, wireVars, handleVars, servedVars
<1> USE DEF SharedInv, SharedTypeOK
<1>3. h \in SharedTasks /\ h \notin Clears /\ h # NoTask
  BY SharedAssumption DEF SharedTasks
<1>7. Roles'
  BY <1>1, <1>3 DEF Roles
<1>8. Locked'
  BY <1>1, <1>3, SharedAssumption DEF Locked, Astray, SharedTasks
<1>9. Outstanding'
  BY <1>1, <1>3 DEF Outstanding, Crossed, RequestMsg
<1>10. Entries'
  BY <1>1 DEF Entries
<1>11. References'
  BY <1>1, <1>3, CountKept DEF Shared
<1>12. Linked'
  BY <1>1, <1>3 DEF Linked
<1>13. Serving'
  BY <1>1, <1>3, SharedAssumption DEF Serving, Ending, Crossed, Locked, SharedTasks
<1>14. Tidy'
  BY <1>1, <1>3 DEF Tidy, Crossed
<1> QED  BY <1>7, <1>8, <1>9, <1>10, <1>11, <1>12, <1>13, <1>14 DEF SharedRest

\* unsubscribe() of one of several: one reference and one user less, or the
\* reference of another registration, which is then miscounted.
LEMMA ReleaseOneKeeps ==
    ASSUME SharedInv, NEW h \in Sharers, Release(h), entry[owner[h]] # NoEntry,
           entry[owner[h]].refs > 1
    PROVE  SharedRest'
<1>0. PICK k \in Places, m \in Places : k = owner[h] /\ m = Mutex(k)
  BY SharedAssumption DEF SharedInv, SharedTypeOK, SharedTasks, Mutex
<1> USE <1>0 DEF Mutex
<1> DEFINE r == entry[k].reg
<1>1. /\ step[h] = "leaving" /\ step' = [step EXCEPT ![h] = "gone"] /\ entry[k] # NoEntry
      /\ holder[m] = NoTask
      /\ entry' = [entry EXCEPT ![k].refs = entry[k].refs - 1]
      /\ miscounted' = IF r # reg[h] THEN miscounted \cup {r} ELSE miscounted
      /\ tainted' = IF r # reg[h] THEN tainted \cup {k} ELSE tainted
      /\ UNCHANGED <<family, session, owner, reg, holder, enabled, ended, reply, sentIn,
                     pending, stored, served, given, excused, cleared>>
  BY DEF Release, Turn, Astray, wireVars, handleVars, servedVars
<1> USE DEF SharedInv, SharedTypeOK
<1>3. h \in SharedTasks /\ h \notin Clears /\ h # NoTask
  BY SharedAssumption DEF SharedTasks
<1>4. entry[k].refs \in Nat \ {0} /\ entry[k].refs - 1 \in Nat \ {0} /\ r \in Sharers
  <2>1. entry[k].refs \in Nat \ {0} /\ r \in Sharers
    BY <1>1, EntryFacts
  <2>2. \A n \in Nat \ {0} : n > 1 => n - 1 \in Nat \ {0}
    OBVIOUS
  <2> QED  BY <2>1, <2>2
<1>5. /\ entry'[k] # NoEntry /\ entry'[k].reg = r /\ entry'[k].refs = entry[k].refs - 1
      /\ \A j \in Places : /\ entry'[j] = NoEntry <=> entry[j] = NoEntry
                           /\ entry[j] # NoEntry => entry'[j].reg = entry[j].reg
                           /\ j # k => entry'[j] = entry[j]
  <2>1. entry' = [entry EXCEPT ![k] = [refs |-> entry[k].refs - 1, reg |-> r]]
    BY <1>1, EntryFacts
  <2>2. [refs |-> entry[k].refs - 1, reg |-> r] # NoEntry
    BY <1>4, NewEntry
  <2> QED  BY <2>1, <2>2
<1>6. \A t \in SharedTasks : step[t] \in {"asking", "ending"} => t # h /\ Mutex(owner[t]) # m /\ owner[t] # k
  BY <1>1, SharedAssumption DEF Locked, SharedTasks
<1> HIDE DEF r
<1>7. Roles'
  BY <1>1, <1>3 DEF Roles
<1>8. Locked'
  BY <1>1, <1>3, <1>5, <1>6, SharedAssumption DEF Locked, Astray, SharedTasks
<1>9. Outstanding'
  BY <1>1, <1>3 DEF Outstanding, Crossed, RequestMsg
<1>10. Entries'
  BY <1>1, <1>5 DEF Entries
<1>11. References'
  <2>1. ASSUME NEW j \in Places, j # k, entry[j] # NoEntry PROVE Users(j)' = Users(j)
    BY <1>1, <1>3, <1>5, <2>1 DEF Users
  <2>2. Users(k)' = Users(k) \ {h} /\ (r = reg[h] => h \in Users(k))
    BY <1>1, <1>3, <1>5 DEF Users, r
  <2>3. /\ IsFiniteSet(Users(k)) /\ (r \notin miscounted => Cardinality(Users(k)) <= entry[k].refs)
        /\ (k \notin tainted => Cardinality(Users(k)) = entry[k].refs)
    BY <1>1 DEF References, r
  <2>4. /\ IsFiniteSet(Users(k) \ {h})
        /\ h \in Users(k) => Cardinality(Users(k) \ {h}) = Cardinality(Users(k)) - 1
        /\ Cardinality(Users(k)) \in Nat
    BY <2>3, FS_RemoveElement, FS_CardinalityType
  <2>5. /\ IsFiniteSet(Users(k)')
        /\ r \notin miscounted' => Cardinality(Users(k)') <= entry'[k].refs
        /\ k \notin tainted' => Cardinality(Users(k)') = entry'[k].refs
    BY <1>1, <1>4, <1>5, <2>2, <2>3, <2>4
  <2>6. \A j \in Places \ {k} :
           entry'[j] = entry[j] /\ (entry[j] # NoEntry => Users(j)' = Users(j))
    BY <1>5, <2>1
  <2>7. miscounted \subseteq miscounted' /\ tainted \subseteq tainted'
    BY <1>1
  <2> QED  BY <1>3, <1>5, <2>5, <2>6, <2>7, CountElsewhere
<1>12. Linked'
  BY <1>1, <1>3, <1>5 DEF Linked
<1>13. Serving'
  BY <1>1, <1>3, <1>5, SharedAssumption DEF Serving, Ending, Crossed, Locked, SharedTasks
<1>14. Tidy'
  BY <1>1, <1>3, <1>5 DEF Tidy, Crossed
<1> QED  BY <1>7, <1>8, <1>9, <1>10, <1>11, <1>12, <1>13, <1>14 DEF SharedRest

\* unsubscribe() of the last one asks the broker to stop, with the mutex held.
LEMMA ReleaseLastKeeps ==
    ASSUME SharedInv, NEW h \in Sharers, Release(h), entry[owner[h]] # NoEntry,
           entry[owner[h]].refs = 1
    PROVE  SharedRest'
<1>0. PICK k \in Places, m \in Places : k = owner[h] /\ m = Mutex(k)
  BY SharedAssumption DEF SharedInv, SharedTypeOK, SharedTasks, Mutex
<1> USE <1>0 DEF Mutex
<1> DEFINE r == entry[k].reg
<1> DEFINE q == [task |-> h, what |-> "unsubscribe", id |-> stored[reg[h]]]
<1>1. /\ step[h] = "leaving" /\ step' = [step EXCEPT ![h] = "ending"]
      /\ entry[k] # NoEntry /\ entry[k].refs = 1
      /\ holder[m] = NoTask /\ holder' = [holder EXCEPT ![m] = h]
      /\ sentIn' = [sentIn EXCEPT ![h] = session.number]
      /\ reply' = [reply EXCEPT ![h] = "none"]
      /\ pending' = pending \cup {q}
      /\ miscounted' = IF r # reg[h] THEN miscounted \cup {r} ELSE miscounted
      /\ tainted' = IF r # reg[h] THEN tainted \cup {k} ELSE tainted
      /\ UNCHANGED <<family, session, owner, reg, entry, enabled, ended, stored, served, given, excused, cleared>>
  BY DEF Release, Turn, Astray, AskHolding, handleVars, servedVars
<1>2. q.task = h /\ q.what = "unsubscribe"
  OBVIOUS
<1> USE DEF SharedInv, SharedTypeOK
<1>3. h \in SharedTasks /\ h \notin Clears /\ h # NoTask /\ reg[h] # NoTask
  BY <1>1, SharedAssumption DEF SharedTasks, Roles
<1>6. \A t \in SharedTasks : step[t] \in {"asking", "ending"} => t # h /\ Mutex(owner[t]) # m /\ owner[t] # k
  BY <1>1, SharedAssumption DEF Locked, SharedTasks
<1> HIDE DEF q
<1>7. Roles'
  BY <1>1, <1>3 DEF Roles
<1>8. Locked'
  BY <1>1, <1>3, <1>6, SharedAssumption DEF Locked, Astray, SharedTasks
<1>9. Outstanding'
  <2>1. ASSUME NEW p \in pending PROVE p.task # h
    BY <1>1, <1>3, <2>1 DEF Outstanding, RequestMsg
  <2> QED  BY <1>1, <1>2, <1>3, <2>1 DEF Outstanding, Crossed, RequestMsg
<1>10. Entries'
  BY <1>1 DEF Entries
<1>11. References'
  BY <1>1, <1>3, CountKept DEF Shared
<1>12. Linked'
  BY <1>1, <1>3 DEF Linked
<1>13. Serving'
  BY <1>1, <1>3, <1>6, SharedAssumption DEF Serving, Ending, Crossed, Locked, SharedTasks
<1>14. Tidy'
  BY <1>1, <1>3 DEF Tidy, Crossed
<1> QED  BY <1>7, <1>8, <1>9, <1>10, <1>11, <1>12, <1>13, <1>14 DEF SharedRest

\* Two handles that refer to a registration are more than one reference.
LEMMA TwoAreMore ==
    ASSUME NEW S, IsFiniteSet(S), NEW a \in S, NEW b \in S, a # b
    PROVE  ~(Cardinality(S) <= 1)
<1>1. IsFiniteSet({a}) /\ Cardinality({a}) = 1 /\ b \notin {a}
  BY FS_Singleton
<1>2. Cardinality({a} \cup {b}) = 2
  BY <1>1, FS_AddElement
<1>3. Cardinality({a} \cup {b}) <= Cardinality(S) /\ Cardinality(S) \in Nat
  <2>1. {a} \cup {b} \subseteq S
    OBVIOUS
  <2> QED  BY <2>1, FS_Subset, FS_CardinalityType
<1> QED  BY <1>2, <1>3

\* The acknowledged end of the last handle: it was the last, so that no handle is
\* left without its registration, and on an untainted client nothing is left at all.
LEMMA ReleasedKeeps ==
    ASSUME SharedInv, NEW h \in Sharers, Released(h)
    PROVE  SharedRest'
<1>0. PICK k \in Places, m \in Places : k = owner[h] /\ m = Mutex(k)
  BY SharedAssumption DEF SharedInv, SharedTypeOK, SharedTasks, Mutex
<1> USE <1>0 DEF Mutex
<1>1. /\ step[h] = "ending" /\ reply[h] = "ok" /\ step' = [step EXCEPT ![h] = "gone"]
      /\ holder' = [holder EXCEPT ![m] = NoTask]
      /\ reply' = [reply EXCEPT ![h] = "none"] /\ sentIn' = [sentIn EXCEPT ![h] = 0]
      /\ enabled' = enabled \ {reg[h]}
      /\ ended \subseteq ended' /\ ended' \subseteq ended \cup {reg[h]}
      /\ entry' = [entry EXCEPT ![k] = NoEntry]
      /\ tainted' = IF Crossed(h) THEN tainted \cup {k} ELSE tainted
      /\ UNCHANGED <<family, session, owner, reg, pending, stored, served, given,
                     excused, miscounted, cleared>>
  BY DEF Released, Finish, handleVars, servedVars
<1> USE DEF SharedInv, SharedTypeOK
<1>2. reg[h] \in Sharers /\ reg[reg[h]] = reg[h] /\ owner[reg[h]] = k
  BY <1>1 DEF Roles
<1>3. h \in SharedTasks /\ h \notin Clears /\ h # NoTask
  BY SharedAssumption DEF SharedTasks
<1>4. /\ holder[m] = h /\ entry[k] # NoEntry /\ entry[k].refs = 1
      /\ entry[k].reg # reg[h] => entry[k].reg \in miscounted /\ k \in tainted
  BY <1>1, <1>3 DEF Locked, Mutex, Astray
<1>5. entry'[k] = NoEntry /\ \A j \in Places : j # k => entry'[j] = entry[j]
  BY <1>1
<1>6. \A t \in SharedTasks : t # h /\ step[t] \in {"asking", "ending"} => Mutex(owner[t]) # m /\ owner[t] # k
  BY <1>4 DEF Locked
<1>7. Roles'
  BY <1>1, <1>3 DEF Roles
<1>8. Locked'
  BY <1>1, <1>3, <1>4, <1>5, <1>6 DEF Locked, Astray, SharedTasks
<1>9. Outstanding'
  BY <1>1, <1>3 DEF Outstanding, Crossed, RequestMsg
<1>10. Entries'
  BY <1>1, <1>2, <1>5 DEF Entries
<1>11. References'
  <2>1. ASSUME NEW j \in Places, j # k, entry[j] # NoEntry PROVE Users(j)' = Users(j)
    BY <1>1, <1>3, <1>5, <2>1 DEF Users
  <2>6. \A j \in Places \ {k} :
           entry'[j] = entry[j] /\ (entry[j] # NoEntry => Users(j)' = Users(j))
    BY <1>5, <2>1
  <2>7. miscounted \subseteq miscounted' /\ tainted \subseteq tainted'
    BY <1>1
  <2> QED  BY <1>5, <2>6, <2>7, CountElsewhere
<1>12. Linked'
  <2>1. ASSUME NEW u \in Sharers, u # h, owner[u] = k, step[u] \in {"open", "leaving"},
               reg[u] = entry[k].reg
        PROVE  reg[u] \in miscounted
    <3>1. SUFFICES ASSUME entry[k].reg \notin miscounted PROVE FALSE
      BY <2>1
    <3>2. h \in Users(k) /\ u \in Users(k)
      BY <1>1, <1>4, <2>1, <3>1 DEF Users
    <3>3. IsFiniteSet(Users(k)) /\ Cardinality(Users(k)) <= 1
      BY <1>4, <3>1 DEF References
    <3> QED  BY <2>1, <3>2, <3>3, TwoAreMore
  <2>2. \A u \in Sharers : step'[u] \in {"open", "leaving"} => u # h /\ step'[u] = step[u]
    BY <1>1, <1>3
  <2> QED  BY <1>1, <1>5, <2>1, <2>2 DEF Linked, SharedTasks
<1>13. Serving'
  BY <1>1, <1>3, <1>4, <1>5 DEF Serving, Ending, Crossed, Locked
<1>14. Tidy'
  <2>1. \A u \in Sharers : u \in enabled' \cup ended' \cup cleared' => reg'[u] = u
    BY <1>1, <1>2 DEF Tidy
  <2>2. ASSUME NEW u \in Sharers, owner[u] = k, k \notin tainted'
        PROVE  u \notin enabled' /\ u \notin served'
    <3>1. k \notin tainted /\ ~Crossed(h) /\ entry[k].reg = reg[h]
      BY <1>1, <1>4, <2>2
    <3>2. u \notin enabled'
      BY <1>1, <2>2, <3>1 DEF Tidy
    <3>3. entry[k].reg \notin served
      BY <1>1, <1>3, <1>4, <3>1 DEF Tidy
    <3>4. step[u] # "asking"
      BY <1>1, <1>6, <2>2 DEF SharedTasks
    <3> QED  BY <1>1, <2>2, <3>1, <3>2, <3>3, <3>4 DEF Tidy
  <2> QED  BY <1>1, <1>3, <1>5, <1>6, <2>1, <2>2 DEF Tidy, Crossed, SharedTasks
<1> QED  BY <1>7, <1>8, <1>9, <1>10, <1>11, <1>12, <1>13, <1>14 DEF SharedRest

\* The end of the last handle that fails: whether the broker still serves the
\* registration is not known.
LEMMA ReleaseFailsKeeps ==
    ASSUME SharedInv, NEW h \in Sharers, ReleaseFails(h)
    PROVE  SharedRest'
<1>0. PICK k \in Places, m \in Places : k = owner[h] /\ m = Mutex(k)
  BY SharedAssumption DEF SharedInv, SharedTypeOK, SharedTasks, Mutex
<1> USE <1>0 DEF Mutex
<1>1. /\ step[h] = "ending" /\ step' = [step EXCEPT ![h] = "gone"]
      /\ holder' = [holder EXCEPT ![m] = NoTask]
      /\ reply' = [reply EXCEPT ![h] = "none"] /\ sentIn' = [sentIn EXCEPT ![h] = 0]
      /\ excused' = excused \cup {reg[h]} /\ tainted' = tainted \cup {k}
      /\ UNCHANGED <<family, session, owner, reg, entry, enabled, ended, pending,
                     stored, served, given, miscounted, cleared>>
  BY DEF ReleaseFails, Finish, handleVars, regVars, servedVars
<1> USE DEF SharedInv, SharedTypeOK
<1>3. h \in SharedTasks /\ h \notin Clears /\ h # NoTask
  BY SharedAssumption DEF SharedTasks
<1>4. /\ holder[m] = h /\ entry[k] # NoEntry
      /\ entry[k].reg # reg[h] => entry[k].reg \in miscounted
  BY <1>1, <1>3 DEF Locked, Mutex, Astray
<1>6. \A t \in SharedTasks : t # h /\ step[t] \in {"asking", "ending"} => Mutex(owner[t]) # m /\ owner[t] # k
  BY <1>4 DEF Locked
<1>7. Roles'
  BY <1>1, <1>3 DEF Roles
<1>8. Locked'
  BY <1>1, <1>3, <1>4, <1>6 DEF Locked, Astray, SharedTasks
<1>9. Outstanding'
  BY <1>1, <1>3 DEF Outstanding, Crossed, RequestMsg
<1>10. Entries'
  BY <1>1 DEF Entries
<1>11. References'
  BY <1>1, <1>3, CountKept DEF Shared
<1>12. Linked'
  BY <1>1, <1>3 DEF Linked
<1>13. Serving'
  BY <1>1, <1>3, <1>4, <1>6 DEF Serving, Ending, Crossed, Locked
<1>14. Tidy'
  BY <1>1, <1>3, <1>6 DEF Tidy, Crossed
<1> QED  BY <1>7, <1>8, <1>9, <1>10, <1>11, <1>12, <1>13, <1>14 DEF SharedRest

\* unsubscribe_all() waits for the mutex.
LEMMA ClearWaitsKeeps ==
    ASSUME SharedInv, NEW t \in Clears, ClearAll(t), step[t] = "new"
    PROVE  SharedRest'
<1>1. /\ family = "notice" /\ step[t] = "new" /\ step' = [step EXCEPT ![t] = "clearing"]
      /\ UNCHANGED <<family, session, owner, reg, holder, entry, enabled, ended, reply, sentIn,
                     pending, stored, served, given, excused, miscounted, cleared, tainted>>
  BY DEF ClearAll, Wait, wireVars, handleVars, regVars, servedVars, sharedHistory
<1> USE DEF SharedInv, SharedTypeOK
<1>3. t \in SharedTasks /\ t \notin Sharers /\ t # NoTask
  BY SharedAssumption DEF SharedTasks
<1>5. \A u \in Sharers : step'[u] = step[u]
  BY <1>1, <1>3 DEF SharedTasks
<1>7. Roles'
  BY <1>1, <1>3, <1>5 DEF Roles, SharedTasks
<1>8. Locked'
  BY <1>1, <1>3, <1>5 DEF Locked, Mutex, Astray
<1>9. Outstanding'
  BY <1>1, <1>3, <1>5 DEF Outstanding, Crossed, RequestMsg
<1>10. Entries'
  BY <1>1 DEF Entries
<1>11. References'
  BY <1>1, <1>5, CountKept DEF Shared
<1>12. Linked'
  BY <1>1, <1>5 DEF Linked
<1>13. Serving'
  BY <1>1, <1>3, <1>5 DEF Serving, Ending, Crossed, Locked
<1>14. Tidy'
  BY <1>1, <1>3, <1>5 DEF Tidy, Crossed
<1> QED  BY <1>7, <1>8, <1>9, <1>10, <1>11, <1>12, <1>13, <1>14 DEF SharedRest

\* unsubscribe_all() asks, with the mutex held.
LEMMA ClearAsksKeeps ==
    ASSUME SharedInv, NEW t \in Clears, ClearAll(t), step[t] = "clearing"
    PROVE  SharedRest'
<1> DEFINE q == [task |-> t, what |-> "unsubscribe_all", id |-> NoId]
<1>1. /\ family = "notice" /\ step[t] = "clearing" /\ step' = [step EXCEPT ![t] = "ending"]
      /\ holder[Main] = NoTask /\ holder' = [holder EXCEPT ![Main] = t]
      /\ sentIn' = [sentIn EXCEPT ![t] = session.number]
      /\ reply' = [reply EXCEPT ![t] = "none"]
      /\ pending' = pending \cup {q}
      /\ UNCHANGED <<family, session, owner, reg, entry, enabled, ended, stored, served, given, excused,
                     miscounted, cleared, tainted>>
  BY DEF ClearAll, Turn, AskHolding, Mutex, handleVars, regVars, servedVars, sharedHistory
<1>2. q.task = t /\ q.what = "unsubscribe_all"
  OBVIOUS
<1> USE DEF SharedInv, SharedTypeOK
<1>3. t \in SharedTasks /\ t \notin Sharers /\ t # NoTask /\ owner[t] = Main /\ Main \in Places
  BY SharedAssumption DEF SharedTasks, Roles
<1>5. \A u \in Sharers : step'[u] = step[u] /\ reply'[u] = reply[u] /\ sentIn'[u] = sentIn[u]
  BY <1>1, <1>3 DEF SharedTasks
<1>6. \A u \in SharedTasks : step[u] \notin {"asking", "ending"}
  BY <1>1, SharedAssumption DEF Locked, Mutex, SharedTasks
<1> HIDE DEF q
<1>7. Roles'
  BY <1>1, <1>3, <1>5 DEF Roles, SharedTasks
<1>8. Locked'
  BY <1>1, <1>3, <1>5, <1>6 DEF Locked, Mutex, Astray
<1>9. Outstanding'
  BY <1>1, <1>2, <1>3, <1>5 DEF Outstanding, Crossed, RequestMsg
<1>10. Entries'
  BY <1>1 DEF Entries
<1>11. References'
  BY <1>1, <1>5, CountKept DEF Shared
<1>12. Linked'
  BY <1>1, <1>5 DEF Linked
<1>13. Serving'
  BY <1>1, <1>3, <1>5 DEF Serving, Ending, Crossed, Locked
<1>14. Tidy'
  BY <1>1, <1>3, <1>5 DEF Tidy, Crossed
<1> QED  BY <1>7, <1>8, <1>9, <1>10, <1>11, <1>12, <1>13, <1>14 DEF SharedRest

\* An acknowledged unsubscribe_all() ends what the pattern maps to and says so to
\* the handles that referred to it.
LEMMA ClearedKeeps ==
    ASSUME SharedInv, NEW t \in Clears, Cleared(t)
    PROVE  SharedRest'
<1> USE DEF SharedInv, SharedTypeOK
<1>0. owner[t] = Main /\ Main \in Places /\ family = "notice"
  BY SharedAssumption DEF Roles, Cleared
<1>1. /\ step[t] = "ending" /\ reply[t] = "ok" /\ step' = [step EXCEPT ![t] = "gone"]
      /\ holder' = [holder EXCEPT ![Main] = NoTask]
      /\ reply' = [reply EXCEPT ![t] = "none"] /\ sentIn' = [sentIn EXCEPT ![t] = 0]
      /\ enabled' = enabled \ Mapped /\ ended' = ended \cup Mapped
      /\ cleared' = cleared \cup Mapped
      /\ entry' = [k \in Places |-> NoEntry]
      /\ tainted' = IF Crossed(t) THEN Places ELSE tainted
      /\ UNCHANGED <<family, session, owner, reg, pending, stored, served, given, excused,
                     miscounted>>
  BY <1>0 DEF Cleared, Finish, Mutex, handleVars, servedVars
<1>2. \A u \in Mapped : u \in Sharers /\ reg[u] = u
  BY EntryFacts DEF Entries, Mapped
<1>3. t \in SharedTasks /\ t \notin Sharers /\ t # NoTask
  BY SharedAssumption DEF SharedTasks
<1>4. holder[Main] = t
  BY <1>0, <1>1, <1>3 DEF Locked, Mutex
<1>5. \A k \in Places : entry'[k] = NoEntry
  BY <1>1
<1>6. \A u \in SharedTasks : u # t => step[u] \notin {"asking", "ending"}
  BY <1>0, <1>4 DEF Locked, Mutex
<1>15. \A u \in Sharers : step'[u] = step[u]
  BY <1>1, <1>3 DEF SharedTasks
<1>16. \A k \in Places : entry[k] # NoEntry => entry[k].reg \in Mapped
  BY DEF Mapped
<1> HIDE DEF Mapped
<1>7. Roles'
  BY <1>1, <1>3, <1>15 DEF Roles, SharedTasks
<1>8. Locked'
  <2>1. \A u \in SharedTasks : step'[u] \notin {"asking", "ending"}
    BY <1>1, <1>3, <1>6
  <2>2. \A k \in Places : holder'[k] # NoTask => k # Main /\ holder'[k] = holder[k]
    BY <1>0, <1>1
  <2>3. \A k \in Places : holder[k] # NoTask => k = Main
    BY <1>0 DEF Locked, Mutex
  <2> QED  BY <2>1, <2>2, <2>3 DEF Locked, SharedTasks
<1>9. Outstanding'
  BY <1>1, <1>3, <1>15 DEF Outstanding, Crossed, RequestMsg
<1>10. Entries'
  BY <1>5 DEF Entries
<1>11. References'
  BY <1>5 DEF References
<1>12. Linked'
  BY <1>1, <1>15, <1>16 DEF Linked, SharedTasks
<1>13. Serving'
  BY <1>1, <1>3, <1>5, <1>15 DEF Serving, Crossed
<1>14. Tidy'
  <2>1. \A u \in Sharers : u \in enabled' \cup ended' \cup cleared' => reg'[u] = u
    BY <1>1, <1>2 DEF Tidy
  <2>2. ASSUME NEW u \in Sharers, owner[u] \notin tainted'
        PROVE  u \notin enabled' /\ u \notin served'
    <3>1. owner[u] \in Places /\ owner[u] \notin tainted /\ ~Crossed(t)
      BY <1>1, <2>2 DEF SharedTasks
    <3>2. u \notin enabled'
      BY <1>1, <1>16, <3>1 DEF Tidy
    <3>3. entry[owner[u]] # NoEntry => entry[owner[u]].reg \notin served
      BY <1>1, <1>3, <3>1 DEF Tidy
    <3>4. step[u] # "asking"
      BY <1>3, <1>6 DEF SharedTasks
    <3> QED  BY <1>1, <3>1, <3>2, <3>3, <3>4 DEF Tidy
  <2>3. \A u \in Sharers : /\ step'[u] = step[u] /\ reply'[u] = reply[u] /\ reg'[u] = reg[u]
                           /\ u \in enabled' \cup served' => u \in enabled \cup served
    BY <1>1, <1>3, <1>15 DEF SharedTasks
  <2> QED  BY <1>1, <1>5, <2>1, <2>2, <2>3 DEF Tidy
<1> QED  BY <1>7, <1>8, <1>9, <1>10, <1>11, <1>12, <1>13, <1>14 DEF SharedRest

\* An unsubscribe_all() that fails leaves the handles and may have stopped them.
LEMMA ClearFailsKeeps ==
    ASSUME SharedInv, NEW t \in Clears, ClearFails(t)
    PROVE  SharedRest'
<1> USE DEF SharedInv, SharedTypeOK
<1>0. owner[t] = Main /\ Main \in Places /\ family = "notice"
  BY SharedAssumption DEF Roles, ClearFails
<1>1. /\ step[t] = "ending" /\ step' = [step EXCEPT ![t] = "gone"]
      /\ holder' = [holder EXCEPT ![Main] = NoTask]
      /\ reply' = [reply EXCEPT ![t] = "none"] /\ sentIn' = [sentIn EXCEPT ![t] = 0]
      /\ excused' = excused \cup Mapped
      /\ tainted' = Places
      /\ UNCHANGED <<family, session, owner, reg, entry, enabled, ended, pending,
                     stored, served, given, miscounted, cleared>>
  BY <1>0 DEF ClearFails, Finish, Mutex, handleVars, regVars, servedVars
<1>3. t \in SharedTasks /\ t \notin Sharers /\ t # NoTask
  BY SharedAssumption DEF SharedTasks
<1>4. holder[Main] = t
  BY <1>0, <1>1, <1>3 DEF Locked, Mutex
<1>6. \A u \in SharedTasks : u # t => step[u] \notin {"asking", "ending"}
  BY <1>0, <1>4 DEF Locked, Mutex
<1>15. \A u \in Sharers : step'[u] = step[u]
  BY <1>1, <1>3 DEF SharedTasks
<1>16. \A k \in Places : entry[k] # NoEntry => entry[k].reg \in Mapped
  BY DEF Mapped
<1>17. \A u \in Sharers : owner'[u] \in tainted'
  BY <1>1 DEF SharedTasks
<1> HIDE DEF Mapped
<1>7. Roles'
  BY <1>1, <1>3, <1>15 DEF Roles, SharedTasks
<1>8. Locked'
  <2>1. \A u \in SharedTasks : step'[u] \notin {"asking", "ending"}
    BY <1>1, <1>3, <1>6
  <2>2. \A k \in Places : holder'[k] # NoTask => k # Main /\ holder'[k] = holder[k]
    BY <1>0, <1>1
  <2>3. \A k \in Places : holder[k] # NoTask => k = Main
    BY <1>0 DEF Locked, Mutex
  <2> QED  BY <2>1, <2>2, <2>3 DEF Locked, SharedTasks
<1>9. Outstanding'
  BY <1>1, <1>3, <1>15, <1>17 DEF Outstanding, Crossed, RequestMsg
<1>10. Entries'
  BY <1>1 DEF Entries
<1>11. References'
  BY <1>1, <1>15, CountKept DEF Shared
<1>12. Linked'
  BY <1>1, <1>15 DEF Linked
<1>13. Serving'
  BY <1>1, <1>3, <1>6, <1>15, <1>16 DEF Serving, Crossed, SharedTasks
<1>14. Tidy'
  BY <1>1, <1>3, <1>15, <1>17 DEF Tidy, SharedTasks
<1> QED  BY <1>7, <1>8, <1>9, <1>10, <1>11, <1>12, <1>13, <1>14 DEF SharedRest

\* The broker takes a SUBSCRIBE: it serves what no place maps to yet, under an id of
\* its own.
LEMMA TakeSubscribeKeeps ==
    ASSUME SharedInv, NEW p \in pending, TakeSubscribe(p)
    PROVE  SharedRest'
<1>0. PICK w \in SharedTasks : w = p.task
  BY DEF SharedInv, SharedTypeOK, RequestMsg
<1> USE <1>0
<1>1. /\ session.up /\ pending' = pending \ {p} /\ p.what = "subscribe"
      /\ reply' = IF Waiting(w) THEN [reply EXCEPT ![w] = "ok"] ELSE reply
      /\ served' = served \cup {w}
      /\ \E i \in BrokerIds : given' = [given EXCEPT ![w] = i]
      /\ UNCHANGED <<family, session, step, owner, reg, stored, holder, entry, enabled, ended,
                     sentIn, excused, miscounted, cleared, tainted>>
  BY DEF TakeSubscribe, Answer, lockVars, handleVars, regVars
<1> USE DEF SharedInv, SharedTypeOK
<1>2. /\ w \in Sharers /\ reg[w] = NoTask
      /\ \/ step[w] = "asking" /\ reply[w] = "none"
         \/ step[w] = "gone" /\ owner[w] \in tainted
  BY <1>1 DEF Outstanding
<1>3. \A u \in SharedTasks : /\ u # w => reply'[u] = reply[u]
                             /\ ~Waiting(w) => reply'[u] = reply[u]
                             /\ Waiting(w) => reply'[w] = "ok"
  BY <1>1
<1>4. \A k \in Places : entry[k] # NoEntry =>
         entry[k].reg \in Sharers /\ entry[k].reg # w /\ given'[entry[k].reg] = given[entry[k].reg]
  BY <1>1, <1>2, EntryFacts, SharedAssumption DEF Entries
<1>7. Roles'
  BY <1>1 DEF Roles
<1>8. Locked'
  BY <1>1 DEF Locked, Mutex, Astray
<1>9. Outstanding'
  <2>1. ASSUME NEW q \in pending', q.what = "subscribe" PROVE q.task # w
    <3>1. q \in RequestMsg /\ q \in pending /\ q # p /\ p \in RequestMsg
      BY <1>1, <2>1
    <3>2. p.id = NoId /\ q.id = NoId
      BY <1>1, <2>1, <3>1 DEF Outstanding
    <3> QED  BY <1>1, <2>1, <3>1, <3>2 DEF RequestMsg
  <2>2. \A q \in pending' : q \in pending /\ q.task \in SharedTasks
    BY <1>1 DEF RequestMsg
  <2> QED  BY <1>1, <1>3, <2>1, <2>2 DEF Outstanding, Crossed
<1>10. Entries'
  BY <1>1 DEF Entries
<1>11. References'
  BY <1>1, CountKept DEF Shared
<1>12. Linked'
  BY <1>1 DEF Linked
<1>13. Serving'
  <2>1. \A k \in Places : Ending(k)' <=> Ending(k)
    BY <1>1 DEF Ending
  <2>2. ASSUME NEW u \in Sharers, step[u] = "asking", reply'[u] = "ok", ~Crossed(u)
        PROVE  u \in served' \cup excused'
    BY <1>1, <1>3, <2>2 DEF Serving, SharedTasks
  <2> HIDE DEF Ending
  <2> QED  BY <1>1, <1>4, <2>1, <2>2 DEF Serving, Crossed
<1>14. Tidy'
  <2>1. \A u \in Sharers : /\ reply'[u] = "error" => reply[u] = "error"
                           /\ reply'[u] = "none" /\ step[u] = "asking" => reply[u] = "none" /\ u # w
    BY <1>1, <1>3 DEF SharedTasks, Waiting
  <2>2. \A u \in SharedTasks : step[u] = "ending" => reply'[u] = reply[u]
    BY <1>2, <1>3
  <2> QED  BY <1>1, <1>2, <1>4, <2>1, <2>2, SharedAssumption DEF Tidy, Crossed
<1> QED  BY <1>7, <1>8, <1>9, <1>10, <1>11, <1>12, <1>13, <1>14 DEF SharedRest

\* The broker takes an UNSUBSCRIBE: what it stops is excused, or is what the call
\* that holds the mutex is ending, and its place is tainted if it stops another.
LEMMA TakeEndKeeps ==
    ASSUME SharedInv, NEW p \in pending, TakeEnd(p)
    PROVE  SharedRest'
<1>0. PICK w \in SharedTasks : w = p.task
  BY DEF SharedInv, SharedTypeOK, RequestMsg
<1> USE <1>0
<1>1. /\ session.up /\ pending' = pending \ {p} /\ p.what # "subscribe"
      /\ reply' = IF Waiting(w) THEN [reply EXCEPT ![w] = "ok"] ELSE reply
      /\ served' = served \ Stopped(p)
      /\ excused' = excused \cup (IF Waiting(w) THEN Strangers(p) ELSE Stopped(p))
      /\ tainted' = IF Missed(p) THEN tainted \cup {owner[w]} ELSE tainted
      /\ UNCHANGED <<family, session, step, owner, reg, stored, holder, entry, enabled, ended,
                     sentIn, given, miscounted, cleared>>
  BY DEF TakeEnd, Answer, lockVars, handleVars, regVars
<1> USE DEF SharedInv, SharedTypeOK
<1>2. /\ p.what = "unsubscribe" => w \in Sharers /\ step[w] \in {"ending", "gone"} /\ reg[w] # NoTask
      /\ p.what = "unsubscribe_all" => w \in Clears /\ step[w] \in {"ending", "gone"}
      /\ p \in RequestMsg /\ p.what \in {"unsubscribe", "unsubscribe_all"}
  BY <1>1 DEF Outstanding, RequestMsg
<1>3. \A u \in SharedTasks : /\ u # w => reply'[u] = reply[u]
                             /\ ~Waiting(w) => reply'[u] = reply[u]
                             /\ Waiting(w) => reply'[w] = "ok"
  BY <1>1
<1>4. Waiting(w) => step[w] = "ending" /\ holder[Mutex(owner[w])] = w
  BY <1>2 DEF Waiting, Locked
<1>5. Strangers(p) \subseteq Stopped(p) /\ tainted \subseteq tainted'
  BY <1>1 DEF Strangers
<1>6. ASSUME NEW r \in Sharers, r \in served \cup excused, r \notin served' \cup excused'
      PROVE  Waiting(w) /\ (p.what = "unsubscribe" => owner[r] = owner[w])
  BY <1>1, <1>6 DEF Strangers
<1>7. Roles'
  BY <1>1 DEF Roles
<1>8. Locked'
  BY <1>1 DEF Locked, Mutex, Astray
<1>9. Outstanding'
  <2>1. ASSUME NEW q \in pending', q.what = "subscribe" PROVE q.task # w
    <3>1. q \in pending /\ q.task \in Sharers /\ reg[q.task] = NoTask
      BY <1>1, <2>1 DEF Outstanding
    <3> QED  BY <1>2, <3>1, SharedAssumption
  <2>2. \A q \in pending' : q \in pending /\ q.task \in SharedTasks
    BY <1>1 DEF RequestMsg
  <2> QED  BY <1>1, <1>3, <1>5, <2>1, <2>2 DEF Outstanding, Crossed
<1>10. Entries'
  BY <1>1 DEF Entries
<1>11. References'
  BY <1>1, <1>5, CountKept DEF Shared
<1>12. Linked'
  BY <1>1 DEF Linked
<1>13. Serving'
  <2>1. \A k \in Places : Ending(k)' <=> Ending(k)
    BY <1>1 DEF Ending
  <2>2. ASSUME NEW j \in Places, entry[j] # NoEntry, entry[j].reg \in served,
               entry[j].reg \notin served' \cup excused'
        PROVE  Ending(j)
    <3>1. entry[j].reg \in Sharers /\ owner[entry[j].reg] = j
      BY <2>2, EntryFacts DEF Entries
    <3>2. Waiting(w) /\ (p.what = "unsubscribe" => j = owner[w])
      BY <1>6, <2>2, <3>1
    <3> QED  BY <1>2, <1>4, <3>2 DEF Ending
  <2>3. ASSUME NEW u \in Sharers, step[u] = "asking", reply'[u] = "ok", ~Crossed(u)
        PROVE  u \in served' \cup excused'
    <3>1. u # w /\ u \in SharedTasks
      BY <1>2, <2>3, SharedAssumption DEF SharedTasks
    <3>2. u \in served \cup excused /\ holder[Mutex(owner[u])] = u
      BY <1>3, <2>3, <3>1 DEF Serving, Locked
    <3>3. Waiting(w) => owner[u] # owner[w] /\ p.what = "unsubscribe"
      <4>1. w \in Clears /\ Waiting(w) => family = "notice"
        BY <1>4 DEF Roles
      <4> QED  BY <1>2, <1>4, <3>1, <3>2, <4>1 DEF Mutex
    <3> QED  BY <1>6, <3>2, <3>3
  <2> HIDE DEF Ending
  <2>4. \A k \in Places : entry[k] # NoEntry =>
           \/ entry[k].reg \in served /\ stored[entry[k].reg] = given[entry[k].reg]
           \/ entry[k].reg \in excused \cup miscounted
           \/ Ending(k)
    BY <1>1 DEF Serving
  <2>5. \A k \in Places : entry'[k] # NoEntry =>
           \/ entry'[k].reg \in served' /\ stored'[entry'[k].reg] = given'[entry'[k].reg]
           \/ entry'[k].reg \in excused' \cup miscounted'
           \/ Ending(k)'
    BY <1>1, <2>1, <2>2, <2>4
  <2> QED  BY <1>1, <2>3, <2>5 DEF Serving, Crossed
<1>14. Tidy'
  <2>1. served' \subseteq served
    BY <1>1
  <2>2. \A u \in Sharers : /\ reply'[u] = "error" => reply[u] = "error"
                           /\ reply'[u] = "none" => reply[u] = "none"
    BY <1>1, <1>3 DEF SharedTasks, Waiting
  <2>3. ASSUME NEW t \in SharedTasks, NEW k \in Places, k \notin tainted',
               step[t] = "ending", reply'[t] = "ok", ~Crossed(t),
               owner[t] = k \/ t \in Clears, entry[k] # NoEntry
        PROVE  entry[k].reg \notin served'
    <3>1. CASE t # w \/ ~Waiting(w)
      BY <1>3, <1>5, <2>1, <2>3, <3>1 DEF Tidy
    <3>2. CASE t = w /\ Waiting(w)
      <4>1. CASE p.what = "unsubscribe" /\ family = "notice"
        <5>1. t \in Sharers /\ k = owner[t]
          BY <1>2, <2>3, <3>2, <4>1, SharedAssumption
        <5>2. entry[k].reg = reg[t]
          BY <1>5, <2>3, <5>1 DEF Locked, Mutex, Astray
        <5>3. ~Missed(p)
          BY <1>1, <2>3, <3>2, <5>1
        <5> QED  BY <1>1, <3>2, <4>1, <5>2, <5>3 DEF Missed
      <4>2. CASE ~(p.what = "unsubscribe" /\ family = "notice")
        BY <1>1, <4>2 DEF Stopped
      <4> QED  BY <4>1, <4>2
    <3> QED  BY <3>1, <3>2
  <2> QED  BY <1>1, <1>5, <2>1, <2>2, <2>3 DEF Tidy, Crossed
<1> QED  BY <1>7, <1>8, <1>9, <1>10, <1>11, <1>12, <1>13, <1>14 DEF SharedRest

\* The broker refuses a request: nothing it serves changes, and a refused
\* subscribe() is not served.
LEMMA RefuseRequestKeeps ==
    ASSUME SharedInv, NEW p \in pending, RefuseRequest(p)
    PROVE  SharedRest'
<1>0. PICK w \in SharedTasks : w = p.task
  BY DEF SharedInv, SharedTypeOK, RequestMsg
<1> USE <1>0
<1>1. /\ session.up /\ pending' = pending \ {p}
      /\ reply' = IF Waiting(w) THEN [reply EXCEPT ![w] = "error"] ELSE reply
      /\ UNCHANGED <<family, session, step, owner, reg, holder, entry, enabled, ended, sentIn,
                     stored, served, given, excused, miscounted, cleared, tainted>>
  BY DEF RefuseRequest, Answer, lockVars, handleVars, regVars, servedVars
<1> USE DEF SharedInv, SharedTypeOK
<1>2. /\ p.what = "unsubscribe" => w \in Sharers /\ reg[w] # NoTask
      /\ p.what = "unsubscribe_all" => w \in Clears
      /\ p \in RequestMsg
      /\ p.what \in {"subscribe", "unsubscribe", "unsubscribe_all"}
  BY DEF Outstanding, RequestMsg
<1>3. \A u \in SharedTasks : /\ reply'[u] # reply[u] => u = w /\ Waiting(w) /\ reply'[u] = "error"
                             /\ u # w => reply'[u] = reply[u]
  BY <1>1
<1>7. Roles'
  BY <1>1 DEF Roles
<1>8. Locked'
  BY <1>1 DEF Locked, Mutex, Astray
<1>9. Outstanding'
  <2>1. ASSUME NEW q \in pending', q.what = "subscribe" PROVE q.task # w
    <3>1. q \in RequestMsg /\ q \in pending /\ q # p /\ p \in RequestMsg
      BY <1>1, <2>1
    <3>2. q.task \in Sharers /\ reg[q.task] = NoTask /\ q.id = NoId
      BY <2>1, <3>1 DEF Outstanding
    <3>3. p.what = "subscribe" => p.id = NoId
      BY DEF Outstanding
    <3>4. q.task = w /\ p.what = "subscribe" => FALSE
      BY <2>1, <3>1, <3>2, <3>3 DEF RequestMsg
    <3> QED  BY <1>2, <3>2, <3>4, SharedAssumption
  <2>2. \A q \in pending' : q \in pending /\ q.task \in SharedTasks
    BY <1>1 DEF RequestMsg
  <2> QED  BY <1>1, <1>3, <2>1, <2>2 DEF Outstanding, Crossed
<1>10. Entries'
  BY <1>1 DEF Entries
<1>11. References'
  BY <1>1, CountKept DEF Shared
<1>12. Linked'
  BY <1>1 DEF Linked
<1>13. Serving'
  BY <1>1, <1>3 DEF Serving, Ending, Crossed, SharedTasks
<1>14. Tidy'
  BY <1>1, <1>3 DEF Tidy, Crossed, Waiting, SharedTasks
<1> QED  BY <1>7, <1>8, <1>9, <1>10, <1>11, <1>12, <1>13, <1>14 DEF SharedRest

\* The session is lost: every answer that is still to be read has crossed it.
LEMMA LoseServedKeeps ==
    ASSUME SharedInv, LoseServed
    PROVE  SharedRest'
<1>1. /\ session' = [number |-> session.number + 1, up |-> FALSE]
      /\ served' = {} /\ pending' = {}
      /\ UNCHANGED <<family, step, owner, reg, holder, entry, enabled, ended, reply, sentIn,
                     excused, miscounted, cleared, tainted>>
  BY DEF LoseServed, lockVars, handleVars, regVars, sharedHistory
<1> USE DEF SharedInv, SharedTypeOK
<1>2. \A t \in SharedTasks : sentIn'[t] <= session'.number /\ Crossed(t)'
  BY <1>1 DEF Outstanding, Crossed
<1>7. Roles'
  BY <1>1 DEF Roles
<1>8. Locked'
  BY <1>1 DEF Locked, Mutex, Astray
<1>9. Outstanding'
  BY <1>1, <1>2 DEF Outstanding
<1>10. Entries'
  BY <1>1 DEF Entries
<1>11. References'
  BY <1>1, CountKept DEF Shared
<1>12. Linked'
  BY <1>1 DEF Linked
<1>13. Serving'
  BY <1>1, <1>2 DEF Serving, Ending, SharedTasks
<1>14. Tidy'
  BY <1>1, <1>2 DEF Tidy
<1> QED  BY <1>7, <1>8, <1>9, <1>10, <1>11, <1>12, <1>13, <1>14 DEF SharedRest

\* A restore asks for every entry again, so that each is served or known to have failed.
LEMMA RestoreSharedKeeps ==
    ASSUME SharedInv, RestoreShared
    PROVE  SharedRest'
<1>1. /\ ~session.up /\ session' = [session EXCEPT !.up = TRUE]
      /\ served' \subseteq Restorable
      /\ \A r \in Restorable \ excused' : r \in served' /\ stored'[r] = given'[r]
      /\ UNCHANGED <<family, step, owner, reg, holder, entry, enabled, ended, reply, sentIn,
                     pending, miscounted, cleared, tainted>>
  <2>1. PICK S \in SUBSET Restorable, T \in SUBSET Restorable : Restores(S, T)
    BY RestoreOutcome
  <2>2. Restorable \subseteq Sharers
    BY DEF Restorable, SharedInv, SharedTypeOK
  <2>3. served' \subseteq Restorable
        /\ \A r \in Restorable \ excused' : r \in served' /\ stored'[r] = given'[r]
    BY <2>1, <2>2 DEF Restores
  <2> QED  BY <2>3 DEF RestoreShared, lockVars, handleVars, regVars, wireVars
<1> USE DEF SharedInv, SharedTypeOK
<1>2. session'.number = session.number /\ session'.up
  BY <1>1
<1>3. \A t \in SharedTasks :
         step[t] \in {"asking", "ending"} /\ reply[t] = "ok" => Crossed(t)'
  BY <1>1, <1>2 DEF Outstanding, Crossed
<1>4. \A k \in Places : entry[k] # NoEntry => entry[k].reg \in Restorable
  BY DEF Restorable, Mapped, Entries
<1>5. Restorable \subseteq enabled
  BY DEF Restorable
<1> HIDE DEF Restorable
<1>7. Roles'
  BY <1>1 DEF Roles
<1>8. Locked'
  BY <1>1 DEF Locked, Mutex, Astray
<1>9. Outstanding'
  BY <1>1, <1>2 DEF Outstanding, Crossed
<1>10. Entries'
  BY <1>1 DEF Entries
<1>11. References'
  BY <1>1, CountKept DEF Shared
<1>12. Linked'
  BY <1>1 DEF Linked
<1>13. Serving'
  BY <1>1, <1>3, <1>4 DEF Serving, Ending, SharedTasks
<1>14. Tidy'
  BY <1>1, <1>3, <1>5, SharedAssumption DEF Tidy, Roles
<1> QED  BY <1>7, <1>8, <1>9, <1>10, <1>11, <1>12, <1>13, <1>14 DEF SharedRest

-----------------------------------------------------------------------------
(* Shared subscriptions: the theorems. *)

\* A new connection: no call was made, so that nothing is held, counted or served.
LEMMA SharedStarts == SharedInit => SharedInv
<1> SUFFICES ASSUME SharedInit PROVE SharedInv
  OBVIOUS
<1> USE SharedAssumption DEF SharedInit, SharedTasks
<1>1. SharedTypeOK
  BY DEF SharedTypeOK
<1>2. Roles /\ Locked
  BY DEF Roles, Locked, Mutex
<1>3. Outstanding /\ Entries /\ References
  BY DEF Outstanding, Entries, References
<1>4. Linked /\ Serving /\ Tidy
  BY DEF Linked, Serving, Tidy
<1> QED  BY <1>1, <1>2, <1>3, <1>4 DEF SharedInv

\* Every step of a call, of the broker or of the session keeps the invariant.
LEMMA SharedKept == SharedInv /\ [SharedNext]_sharedVars => SharedInv'
<1> SUFFICES ASSUME SharedInv, [SharedNext]_sharedVars PROVE SharedInv'
  OBVIOUS
<1>1. CASE UNCHANGED sharedVars
  BY <1>1 DEF SharedInv, sharedVars, lockVars, handleVars, regVars, wireVars, sharedHistory,
              servedVars, SharedTypeOK, Roles, Locked, Mutex, Astray, Outstanding, Crossed, Entries, References,
              Users, Linked, Serving, Ending, Tidy
<1>2. CASE SharedNext
  <2>1. SharedTypeOK'
    BY <1>2, SharedTypes DEF SharedInv
  <2>2. ASSUME NEW h \in Sharers, Join(h) PROVE SharedRest'
    BY <2>2, ShareKeeps, AskKeeps
  <2>3. ASSUME NEW h \in Sharers, Release(h) PROVE SharedRest'
    <3>1. entry[owner[h]] = NoEntry \/ entry[owner[h]].refs > 1 \/ entry[owner[h]].refs = 1
      BY <2>3 DEF Release
    <3> QED  BY <2>3, <3>1, ReleaseNothingKeeps, ReleaseOneKeeps, ReleaseLastKeeps
  <2>4. ASSUME NEW h \in Sharers, Unsubscribe(h) \/ DropHandle(h) PROVE SharedRest'
    BY <2>4, CloseKeeps DEF SharedTasks
  <2>5. ASSUME NEW t \in Clears, ClearAll(t) PROVE SharedRest'
    BY <2>5, ClearWaitsKeeps, ClearAsksKeeps DEF ClearAll
  <2>6. SharedRest'
    BY <1>2, <2>2, <2>3, <2>4, <2>5, SubscribeKeeps, JoinedKeeps, JoinFailsKeeps, ReleasedKeeps,
       ReleaseFailsKeeps, ClearedKeeps, ClearFailsKeeps, CloseKeeps, TakeSubscribeKeeps,
       TakeEndKeeps, RefuseRequestKeeps, LoseServedKeeps, RestoreSharedKeeps
       DEF SharedNext
  <2> QED  BY <2>1, <2>6 DEF SharedInv, SharedRest
<1> QED  BY <1>1, <1>2

\* The invariant of the shared subscriptions holds in every reachable state.
LEMMA SharedAlways == SharedSpec => []SharedInv
<1> QED  BY SharedStarts, SharedKept, PTL DEF SharedSpec

\* While the session is served, an open handle of Notice, Stream or Schedule has its
\* registration served and its stream not ended, whatever handles of the same
\* pattern came and went: only the last unsubscribe() tells the broker to stop.
THEOREM SharingKeepsServing == SharedSpec => []StillServed
<1>1. ASSUME SharedInv PROVE StillServed
  <2> SUFFICES ASSUME session.up, NEW h \in Sharers, step[h] = "open",
                      holder[Mutex(owner[h])] = NoTask
               PROVE  \/ reg[h] \in served \ ended /\ stored[reg[h]] = given[reg[h]]
                      \/ reg[h] \in excused \cup cleared \cup miscounted
    BY DEF StillServed
  <2> USE <1>1 DEF SharedInv, SharedTypeOK
  <2>1. h \in SharedTasks /\ owner[h] \in Places
    BY DEF SharedTasks
  <2>2. CASE entry[owner[h]] # NoEntry /\ entry[owner[h]].reg = reg[h]
    <3>1. ~Ending(owner[h])
      <4> SUFFICES ASSUME NEW t \in SharedTasks, step[t] = "ending",
                          owner[t] = owner[h] \/ t \in Clears
                   PROVE  FALSE
        BY DEF Ending
      <4>1. holder[Mutex(owner[t])] = t /\ t # NoTask
        BY SharedAssumption DEF Locked, SharedTasks
      <4>2. t \in Clears => family = "notice"
        BY DEF Roles
      <4> QED  BY <4>1, <4>2 DEF Mutex
    <3>2. \/ reg[h] \in served /\ stored[reg[h]] = given[reg[h]]
          \/ reg[h] \in excused \cup miscounted
      BY <2>1, <2>2, <3>1 DEF Serving
    <3>3. reg[h] \notin ended
      BY <2>1, <2>2 DEF Entries
    <3> QED  BY <3>2, <3>3
  <2> QED  BY <2>2 DEF Linked
<1> QED  BY <1>1, SharedAlways, PTL

\* Once every handle of an untainted client was closed nothing of them remains: the
\* map is empty, no restore would subscribe again and the broker serves nothing.
THEOREM ClosingLeavesNothing == SharedSpec => []NothingLeftBehind
<1>1. ASSUME SharedInv PROVE NothingLeftBehind
  <2> SUFFICES ASSUME NEW k \in Places, k \notin tainted,
                      \A t \in SharedTasks : owner[t] = k => step[t] \in {"new", "gone"}
               PROVE  /\ entry[k] = NoEntry
                      /\ \A h \in Sharers : owner[h] = k => h \notin enabled \cup served
    BY DEF NothingLeftBehind
  <2> USE <1>1 DEF SharedInv, SharedTypeOK
  <2>1. entry[k] = NoEntry
    <3> SUFFICES ASSUME entry[k] # NoEntry PROVE FALSE
      OBVIOUS
    <3>1. Users(k) = {}
      BY DEF Users, SharedTasks
    <3>2. Cardinality(Users(k)) = entry[k].refs /\ entry[k].refs \in Nat \ {0}
      BY EntryFacts DEF References
    <3>3. Cardinality({}) = 0
      BY FS_EmptySet
    <3> QED  BY <3>1, <3>2, <3>3
  <2>2. ASSUME NEW h \in Sharers, owner[h] = k PROVE h \notin enabled \cup served
    <3>1. h \in SharedTasks /\ step[h] \in {"new", "gone"}
      BY <2>2 DEF SharedTasks
    <3> QED  BY <2>1, <2>2, <3>1 DEF Tidy
  <2> QED  BY <2>1, <2>2
<1> QED  BY <1>1, SharedAlways, PTL
================================================================================
