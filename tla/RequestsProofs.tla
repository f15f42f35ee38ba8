----------------------------- MODULE RequestsProofs -----------------------------
(***************************************************************************)
(* Theorems about Requests for every number of callers, every id range and *)
(* every capacity.  TypeOK is inductive together with Numbered; the other  *)
(* invariants rest on what a queued command, a slot and a held request     *)
(* know about their call, and on how next_request_id numbers the calls     *)
(* between two resets.                                                     *)
(***************************************************************************)
EXTENDS Requests, FiniteSetTheorems, TLAPS

\* The elements of a channel.
Elements(q) == {q[k] : k \in 1..Len(q)}

\* A call that got past allocate_request_id has an id; one that did not has
\* none and no answer.
Numbered ==
    \A c \in Calls :
        /\ pc[c] = "new" => id[c] = 0
        /\ pc[c] \in {"new", "allocated"} => reply[c] = "none"
        /\ pc[c] \in {"allocated", "waiting"} => id[c] \in Ids

\* What the session task may rely on for a call it takes, holds or answers.
Handed(c) == pc[c] \in {"waiting", "done"} /\ id[c] \in Ids

QueueOK == \A c \in Calls : c \in Elements(queue) => Handed(c)

SlotOK ==
    \A i \in Ids : slot[i] \in Calls =>
        Handed(slot[i]) /\ id[slot[i]] = i /\ gen[slot[i]] = sessionGen

OutstandingOK == \A d \in outstanding : Handed(d)

\* The tables of a session are born empty and do not outlive it.
TablesOK == phase # "live" => outstanding = {} /\ \A i \in Ids : slot[i] = Free

\* Within one numbering next_request_id stays ahead of every id given out.
NumberingOK ==
    \A c \in Calls : id[c] # 0 =>
        /\ born[c] <= resets
        /\ born[c] = resets => nextId = 0 \/ id[c] < nextId

\* No id is given out twice in one numbering.
IdsUnique ==
    \A c, d \in Calls :
        id[c] # 0 /\ id[c] = id[d] /\ born[c] = born[d] => c = d

\* Every response recorded as received answers a request that has an id.
AnswersOK ==
    \A c \in Calls : reply[c] = "ok" => from[c] \in Calls /\ id[from[c]] # 0

TypeInv == TypeOK /\ Numbered
TableInv == TypeInv /\ QueueOK /\ SlotOK /\ OutstandingOK /\ TablesOK
NumberInv == TableInv /\ NumberingOK /\ IdsUnique /\ AnswersOK /\ MisdeliveryNeedsReset

-----------------------------------------------------------------------------
(* Type correctness. *)

\* The initial state is well typed.
LEMMA TypeInit == Init => TypeInv
BY RequestsAssumption, MaxGenerationAssumption
   DEF Init, LifeInit, TypeInv, TypeOK, LifeTypeOK, Numbered, Ids, Phases, Closings, Stages, Replies

\* Answering calls keeps the replies well typed.
LEMMA AnswerType ==
    ASSUME TypeOK, NEW S, NEW kind \in Replies
    PROVE  Answer(S, kind) \in [Calls -> Replies]
BY DEF TypeOK, Answer

\* The commands of a caller keep the channels well typed: what is canceled is
\* an id that was allocated.
LEMMA CallerChannels ==
    ASSUME TypeInv, NEW c \in Calls
    PROVE  /\ Enqueue(c) => queue' \in Seq(Commands)
           /\ pc[c] = "waiting" /\ GuardDrop(c) => cancels' \in Seq(Ids)
<1>1. queue \in Seq(Commands) /\ c \in Commands
  BY DEF TypeInv, TypeOK, Commands
<1>2. ASSUME Enqueue(c) PROVE queue' \in Seq(Commands)
  <2>1. queue' = queue \/ queue' = Append(queue, c)
    BY <1>2 DEF Enqueue
  <2> QED
    BY <1>1, <2>1
<1>3. ASSUME pc[c] = "waiting", GuardDrop(c) PROVE cancels' \in Seq(Ids)
  <2>1. cancels' = cancels \/ cancels' = Append(cancels, id[c])
    BY <1>3 DEF GuardDrop
  <2>2. cancels \in Seq(Ids) /\ id[c] \in Ids
    BY <1>3 DEF TypeInv, TypeOK, Numbered
  <2> QED
    BY <2>1, <2>2
<1> QED
  BY <1>2, <1>3

\* An allocated id is in range, and so is what follows it.
LEMMA AllocateType ==
    ASSUME TypeInv, NEW c \in Calls, Allocate(c)
    PROVE  /\ nextId' \in 0..MaxId
           /\ id' \in [Calls -> 0..MaxId]
           /\ pc' \in [Calls -> Stages]
           /\ born' \in [Calls -> Nat]
           /\ reply' \in [Calls -> Replies]
<1>1. /\ nextId' = nextId \/ nextId' = NextAfter(nextId)
      /\ id' = id \/ id' = [id EXCEPT ![c] = nextId]
      /\ pc' = [pc EXCEPT ![c] = "done"] \/ pc' = [pc EXCEPT ![c] = "allocated"]
      /\ born' = born \/ born' = [born EXCEPT ![c] = resets]
      /\ reply' = reply \/ reply' = [reply EXCEPT ![c] = "exhausted"]
  BY DEF Allocate, FailLocally
<1>2. NextAfter(nextId) \in 0..MaxId
  BY RequestsAssumption DEF TypeInv, TypeOK, NextAfter
<1>3. /\ nextId \in 0..MaxId
      /\ id \in [Calls -> 0..MaxId]
      /\ pc \in [Calls -> Stages]
      /\ born \in [Calls -> Nat]
      /\ reply \in [Calls -> Replies]
      /\ resets \in Nat
  BY DEF TypeInv, TypeOK
<1> QED
  BY <1>1, <1>2, <1>3 DEF Stages, Replies

\* The generation a command is stamped with is in range.
LEMMA EnqueueType ==
    ASSUME TypeInv, NEW c \in Calls, Enqueue(c)
    PROVE  /\ gen' \in [Calls -> -1..MaxGeneration]
           /\ pc' \in [Calls -> Stages]
           /\ reply' \in [Calls -> Replies]
<1>1. /\ gen' = gen \/ gen' = [gen EXCEPT ![c] = generation]
      /\ pc' = [pc EXCEPT ![c] = "done"] \/ pc' = [pc EXCEPT ![c] = "waiting"]
      /\ \/ reply' = reply
         \/ reply' = [reply EXCEPT ![c] = "closed"]
         \/ reply' = [reply EXCEPT ![c] = "backpressure"]
  BY DEF Enqueue, FailLocally
<1>2. /\ gen \in [Calls -> -1..MaxGeneration]
      /\ generation \in 0..MaxGeneration
      /\ pc \in [Calls -> Stages]
      /\ reply \in [Calls -> Replies]
  BY DEF TypeInv, TypeOK, LifeTypeOK
<1> QED
  BY <1>1, <1>2, MaxGenerationAssumption DEF Stages, Replies

\* What a response records about its receiver is well typed.
LEMMA ReceiveType ==
    ASSUME TypeInv, NEW d \in Calls, ReceiveFinal(d)
    PROVE  /\ from' \in [Calls -> Calls \cup {NoCall}]
           /\ fromGen' \in [Calls -> -1..MaxGeneration]
<1>1. /\ from' = from \/ \E o \in Calls : from' = [from EXCEPT ![o] = d]
      /\ fromGen' = fromGen \/ \E o \in Calls : fromGen' = [fromGen EXCEPT ![o] = sessionGen]
  BY DEF ReceiveFinal
<1>2. /\ from \in [Calls -> Calls \cup {NoCall}]
      /\ fromGen \in [Calls -> -1..MaxGeneration]
      /\ sessionGen \in -1..MaxGeneration
  BY DEF TypeInv, TypeOK, LifeTypeOK
<1> QED
  BY <1>1, <1>2

\* Only waiting callers are answered, so an answer disturbs no number.
LEMMA AnswerNumbered ==
    ASSUME TypeInv, NEW S, NEW kind,
           reply' = Answer(S, kind) \/ reply' = reply,
           pc' = pc, id' = id
    PROVE  Numbered'
<1>1. /\ reply \in [Calls -> Replies]
      /\ Numbered
  BY DEF TypeInv, TypeOK
<1>2. \A c \in Calls : pc[c] # "waiting" => reply'[c] = reply[c]
  BY <1>1 DEF Answer
<1> QED
  BY <1>1, <1>2 DEF Numbered

\* The tables fail_all() leaves are well typed.
LEMMA FailAllType ==
    ASSUME TypeInv, NEW kind \in Replies, FailAll(kind)
    PROVE  /\ reply' \in [Calls -> Replies]
           /\ slot' \in [Ids -> Calls \cup {Free, Tombstone}]
           /\ canceled' \in SUBSET Ids
           /\ outstanding' \in SUBSET Calls
BY AnswerType DEF FailAll, TypeInv

\* Cancellations name ids.
LEMMA CancellationType ==
    ASSUME TypeInv, TakeCancellation
    PROVE  /\ Head(cancels) \in Ids
           /\ cancels' \in Seq(Ids)
           /\ canceled' \in SUBSET Ids
<1>1. cancels \in Seq(Ids) /\ cancels # <<>> /\ cancels' = Tail(cancels)
  BY DEF TypeInv, TypeOK, TakeCancellation
<1>2. Head(cancels) \in Ids /\ Tail(cancels) \in Seq(Ids)
  BY <1>1
<1> QED
  BY <1>1, <1>2 DEF TypeInv, TypeOK, TakeCancellation

\* Each action keeps the state well typed; Allocate at MaxId and the stamps of
\* Enqueue are the ones that need an argument.
LEMMA TypeStep == TypeInv /\ [Next]_vars => TypeInv'
<1> SUFFICES ASSUME TypeInv, [Next]_vars PROVE TypeInv'
  OBVIOUS
<1> USE RequestsAssumption, MaxGenerationAssumption
    DEF TypeInv, TypeOK, LifeTypeOK, Numbered, Ids, Phases, Closings, Stages, Replies, Commands,
        lifeVars, sessionVars, callVars
<1>1. ASSUME NEW c \in Calls, Allocate(c) PROVE TypeInv'
  <2>1. TypeOK'
    BY <1>1, AllocateType DEF Allocate
  <2>2. Numbered'
    BY <1>1, SMTT(30) DEF Allocate, FailLocally
  <2> QED
    BY <2>1, <2>2
<1>2. ASSUME NEW c \in Calls, Enqueue(c) PROVE TypeInv'
  <2>1. TypeOK'
    BY <1>2, EnqueueType, CallerChannels DEF Enqueue
  <2>2. Numbered'
    BY <1>2, SMTT(30) DEF Enqueue, FailLocally
  <2> QED
    BY <2>1, <2>2
<1>3. ASSUME NEW c \in Calls, Return(c) PROVE TypeInv'
  <2>1. TypeOK'
    <3>1. cancels' \in Seq(Ids)
      BY <1>3, CallerChannels DEF Return
    <3>2. pc' \in [Calls -> Stages]
      BY <1>3 DEF Return
    <3> QED
      BY <1>3, <3>1, <3>2 DEF Return
  <2>2. Numbered'
    BY <1>3 DEF Return, GuardDrop
  <2> QED
    BY <2>1, <2>2
<1>4. ASSUME NEW c \in Calls, TimeOut(c) PROVE TypeInv'
  <2>1. TypeOK'
    BY <1>4, CallerChannels DEF TimeOut
  <2>2. Numbered'
    BY <1>4 DEF TimeOut, GuardDrop
  <2> QED
    BY <2>1, <2>2
<1>5. ASSUME NEW c \in Calls, DropFuture(c) PROVE TypeInv'
  <2>1. TypeOK'
    BY <1>5, CallerChannels DEF DropFuture
  <2>2. Numbered'
    BY <1>5 DEF DropFuture, GuardDrop
  <2> QED
    BY <2>1, <2>2
<1>6. ASSUME NEW c \in Calls, RefuseStale(c) PROVE TypeInv'
  BY <1>6, SMTT(30) DEF RefuseStale, Taking, Answer
<1>7. ASSUME NEW c \in Calls, RefuseRequest(c) PROVE TypeInv'
  <2>1. TypeOK'
    <3>1. reply' \in [Calls -> Replies]
      BY <1>7, AnswerType, SMTT(30) DEF RefuseRequest
    <3>2. queue' \in Seq(Commands)
      BY <1>7 DEF RefuseRequest, Taking
    <3>3. canceled' \in SUBSET Ids
      BY <1>7 DEF RefuseRequest
    <3> QED
      BY <1>7, <3>1, <3>2, <3>3 DEF RefuseRequest
  <2>2. Numbered'
    BY <1>7 DEF RefuseRequest, Taking, Answer
  <2> QED
    BY <2>1, <2>2
<1>8. ASSUME NEW c \in Calls, WriteRequest(c) PROVE TypeInv'
  <2>1. TypeOK'
    <3>1. reply' \in [Calls -> Replies]
      BY <1>8, AnswerType DEF WriteRequest
    <3>2. slot' \in [Ids -> Calls \cup {Free, Tombstone}]
      BY <1>8 DEF WriteRequest
    <3>3. queue' \in Seq(Commands)
      BY <1>8 DEF WriteRequest, Taking
    <3>4. canceled' \in SUBSET Ids /\ outstanding' \in SUBSET Calls
      BY <1>8 DEF WriteRequest
    <3> QED
      BY <1>8, <3>1, <3>2, <3>3, <3>4 DEF WriteRequest
  <2>2. Numbered'
    BY <1>8 DEF WriteRequest, Taking, Answer
  <2> QED
    BY <2>1, <2>2
<1>9. ASSUME NEW c \in Calls, WriteSend(c) PROVE TypeInv'
  <2>1. PICK kind \in {"ok", "failed", "oversized"} :
           /\ reply' = Answer({c}, kind)
           /\ from' = [from EXCEPT ![c] = IF kind = "ok" THEN c ELSE @]
           /\ fromGen' = [fromGen EXCEPT ![c] = IF kind = "ok" THEN sessionGen ELSE @]
    BY <1>9 DEF WriteSend
  <2>2. TypeOK'
    <3>1. reply' \in [Calls -> Replies]
      BY <2>1, AnswerType
    <3>2. from' \in [Calls -> Calls \cup {NoCall}] /\ fromGen' \in [Calls -> -1..MaxGeneration]
      BY <2>1
    <3>3. queue' \in Seq(Commands)
      BY <1>9 DEF WriteSend, Taking
    <3> QED
      BY <1>9, <3>1, <3>2, <3>3 DEF WriteSend
  <2>3. Numbered'
    BY <1>9, <2>1, AnswerNumbered DEF WriteSend
  <2> QED
    BY <2>2, <2>3
<1>10. ASSUME NEW c \in Calls, ReceiveFinal(c) PROVE TypeInv'
  <2>1. TypeOK'
    <3>1. reply' \in [Calls -> Replies]
      <4>1. CASE slot[id[c]] \in Calls
        <5>1. reply' = Answer({slot[id[c]]}, "ok")
          BY <1>10, <4>1 DEF ReceiveFinal
        <5> QED
          BY <5>1, AnswerType DEF Replies
      <4>2. CASE slot[id[c]] \notin Calls
        <5>1. reply' = reply
          BY <1>10, <4>2 DEF ReceiveFinal
        <5> QED
          BY <5>1
      <4> QED
        BY <4>1, <4>2
    <3>2. slot' \in [Ids -> Calls \cup {Free, Tombstone}] /\ outstanding' \in SUBSET Calls
      BY <1>10 DEF ReceiveFinal
    <3> QED
      BY <1>10, <3>1, <3>2, ReceiveType DEF ReceiveFinal
  <2>2. Numbered'
    BY <1>10 DEF ReceiveFinal, Answer
  <2> QED
    BY <2>1, <2>2
<1>11. ASSUME NEW c \in Calls, ReceivePartial(c) PROVE TypeInv'
  BY <1>11 DEF ReceivePartial, vars
<1>12. ASSUME SendConnect PROVE TypeInv'
  BY <1>12 DEF SendConnect
<1>13. ASSUME StartClose PROVE TypeInv'
  BY <1>13 DEF StartClose, RequestClose
<1>14. ASSUME SendClose PROVE TypeInv'
  <2>1. TypeOK'
    <3>1. queue' \in Seq(Commands)
      <4>1. queue' = queue \/ queue' = Append(queue, Close)
        BY <1>14 DEF SendClose
      <4>2. queue \in Seq(Commands) /\ Close \in Commands
        OBVIOUS
      <4> QED
        BY ONLY <4>1, <4>2
    <3>2. closing' \in Closings
      BY <1>14 DEF SendClose, SettleClose
    <3> QED
      BY <1>14, <3>1, <3>2 DEF SendClose, SettleClose
  <2>2. Numbered'
    BY <1>14 DEF SendClose, SettleClose
  <2> QED
    BY <2>1, <2>2
<1>15. ASSUME TakeConnectIdle PROVE TypeInv'
  BY <1>15 DEF TakeConnectIdle, Begin
<1>16. ASSUME TakeCallIdle PROVE TypeInv'
  BY <1>16, SMTT(30) DEF TakeCallIdle, Answer
<1>17. ASSUME TakeCloseIdle PROVE TypeInv'
  BY <1>17 DEF TakeCloseIdle, FinishClose, Answer
<1>18. ASSUME OpenSession PROVE TypeInv'
  BY <1>18 DEF OpenSession, Authenticate, LowerLimit
<1>19. ASSUME StartSession PROVE TypeInv'
  BY <1>19 DEF StartSession, Serve
<1>20. ASSUME GiveUp PROVE TypeInv'
  BY <1>20 DEF GiveUp, Abandon
<1>21. ASSUME TakeConnectLive PROVE TypeInv'
  BY <1>21 DEF TakeConnectLive
<1>22. ASSUME TakeCloseLive PROVE TypeInv'
  <2>1. TypeOK'
    <3>1. queue' \in Seq(Commands)
      BY <1>22 DEF TakeCloseLive
    <3> QED
      BY <1>22, <3>1, FailAllType DEF TakeCloseLive, FinishClose
  <2>2. Numbered'
    BY <1>22, AnswerNumbered DEF TakeCloseLive, FailAll
  <2> QED
    BY <2>1, <2>2
<1>23. ASSUME TakeCancellation PROVE TypeInv'
  <2>1. TypeOK'
    <3>1. reply' \in [Calls -> Replies]
      <4>1. reply' = reply \/ reply' = Answer({slot[Head(cancels)]}, "gone")
        BY <1>23 DEF TakeCancellation
      <4> QED
        BY <4>1, AnswerType
    <3>2. slot' \in [Ids -> Calls \cup {Free, Tombstone}]
      BY <1>23, CancellationType DEF TakeCancellation
    <3> QED
      BY <1>23, <3>1, <3>2, CancellationType DEF TakeCancellation
  <2>2. Numbered'
    BY <1>23, AnswerNumbered DEF TakeCancellation
  <2> QED
    BY <2>1, <2>2
<1>24. ASSUME LoseSession PROVE TypeInv'
  <2>1. TypeOK'
    <3>1. LifeTypeOK'
      BY <1>24 DEF LoseSession, Lose
    <3>2. FailAll("closed")
      BY <1>24 DEF LoseSession
    <3>3. /\ reply' \in [Calls -> Replies]
          /\ slot' \in [Ids -> Calls \cup {Free, Tombstone}]
          /\ canceled' \in SUBSET Ids
          /\ outstanding' \in SUBSET Calls
      BY <3>2, FailAllType
    <3> QED
      BY <1>24, <3>1, <3>3 DEF LoseSession
  <2>2. Numbered'
    BY <1>24, AnswerNumbered DEF LoseSession, FailAll
  <2> QED
    BY <2>1, <2>2
<1>25. ASSUME UNCHANGED vars PROVE TypeInv'
  BY <1>25 DEF vars
<1> QED
  BY <1>1, <1>2, <1>3, <1>4, <1>5, <1>6, <1>7, <1>8, <1>9, <1>10, <1>11, <1>12, <1>13, <1>14, <1>15, <1>16, <1>17, <1>18, <1>19, <1>20, <1>21, <1>22, <1>23, <1>24, <1>25 DEF Next, CallerStep, SessionStep

\* Every reachable state of Requests is well typed: ids stay in range when the
\* counter runs out, every canceled id is one that was allocated.
THEOREM TypeCorrect == Spec => []TypeOK
<1>1. TypeInv => TypeOK
  BY DEF TypeInv
<1> QED
  BY <1>1, TypeInit, TypeStep, PTL DEF Spec

-----------------------------------------------------------------------------
(* Nobody waits for nothing. *)

\* Appending to a sequence adds one element to its range.
LEMMA ElementsAppend ==
    ASSUME NEW S, NEW q \in Seq(S), NEW e \in S
    PROVE  Elements(Append(q, e)) = Elements(q) \cup {e}
<1>1. Len(Append(q, e)) = Len(q) + 1 /\ Len(q) \in Nat
  OBVIOUS
<1>2. \A k \in 1..Len(q) + 1 : Append(q, e)[k] = IF k \in 1..Len(q) THEN q[k] ELSE e
  OBVIOUS
<1> QED
  BY <1>1, <1>2 DEF Elements

\* Taking the head of a sequence removes nothing else from its range.
LEMMA ElementsTail ==
    ASSUME NEW S, NEW q \in Seq(S), q # <<>>
    PROVE  /\ Elements(q) = {Head(q)} \cup Elements(Tail(q))
           /\ Elements(Tail(q)) = {q[k] : k \in 2..Len(q)}
<1>1. Len(Tail(q)) = Len(q) - 1 /\ Len(q) \in Nat \ {0} /\ Head(q) = q[1]
  OBVIOUS
<1>2. \A k \in 1..Len(q) - 1 : Tail(q)[k] = q[k + 1]
  OBVIOUS
<1>3. Elements(Tail(q)) = {q[k] : k \in 2..Len(q)}
  <2>1. \A k \in 2..Len(q) : k - 1 \in 1..Len(q) - 1 /\ q[k] = Tail(q)[k - 1]
    BY <1>1, <1>2
  <2>2. \A k \in 1..Len(q) - 1 : k + 1 \in 2..Len(q)
    BY <1>1
  <2> QED
    BY <1>1, <1>2, <2>1, <2>2 DEF Elements
<1>4. 1..Len(q) = {1} \cup 2..Len(q)
  BY <1>1
<1> QED
  BY <1>1, <1>3, <1>4 DEF Elements

\* Who holds the sender of a call's oneshot: the channel or a slot.
Holders == Elements(queue) \cup {slot[i] : i \in Ids}

Held == \A c \in Calls : pc[c] = "waiting" /\ reply[c] = "none" => c \in Holders

\* Held is NothingStranded in the terms of Holders.
LEMMA HeldIsNothingStranded == Held <=> NothingStranded
BY DEF Held, Holders, Elements, NothingStranded

\* Taking the head of the channel, and adding to it.
LEMMA HoldersTake ==
    ASSUME TypeInv, queue # <<>>, queue' = Tail(queue)
    PROVE  /\ Elements(queue) = {Head(queue)} \cup Elements(queue')
           /\ Elements(queue') = {queue[k] : k \in 2..Len(queue)}
BY ElementsTail DEF TypeInv, TypeOK

\* What a caller adds to the channel holds its sender.
LEMMA HoldersAppend ==
    ASSUME TypeInv, NEW e \in Commands, queue' = Append(queue, e)
    PROVE  Elements(queue') = Elements(queue) \cup {e}
BY ElementsAppend DEF TypeInv, TypeOK

\* No action takes the last holder of a caller's sender without answering it.
LEMMA HeldStep == TypeInv /\ Held /\ [Next]_vars => Held'
<1> SUFFICES ASSUME TypeInv, Held, [Next]_vars PROVE Held'
  OBVIOUS
<1>t. /\ slot \in [Ids -> Calls \cup {Free, Tombstone}]
      /\ pc \in [Calls -> Stages]
      /\ reply \in [Calls -> Replies]
      /\ \A c \in Calls : pc[c] \in {"allocated", "waiting"} => id[c] \in Ids
      /\ Calls \cap {Connect, Close, Free, Tombstone} = {}
  BY RequestsAssumption DEF TypeInv, TypeOK, Numbered
<1> USE <1>t DEF Held, Holders, lifeVars, sessionVars, callVars
<1>1. ASSUME NEW c \in Calls, Allocate(c) PROVE Held'
  BY <1>1 DEF Allocate, FailLocally
<1>2. ASSUME NEW c \in Calls, Enqueue(c) PROVE Held'
  <2>1. queue' = queue \/ Elements(queue') = Elements(queue) \cup {c}
    BY <1>2, HoldersAppend DEF Enqueue, Commands
  <2> QED
    BY <1>2, <2>1 DEF Enqueue, FailLocally
<1>3. ASSUME NEW c \in Calls, Return(c) PROVE Held'
  BY <1>3 DEF Return
<1>4. ASSUME NEW c \in Calls, TimeOut(c) PROVE Held'
  BY <1>4 DEF TimeOut
<1>5. ASSUME NEW c \in Calls, DropFuture(c) PROVE Held'
  BY <1>5 DEF DropFuture
<1>6. ASSUME NEW c \in Calls, RefuseStale(c) PROVE Held'
  <2>1. Elements(queue) = {Head(queue)} \cup Elements(queue')
    BY <1>6, HoldersTake DEF RefuseStale, Taking
  <2> QED
    BY <1>6, <2>1 DEF RefuseStale, Answer, Taking
<1>7. ASSUME NEW c \in Calls, RefuseRequest(c) PROVE Held'
  <2>1. Elements(queue) = {Head(queue)} \cup Elements(queue')
    BY <1>7, HoldersTake DEF RefuseRequest, Taking
  <2> QED
    BY <1>7, <2>1 DEF RefuseRequest, Answer, Taking
<1>8. ASSUME NEW c \in Calls, WriteRequest(c) PROVE Held'
  <2>1. Elements(queue) = {Head(queue)} \cup Elements(queue')
    BY <1>8, HoldersTake DEF WriteRequest, Taking
  <2> QED
    BY <1>8, <2>1 DEF WriteRequest, Answer, Taking
<1>9. ASSUME NEW c \in Calls, WriteSend(c) PROVE Held'
  <2>1. Elements(queue) = {Head(queue)} \cup Elements(queue')
    BY <1>9, HoldersTake DEF WriteSend, Taking
  <2> QED
    BY <1>9, <2>1 DEF WriteSend, Answer, Taking
<1>10. ASSUME NEW c \in Calls, ReceiveFinal(c) PROVE Held'
  BY <1>10 DEF ReceiveFinal, Answer
<1>11. ASSUME NEW c \in Calls, ReceivePartial(c) PROVE Held'
  BY <1>11 DEF ReceivePartial, vars
<1>12. ASSUME SendConnect PROVE Held'
  <2>1. queue' = queue \/ Elements(queue') = Elements(queue) \cup {Connect}
    BY <1>12, HoldersAppend DEF SendConnect, Commands
  <2> QED
    BY <1>12, <2>1 DEF SendConnect
<1>13. ASSUME StartClose PROVE Held'
  BY <1>13 DEF StartClose
<1>14. ASSUME SendClose PROVE Held'
  <2>1. queue' = queue \/ Elements(queue') = Elements(queue) \cup {Close}
    BY <1>14, HoldersAppend DEF SendClose, Commands
  <2> QED
    BY <1>14, <2>1 DEF SendClose
<1>15. ASSUME TakeConnectIdle PROVE Held'
  <2>1. Elements(queue) = {Head(queue)} \cup Elements(queue')
    BY <1>15, HoldersTake DEF TakeConnectIdle
  <2> QED
    BY <1>15, <2>1 DEF TakeConnectIdle
<1>16. ASSUME TakeCallIdle PROVE Held'
  <2>1. Elements(queue) = {Head(queue)} \cup Elements(queue')
    BY <1>16, HoldersTake DEF TakeCallIdle
  <2> QED
    BY <1>16, <2>1 DEF TakeCallIdle, Answer
<1>17. ASSUME TakeCloseIdle PROVE Held'
  <2>1. Elements(queue) = {Close} \cup {queue[k] : k \in 2..Len(queue)}
    BY <1>17, ElementsTail DEF TakeCloseIdle, TypeInv, TypeOK
  <2> QED
    BY <1>17, <2>1 DEF TakeCloseIdle, Answer
<1>18. ASSUME OpenSession PROVE Held'
  BY <1>18 DEF OpenSession
<1>19. ASSUME StartSession PROVE Held'
  BY <1>19 DEF StartSession
<1>20. ASSUME GiveUp PROVE Held'
  BY <1>20 DEF GiveUp
<1>21. ASSUME TakeConnectLive PROVE Held'
  <2>1. Elements(queue) = {Head(queue)} \cup Elements(queue')
    BY <1>21, HoldersTake DEF TakeConnectLive
  <2> QED
    BY <1>21, <2>1 DEF TakeConnectLive
<1>22. ASSUME TakeCloseLive PROVE Held'
  <2>1. Elements(queue) = {Head(queue)} \cup Elements(queue')
    BY <1>22, HoldersTake DEF TakeCloseLive
  <2> QED
    BY <1>22, <2>1 DEF TakeCloseLive, FailAll, Answer
<1>23. ASSUME TakeCancellation PROVE Held'
  BY <1>23 DEF TakeCancellation, Answer
<1>24. ASSUME LoseSession PROVE Held'
  BY <1>24 DEF LoseSession, FailAll, Answer
<1>25. ASSUME UNCHANGED vars PROVE Held'
  BY <1>25 DEF vars
<1> QED
  BY <1>1, <1>2, <1>3, <1>4, <1>5, <1>6, <1>7, <1>8, <1>9, <1>10, <1>11, <1>12, <1>13, <1>14, <1>15, <1>16, <1>17, <1>18, <1>19, <1>20, <1>21, <1>22, <1>23, <1>24, <1>25 DEF Next, CallerStep, SessionStep

\* In every reachable state a caller whose oneshot is empty is still held by
\* the channel or by a slot: no refusal, cancellation, overwritten slot, lost
\* session or close() drops its sender unseen.
THEOREM NobodyStranded == Spec => []NothingStranded
<1>1. Init => Held
  BY DEF Init, Held
<1>2. TypeInv /\ Held => NothingStranded
  BY HeldIsNothingStranded
<1> QED
  BY <1>1, <1>2, TypeInit, TypeStep, HeldStep, PTL DEF Spec

-----------------------------------------------------------------------------
(* The session's tables. *)

\* Each action keeps the tables consistent: what sits in the channel or in a slot
\* has an id, and a slot's call carries the generation of the session.
LEMMA TableStep == TableInv /\ [Next]_vars => TableInv'
<1> SUFFICES ASSUME TableInv, [Next]_vars PROVE (QueueOK /\ SlotOK /\ OutstandingOK /\ TablesOK)'
  BY TypeStep DEF TableInv
<1>t. /\ TypeInv
      /\ slot \in [Ids -> Calls \cup {Free, Tombstone}]
      /\ pc \in [Calls -> Stages]
      /\ id \in [Calls -> 0..MaxId]
      /\ gen \in [Calls -> -1..MaxGeneration]
      /\ outstanding \subseteq Calls
      /\ \A c \in Calls : /\ pc[c] = "new" => id[c] = 0
                          /\ pc[c] \in {"allocated", "waiting"} => id[c] \in Ids
      /\ Calls \cap {Connect, Close, Free, Tombstone} = {}
      /\ Free # Tombstone
      /\ Ids \subseteq 0..MaxId /\ 0 \notin Ids
  BY RequestsAssumption DEF TableInv, TypeInv, TypeOK, Numbered, Ids
<1> USE <1>t DEF TableInv, QueueOK, SlotOK, OutstandingOK, TablesOK, Handed, lifeVars, sessionVars, callVars
<1> DEFINE Goal == QueueOK /\ SlotOK /\ OutstandingOK /\ TablesOK
<1>1. ASSUME NEW c \in Calls, Allocate(c) PROVE Goal'
  BY <1>1 DEF Allocate, FailLocally
<1>2. ASSUME NEW c \in Calls, Enqueue(c) PROVE Goal'
  <2>1. queue' = queue \/ Elements(queue') = Elements(queue) \cup {c}
    BY <1>2, HoldersAppend DEF Enqueue, Commands
  <2>2. /\ pc' = [pc EXCEPT ![c] = "done"] \/ pc' = [pc EXCEPT ![c] = "waiting"]
        /\ gen' = gen \/ gen' = [gen EXCEPT ![c] = generation]
        /\ UNCHANGED <<id, slot, canceled, outstanding, phase, sessionGen>>
        /\ pc[c] = "allocated"
    BY <1>2 DEF Enqueue, FailLocally
  <2>3. QueueOK'
    BY <2>1, <2>2
  <2>4. SlotOK' /\ OutstandingOK' /\ TablesOK'
    BY <2>2
  <2> QED
    BY <2>3, <2>4
<1>3. ASSUME NEW c \in Calls, Return(c) PROVE Goal'
  BY <1>3 DEF Return
<1>4. ASSUME NEW c \in Calls, TimeOut(c) PROVE Goal'
  BY <1>4 DEF TimeOut
<1>5. ASSUME NEW c \in Calls, DropFuture(c) PROVE Goal'
  BY <1>5 DEF DropFuture
<1>6. ASSUME NEW c \in Calls, RefuseStale(c) PROVE Goal'
  <2>1. Elements(queue) = {Head(queue)} \cup Elements(queue')
    BY <1>6, HoldersTake DEF RefuseStale, Taking
  <2> QED
    BY <1>6, <2>1 DEF RefuseStale, Taking
<1>7. ASSUME NEW c \in Calls, RefuseRequest(c) PROVE Goal'
  <2>1. Elements(queue) = {Head(queue)} \cup Elements(queue')
    BY <1>7, HoldersTake DEF RefuseRequest, Taking
  <2> QED
    BY <1>7, <2>1 DEF RefuseRequest, Taking
<1>8. ASSUME NEW c \in Calls, WriteRequest(c) PROVE Goal'
  <2>1. Elements(queue) = {Head(queue)} \cup Elements(queue')
    BY <1>8, HoldersTake DEF WriteRequest, Taking
  <2> QED
    BY <1>8, <2>1 DEF WriteRequest, Taking, Fresh
<1>9. ASSUME NEW c \in Calls, WriteSend(c) PROVE Goal'
  <2>1. Elements(queue) = {Head(queue)} \cup Elements(queue')
    BY <1>9, HoldersTake DEF WriteSend, Taking
  <2> QED
    BY <1>9, <2>1 DEF WriteSend, Taking
<1>10. ASSUME NEW c \in Calls, ReceiveFinal(c) PROVE Goal'
  BY <1>10 DEF ReceiveFinal
<1>11. ASSUME NEW c \in Calls, ReceivePartial(c) PROVE Goal'
  BY <1>11 DEF ReceivePartial, vars
<1>12. ASSUME SendConnect PROVE Goal'
  <2>1. queue' = queue \/ Elements(queue') = Elements(queue) \cup {Connect}
    BY <1>12, HoldersAppend DEF SendConnect, Commands
  <2> QED
    BY <1>12, <2>1 DEF SendConnect
<1>13. ASSUME StartClose PROVE Goal'
  BY <1>13 DEF StartClose, RequestClose
<1>14. ASSUME SendClose PROVE Goal'
  <2>1. queue' = queue \/ Elements(queue') = Elements(queue) \cup {Close}
    BY <1>14, HoldersAppend DEF SendClose, Commands
  <2> QED
    BY <1>14, <2>1 DEF SendClose, SettleClose
<1>15. ASSUME TakeConnectIdle PROVE Goal'
  <2>1. Elements(queue) = {Head(queue)} \cup Elements(queue')
    BY <1>15, HoldersTake DEF TakeConnectIdle
  <2> QED
    BY <1>15, <2>1 DEF TakeConnectIdle, Begin
<1>16. ASSUME TakeCallIdle PROVE Goal'
  <2>1. Elements(queue) = {Head(queue)} \cup Elements(queue')
    BY <1>16, HoldersTake DEF TakeCallIdle
  <2> QED
    BY <1>16, <2>1 DEF TakeCallIdle
<1>17. ASSUME TakeCloseIdle PROVE Goal'
  <2>1. Elements(queue') = {}
    BY <1>17 DEF TakeCloseIdle, Elements
  <2> QED
    BY <1>17, <2>1 DEF TakeCloseIdle, FinishClose
<1>18. ASSUME OpenSession PROVE Goal'
  BY <1>18 DEF OpenSession, Authenticate
<1>19. ASSUME StartSession PROVE Goal'
  BY <1>19 DEF StartSession, Serve
<1>20. ASSUME GiveUp PROVE Goal'
  BY <1>20 DEF GiveUp, Abandon
<1>21. ASSUME TakeConnectLive PROVE Goal'
  <2>1. Elements(queue) = {Head(queue)} \cup Elements(queue')
    BY <1>21, HoldersTake DEF TakeConnectLive
  <2> QED
    BY <1>21, <2>1 DEF TakeConnectLive
<1>22. ASSUME TakeCloseLive PROVE Goal'
  <2>1. Elements(queue) = {Head(queue)} \cup Elements(queue')
    BY <1>22, HoldersTake DEF TakeCloseLive
  <2> QED
    BY <1>22, <2>1 DEF TakeCloseLive, FinishClose, FailAll
<1>23. ASSUME TakeCancellation PROVE Goal'
  <2>1. \A i \in Ids : slot'[i] = slot[i] \/ (slot[i] # Free /\ slot'[i] = Tombstone)
    BY <1>23, CancellationType DEF TakeCancellation
  <2>2. \A i \in Ids : slot'[i] \in Calls => slot'[i] = slot[i]
    BY <2>1
  <2> QED
    BY <1>23, <2>1, <2>2 DEF TakeCancellation
<1>24. ASSUME LoseSession PROVE Goal'
  BY <1>24 DEF LoseSession, Lose, FailAll
<1>25. ASSUME UNCHANGED vars PROVE Goal'
  BY <1>25 DEF vars
<1> QED
  BY <1>1, <1>2, <1>3, <1>4, <1>5, <1>6, <1>7, <1>8, <1>9, <1>10, <1>11, <1>12, <1>13, <1>14, <1>15, <1>16, <1>17, <1>18, <1>19, <1>20, <1>21, <1>22, <1>23, <1>24, <1>25 DEF Next, CallerStep, SessionStep

\* The tables are empty at first.
LEMMA TableInit == Init => TableInv
<1> SUFFICES ASSUME Init PROVE TableInv
  OBVIOUS
<1>1. Elements(queue) = {}
  BY DEF Init, Elements
<1> QED
  BY <1>1, TypeInit, RequestsAssumption DEF Init, LifeInit, TableInv, QueueOK, SlotOK, OutstandingOK, TablesOK

-----------------------------------------------------------------------------
(* Responses and sessions. *)

\* Deliveries happen only from slots, and slots are of the running session.
LEMMA FenceStep == TableInv /\ SessionFence /\ [Next]_vars => SessionFence'
<1> SUFFICES ASSUME TableInv, SessionFence, [Next]_vars PROVE SessionFence'
  OBVIOUS
<1>t. /\ slot \in [Ids -> Calls \cup {Free, Tombstone}]
      /\ gen \in [Calls -> -1..MaxGeneration]
      /\ fromGen \in [Calls -> -1..MaxGeneration]
      /\ reply \in [Calls -> Replies]
      /\ \A c \in Calls : pc[c] \in {"new", "allocated"} => reply[c] = "none"
      /\ \A i \in Ids : slot[i] \in Calls => gen[slot[i]] = sessionGen
      /\ \A d \in outstanding : id[d] \in Ids
  BY DEF TableInv, TypeInv, TypeOK, Numbered, SlotOK, OutstandingOK, Handed
<1> USE <1>t DEF SessionFence, callVars
<1>1. ASSUME NEW c \in Calls, Allocate(c) PROVE SessionFence'
  BY <1>1 DEF Allocate, FailLocally
<1>2. ASSUME NEW c \in Calls, Enqueue(c) PROVE SessionFence'
  BY <1>2 DEF Enqueue, FailLocally
<1>3. ASSUME NEW c \in Calls, Return(c) PROVE SessionFence'
  BY <1>3 DEF Return
<1>4. ASSUME NEW c \in Calls, TimeOut(c) PROVE SessionFence'
  BY <1>4 DEF TimeOut
<1>5. ASSUME NEW c \in Calls, DropFuture(c) PROVE SessionFence'
  BY <1>5 DEF DropFuture
<1>6. ASSUME NEW c \in Calls, RefuseStale(c) PROVE SessionFence'
  BY <1>6 DEF RefuseStale, Answer
<1>7. ASSUME NEW c \in Calls, RefuseRequest(c) PROVE SessionFence'
  BY <1>7 DEF RefuseRequest, Answer
<1>8. ASSUME NEW c \in Calls, WriteRequest(c) PROVE SessionFence'
  BY <1>8 DEF WriteRequest, Answer
<1>9. ASSUME NEW c \in Calls, WriteSend(c) PROVE SessionFence'
  BY <1>9 DEF WriteSend, Answer, Fresh
<1>10. ASSUME NEW c \in Calls, ReceiveFinal(c) PROVE SessionFence'
  BY <1>10 DEF ReceiveFinal, Answer
<1>11. ASSUME NEW c \in Calls, ReceivePartial(c) PROVE SessionFence'
  BY <1>11 DEF ReceivePartial, vars
<1>12. ASSUME SendConnect PROVE SessionFence'
  BY <1>12 DEF SendConnect
<1>13. ASSUME StartClose PROVE SessionFence'
  BY <1>13 DEF StartClose
<1>14. ASSUME SendClose PROVE SessionFence'
  BY <1>14 DEF SendClose
<1>15. ASSUME TakeConnectIdle PROVE SessionFence'
  BY <1>15 DEF TakeConnectIdle
<1>16. ASSUME TakeCallIdle PROVE SessionFence'
  BY <1>16 DEF TakeCallIdle, Answer
<1>17. ASSUME TakeCloseIdle PROVE SessionFence'
  BY <1>17 DEF TakeCloseIdle, Answer
<1>18. ASSUME OpenSession PROVE SessionFence'
  BY <1>18 DEF OpenSession
<1>19. ASSUME StartSession PROVE SessionFence'
  BY <1>19 DEF StartSession
<1>20. ASSUME GiveUp PROVE SessionFence'
  BY <1>20 DEF GiveUp
<1>21. ASSUME TakeConnectLive PROVE SessionFence'
  BY <1>21 DEF TakeConnectLive
<1>22. ASSUME TakeCloseLive PROVE SessionFence'
  BY <1>22 DEF TakeCloseLive, FailAll, Answer
<1>23. ASSUME TakeCancellation PROVE SessionFence'
  BY <1>23 DEF TakeCancellation, Answer
<1>24. ASSUME LoseSession PROVE SessionFence'
  BY <1>24 DEF LoseSession, FailAll, Answer
<1>25. ASSUME UNCHANGED vars PROVE SessionFence'
  BY <1>25 DEF vars
<1> QED
  BY <1>1, <1>2, <1>3, <1>4, <1>5, <1>6, <1>7, <1>8, <1>9, <1>10, <1>11, <1>12, <1>13, <1>14, <1>15, <1>16, <1>17, <1>18, <1>19, <1>20, <1>21, <1>22, <1>23, <1>24, <1>25 DEF Next, CallerStep, SessionStep

\* No response is accepted from another session than the one its request was
\* stamped for, for any number of reconnects, callers and ids.
THEOREM ResponsesStayInSession == Spec => []SessionFence
<1>1. Init => SessionFence
  BY DEF Init, SessionFence
<1> QED
  BY <1>1, TableInit, TableStep, FenceStep, PTL DEF Spec

-----------------------------------------------------------------------------
(* Correlation ids. *)

\* How ids are numbered: only Allocate gives one out and only StartSession
\* starts a new numbering.
LEMMA NumberingStep == TableInv /\ NumberingOK /\ IdsUnique /\ [Next]_vars => (NumberingOK /\ IdsUnique)'
<1> SUFFICES ASSUME TableInv, NumberingOK, IdsUnique, [Next]_vars PROVE (NumberingOK /\ IdsUnique)'
  OBVIOUS
<1>t. /\ id \in [Calls -> 0..MaxId]
      /\ born \in [Calls -> Nat]
      /\ nextId \in 0..MaxId
      /\ resets \in Nat
      /\ MaxId \in Nat
  BY RequestsAssumption DEF TableInv, TypeInv, TypeOK
<1>1. ASSUME NEW c \in Calls, Allocate(c) PROVE (NumberingOK /\ IdsUnique)'
  <2>1. CASE nextId = 0
    BY <1>1, <1>t, <2>1 DEF Allocate, NumberingOK, IdsUnique
  <2>2. CASE nextId # 0
    <3>1. /\ id' = [id EXCEPT ![c] = nextId]
          /\ born' = [born EXCEPT ![c] = resets]
          /\ resets' = resets
          /\ nextId' = 0 \/ nextId' = nextId + 1
      BY <1>1, <2>2 DEF Allocate, NextAfter
    <3>2. NumberingOK'
      BY <1>t, <2>2, <3>1 DEF NumberingOK
    <3>3. \A d \in Calls : id[d] # 0 /\ born[d] = resets => id[d] # nextId
      BY <1>t, <2>2 DEF NumberingOK
    <3>4. IdsUnique'
      BY <1>t, <3>1, <3>3 DEF IdsUnique
    <3> QED
      BY <3>2, <3>4
  <2> QED
    BY <2>1, <2>2
<1>2. ASSUME StartSession PROVE (NumberingOK /\ IdsUnique)'
  <2>1. id' = id /\ born' = born /\ resets' = resets + 1
    BY <1>2 DEF StartSession, callVars
  <2>2. NumberingOK'
    BY <1>t, <2>1 DEF NumberingOK
  <2> QED
    BY <2>1, <2>2 DEF IdsUnique
<1>3. ASSUME UNCHANGED <<id, born, resets, nextId>> PROVE (NumberingOK /\ IdsUnique)'
  BY <1>3 DEF NumberingOK, IdsUnique
<1>4. ASSUME NEW c \in Calls, CallerStep(c) \/ SessionStep(c) PROVE (NumberingOK /\ IdsUnique)'
  BY <1>1, <1>3, <1>4
     DEF CallerStep, SessionStep, Enqueue, Return, TimeOut, DropFuture, RefuseStale, RefuseRequest,
         WriteRequest, WriteSend, ReceiveFinal, ReceivePartial, callVars, vars
<1>5. ASSUME \/ SendConnect \/ StartClose \/ SendClose \/ TakeConnectIdle \/ TakeCallIdle
             \/ TakeCloseIdle \/ OpenSession \/ GiveUp \/ TakeConnectLive \/ TakeCloseLive
             \/ TakeCancellation \/ LoseSession \/ UNCHANGED vars
      PROVE  (NumberingOK /\ IdsUnique)'
  BY <1>3, <1>5
     DEF SendConnect, StartClose, SendClose, TakeConnectIdle, TakeCallIdle, TakeCloseIdle, OpenSession,
         GiveUp, TakeConnectLive, TakeCloseLive, TakeCancellation, LoseSession, callVars, vars
<1> QED
  BY <1>2, <1>4, <1>5 DEF Next

\* A response that reaches another call than the one that asked shares its id,
\* so it comes from another numbering.
LEMMA DeliveryStep ==
    NumberInv /\ [Next]_vars => (AnswersOK /\ MisdeliveryNeedsReset)'
<1> SUFFICES ASSUME NumberInv, [Next]_vars PROVE (AnswersOK /\ MisdeliveryNeedsReset)'
  OBVIOUS
<1> DEFINE Goal == AnswersOK /\ MisdeliveryNeedsReset
<1>t. /\ slot \in [Ids -> Calls \cup {Free, Tombstone}]
      /\ id \in [Calls -> 0..MaxId]
      /\ born \in [Calls -> Nat]
      /\ from \in [Calls -> Calls \cup {NoCall}]
      /\ reply \in [Calls -> Replies]
      /\ \A c \in Calls : /\ pc[c] = "new" => id[c] = 0
                          /\ pc[c] \in {"new", "allocated"} => reply[c] = "none"
      /\ \A c \in Calls : c \in Elements(queue) => id[c] \in Ids
      /\ \A i \in Ids : slot[i] \in Calls => id[slot[i]] = i
      /\ \A d \in outstanding : id[d] \in Ids
      /\ 0 \notin Ids
      /\ \A c, d \in Calls : id[c] # 0 /\ id[c] = id[d] /\ born[c] = born[d] => c = d
  BY DEF NumberInv, TableInv, TypeInv, TypeOK, Numbered, QueueOK, SlotOK, OutstandingOK, Handed, Ids,
         IdsUnique
<1>a. TypeInv /\ AnswersOK /\ MisdeliveryNeedsReset
  BY DEF NumberInv, TableInv
<1> USE <1>t, <1>a DEF AnswersOK, MisdeliveryNeedsReset, callVars
<1>1. ASSUME NEW c \in Calls, Allocate(c) PROVE Goal'
  <2>1. \A d \in Calls : reply[d] = "ok" => d # c /\ from[d] # c
    BY <1>1 DEF Allocate
  <2>2. \A d \in Calls : d # c => id'[d] = id[d] /\ born'[d] = born[d]
    BY <1>1 DEF Allocate
  <2>3. from' = from /\ \A d \in Calls : reply'[d] = "ok" => reply[d] = "ok"
    BY <1>1 DEF Allocate, FailLocally
  <2> QED
    BY <2>1, <2>2, <2>3
<1>2. ASSUME NEW c \in Calls, Enqueue(c) PROVE Goal'
  BY <1>2 DEF Enqueue, FailLocally
<1>3. ASSUME NEW c \in Calls, Return(c) PROVE Goal'
  BY <1>3 DEF Return
<1>4. ASSUME NEW c \in Calls, TimeOut(c) PROVE Goal'
  BY <1>4 DEF TimeOut
<1>5. ASSUME NEW c \in Calls, DropFuture(c) PROVE Goal'
  BY <1>5 DEF DropFuture
<1>6. ASSUME NEW c \in Calls, RefuseStale(c) PROVE Goal'
  BY <1>6 DEF RefuseStale, Answer
<1>7. ASSUME NEW c \in Calls, RefuseRequest(c) PROVE Goal'
  BY <1>7 DEF RefuseRequest, Answer
<1>8. ASSUME NEW c \in Calls, WriteRequest(c) PROVE Goal'
  BY <1>8 DEF WriteRequest, Answer
<1>9. ASSUME NEW c \in Calls, WriteSend(c) PROVE Goal'
  <2>1. id[c] \in Ids
    BY <1>9, ElementsTail DEF WriteSend, Taking, TypeInv, TypeOK
  <2> QED
    BY <1>9, <2>1 DEF WriteSend, Answer
<1>10. ASSUME NEW c \in Calls, ReceiveFinal(c) PROVE Goal'
  BY <1>10 DEF ReceiveFinal, Answer
<1>11. ASSUME NEW c \in Calls, ReceivePartial(c) PROVE Goal'
  BY <1>11 DEF ReceivePartial, vars
<1>12. ASSUME SendConnect PROVE Goal'
  BY <1>12 DEF SendConnect
<1>13. ASSUME StartClose PROVE Goal'
  BY <1>13 DEF StartClose
<1>14. ASSUME SendClose PROVE Goal'
  BY <1>14 DEF SendClose
<1>15. ASSUME TakeConnectIdle PROVE Goal'
  BY <1>15 DEF TakeConnectIdle
<1>16. ASSUME TakeCallIdle PROVE Goal'
  BY <1>16 DEF TakeCallIdle, Answer
<1>17. ASSUME TakeCloseIdle PROVE Goal'
  BY <1>17 DEF TakeCloseIdle, Answer
<1>18. ASSUME OpenSession PROVE Goal'
  BY <1>18 DEF OpenSession
<1>19. ASSUME StartSession PROVE Goal'
  BY <1>19 DEF StartSession
<1>20. ASSUME GiveUp PROVE Goal'
  BY <1>20 DEF GiveUp
<1>21. ASSUME TakeConnectLive PROVE Goal'
  BY <1>21 DEF TakeConnectLive
<1>22. ASSUME TakeCloseLive PROVE Goal'
  BY <1>22 DEF TakeCloseLive, FailAll, Answer
<1>23. ASSUME TakeCancellation PROVE Goal'
  BY <1>23 DEF TakeCancellation, Answer
<1>24. ASSUME LoseSession PROVE Goal'
  BY <1>24 DEF LoseSession, FailAll, Answer
<1>25. ASSUME UNCHANGED vars PROVE Goal'
  BY <1>25 DEF vars
<1> QED
  BY <1>1, <1>2, <1>3, <1>4, <1>5, <1>6, <1>7, <1>8, <1>9, <1>10, <1>11, <1>12, <1>13, <1>14, <1>15, <1>16, <1>17, <1>18, <1>19, <1>20, <1>21, <1>22, <1>23, <1>24, <1>25 DEF Next, CallerStep, SessionStep

\* A response never reaches the wrong caller within one numbering of the ids:
\* the only way to get one is the reset of next_request_id between the two.
THEOREM MisdeliveryOnlyAcrossResets == Spec => []MisdeliveryNeedsReset
<1>1. Init => NumberInv
  BY TableInit DEF Init, NumberInv, NumberingOK, IdsUnique, AnswersOK, MisdeliveryNeedsReset
<1>2. NumberInv /\ [Next]_vars => NumberInv'
  BY TableStep, NumberingStep, DeliveryStep DEF NumberInv
<1>3. NumberInv => MisdeliveryNeedsReset
  BY DEF NumberInv
<1> QED
  BY <1>1, <1>2, <1>3, PTL DEF Spec

-----------------------------------------------------------------------------
(* The in-flight limit. *)

\* A slot is added only below the limit, and HELLO changes the limit while the
\* table is empty.
LEMMA InFlightStep ==
    TableInv /\ InFlightBound /\ [Next]_vars => InFlightBound'
<1> SUFFICES ASSUME TableInv, InFlightBound, [Next]_vars PROVE InFlightBound'
  OBVIOUS
<1>t. /\ TypeInv /\ TypeInv'
      /\ slot \in [Ids -> Calls \cup {Free, Tombstone}]
      /\ limit \in Nat \ {0}
      /\ \A d \in outstanding : id[d] \in Ids
  BY TypeStep DEF TableInv, TypeInv, TypeOK, OutstandingOK, Handed
\* The ids in flight are finitely many, so they can be counted.
<1>f. /\ IsFiniteSet(InFlight) /\ Cardinality(InFlight) \in Nat
      /\ IsFiniteSet(InFlight') /\ Cardinality(InFlight') \in Nat
  <2>1. IsFiniteSet(Ids)
    BY RequestsAssumption, FS_Interval DEF Ids
  <2>2. InFlight \subseteq Ids /\ InFlight' \subseteq Ids
    BY DEF InFlight
  <2> QED
    BY <2>1, <2>2, FS_Subset, FS_CardinalityType
\* A step that frees ids, or leaves them, and keeps the limit.
<1>k. ASSUME InFlight' \subseteq InFlight, limit' = limit PROVE InFlightBound'
  <2>1. Cardinality(InFlight') <= Cardinality(InFlight)
    BY <1>f, <1>k, FS_Subset
  <2> QED
    BY <1>f, <1>k, <1>t, <2>1 DEF InFlightBound
\* A step after which the table is empty.
<1>e. ASSUME InFlight' = {}, limit' \in Nat PROVE InFlightBound'
  BY <1>e, FS_EmptySet DEF InFlightBound
<1>1. ASSUME NEW c \in Calls, WriteRequest(c) PROVE InFlightBound'
  <2>1. InFlight' \subseteq InFlight \cup {id[c]} /\ limit' = limit
    BY <1>1, <1>t DEF WriteRequest, InFlight
  <2>2. Cardinality(InFlight) < limit
    BY <1>1 DEF WriteRequest, HasRoom
  <2>3. CASE id[c] \in InFlight
    BY <1>k, <2>1, <2>3
  <2>4. CASE id[c] \notin InFlight
    <3>1. /\ IsFiniteSet(InFlight \cup {id[c]})
          /\ Cardinality(InFlight \cup {id[c]}) = Cardinality(InFlight) + 1
      BY <1>f, <2>4, FS_AddElement
    <3>2. Cardinality(InFlight') <= Cardinality(InFlight) + 1
      BY <2>1, <3>1, FS_Subset
    <3> QED
      BY <1>f, <1>t, <2>1, <2>2, <3>2 DEF InFlightBound
  <2> QED
    BY <2>3, <2>4
<1>2. ASSUME NEW c \in Calls, ReceiveFinal(c) PROVE InFlightBound'
  BY <1>2, <1>k, <1>t DEF ReceiveFinal, InFlight
<1>3. ASSUME TakeCancellation PROVE InFlightBound'
  <2>1. Head(cancels) \in Ids
    BY <1>3, <1>t, CancellationType
  <2> QED
    BY <1>3, <1>k, <1>t, <2>1 DEF TakeCancellation, InFlight
<1>4. ASSUME TakeCloseLive \/ LoseSession PROVE InFlightBound'
  <2>1. InFlight' = {} /\ limit' = limit
    BY <1>4 DEF TakeCloseLive, LoseSession, FailAll, InFlight
  <2> QED
    BY <1>e, <1>t, <2>1
<1>5. ASSUME OpenSession PROVE InFlightBound'
  <2>1. InFlight' = {}
    BY <1>5 DEF OpenSession, Authenticate, TableInv, TablesOK, InFlight, sessionVars
  <2>2. limit' \in Nat
    BY <1>t DEF TypeInv, TypeOK
  <2> QED
    BY <1>e, <2>1, <2>2
<1>6. ASSUME UNCHANGED <<slot, limit>> PROVE InFlightBound'
  BY <1>6, <1>k DEF InFlight
<1>7. ASSUME NEW c \in Calls, CallerStep(c) \/ SessionStep(c) PROVE InFlightBound'
  BY <1>1, <1>2, <1>6, <1>7
     DEF CallerStep, SessionStep, Allocate, Enqueue, Return, TimeOut, DropFuture, RefuseStale,
         RefuseRequest, WriteSend, ReceivePartial, sessionVars, vars
<1>8. ASSUME \/ SendConnect \/ StartClose \/ SendClose \/ TakeConnectIdle \/ TakeCallIdle
             \/ TakeCloseIdle \/ StartSession \/ GiveUp \/ TakeConnectLive \/ UNCHANGED vars
      PROVE  InFlightBound'
  BY <1>6, <1>8
     DEF SendConnect, StartClose, SendClose, TakeConnectIdle, TakeCallIdle, TakeCloseIdle,
         StartSession, GiveUp, TakeConnectLive, sessionVars, vars
<1> QED
  BY <1>3, <1>4, <1>5, <1>7, <1>8 DEF Next

\* For every sequence of HELLOs, cancellations and reconnects the session never
\* has more ids in flight than the limit in force.
THEOREM InFlightBounded == Spec => []InFlightBound
<1>1. Init => InFlightBound
  <2>1. Init => InFlight = {} /\ limit \in Nat
    BY RequestsAssumption DEF Init, InFlight
  <2> QED
    BY <2>1, FS_EmptySet DEF InFlightBound
<1> QED
  BY <1>1, TableInit, TableStep, InFlightStep, PTL DEF Spec
=============================================================================
