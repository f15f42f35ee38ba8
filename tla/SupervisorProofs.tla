---------------------------- MODULE SupervisorProofs ----------------------------
(***************************************************************************)
(* The supervisor task keeps its promises for any number of connectors,    *)
(* any queue capacity and any reconnect policy, and implements the session *)
(* life cycle of module SessionLife.                                       *)
(***************************************************************************)
EXTENDS Supervisor, TLAPS

Phase == Opening \cup {"idle", "restoring", "live", "stopped"}
Progress == {"new", "checked", "announced", "obtained", "moved", "admitted", "sent", "done"}
Results == {"none", "ok", "version", "auth", "failed", "gone", "Closed", "Timeout"}

Among(q, x) == \E i \in 1..Len(q) : q[i] = x
Queued(x) == Among(queue, x)

\* A loss is taken only when the bound leaves room to count it.
LossCounted == sup = "lost" => attempts < MaxAttempts

\* No session is served under a generation that has not been reached.
Serving == sessionGen <= generation /\ AuthenticatedMeansServing

\* Where a command is taken, no initial response is pending that the next Connect
\* could overwrite.
Held == ConnectHeld /\ (sup \in {"idle", "live"} => initial = NoConnector)

\* The limit holds in the session too, from which the next attempt is counted.
Counted ==
    MaximumAttempts # 0 /\ sup \notin {"idle", "stopped"} => attempts <= MaximumAttempts

\* Close is in the queue only after close() has put it there.
CloseQueued == Queued(Close) => closing = "sent"

\* A successor is spawned into the slot that close() has emptied, and once.
Spawned == slot # "successor" => successor = "none"

SupInv == TypeOK /\ LossCounted /\ Serving /\ Held /\ Counted /\ CloseQueued /\ Spawned

-----------------------------------------------------------------------------
\* Taking the first command leaves the others queued, and queues nothing.
LEMMA TailQueue ==
    ASSUME NEW S, NEW q \in Seq(S), q # <<>>, NEW x
    PROVE  /\ Among(q, x) => x = Head(q) \/ Among(Tail(q), x)
           /\ Among(Tail(q), x) => Among(q, x)
           /\ Among(q, Head(q))
<1>1. /\ Head(q) = q[1] /\ 1 \in 1..Len(q) /\ Len(q) \in Nat
      /\ Len(Tail(q)) = Len(q) - 1 /\ \A i \in 1..Len(Tail(q)) : Tail(q)[i] = q[i + 1]
  OBVIOUS
<1>2. ASSUME NEW i \in 1..Len(q), q[i] = x, x # Head(q)
      PROVE  Among(Tail(q), x)
  <2>1. i # 1
    BY <1>1, <1>2
  <2>2. i - 1 \in 1..Len(Tail(q)) /\ (i - 1) + 1 = i
    BY <1>1, <2>1
  <2> QED
    BY <1>1, <1>2, <2>2 DEF Among
<1>3. ASSUME NEW i \in 1..Len(Tail(q)), Tail(q)[i] = x
      PROVE  Among(q, x)
  <2>1. i + 1 \in 1..Len(q)
    BY <1>1
  <2> QED
    BY <1>1, <1>3, <2>1 DEF Among
<1>4. Among(q, Head(q))
  BY <1>1 DEF Among
<1> QED
  BY <1>2, <1>3, <1>4 DEF Among

\* A command sent is queued behind the others.
LEMMA AppendQueue ==
    ASSUME NEW S, NEW q \in Seq(S), NEW e \in S, NEW x
    PROVE  Among(Append(q, e), x) <=> (x = e \/ Among(q, x))
<1>1. /\ Len(q) \in Nat
      /\ Len(Append(q, e)) = Len(q) + 1
      /\ Append(q, e)[Len(q) + 1] = e
      /\ \A i \in 1..Len(q) : Append(q, e)[i] = q[i]
  OBVIOUS
<1>2. 1..Len(Append(q, e)) = (1..Len(q)) \cup {Len(q) + 1}
  BY <1>1
<1> QED
  BY <1>1, <1>2 DEF Among

\* Answering a oneshot completes at most the connect() that waits on it.
LEMMA TellKeeps ==
    ASSUME TypeOK, NEW k, NEW what \in Results, Tell(k, what)
    PROVE  /\ pc' \in [Connectors -> Progress] /\ result' \in [Connectors -> Results]
           /\ \A j \in Connectors : pc'[j] = "sent" => pc[j] = "sent" /\ j # k
BY DEF TypeOK, Tell, ReturnConnect, connVars, Progress, Results

\* What the other steps need of an invariant state, with the types spelled out.
LEMMA SupTyped ==
    ASSUME SupInv
    PROVE  /\ sup \in Phase /\ state \in States /\ attempts \in 0..MaxAttempts + 1
           /\ queue \in Seq(Connectors \cup {Close})
           /\ generation \in 0..MaxGeneration /\ sessionGen \in -1..MaxGeneration
           /\ slot \in Slots /\ successor \in Successors
           /\ pc \in [Connectors -> Progress] /\ result \in [Connectors -> Results]
BY DEF SupInv, TypeOK, Phase, Progress, Results

\* A step of a caller of connect() that leaves the supervisor and the session alone:
\* it may announce Connecting or spawn a successor, and is sent only if it is queued.
LEMMA CallerStep ==
    ASSUME SupInv, NEW k \in Connectors,
           pc' \in [Connectors -> Progress], result' \in [Connectors -> Results],
           state' \in {state, "Connecting"},
           queue' \in {queue, Append(queue, k)},
           \A j \in Connectors : pc'[j] = "sent" =>
               pc[j] = "sent" \/ (j = k /\ queue' = Append(queue, k)),
           slot' \in Slots, successor' \in Successors, successor = "live" => successor' = "live",
           Spawned',
           UNCHANGED <<supVars, generation, sessionGen, closing, closed>>
    PROVE  SupInv'
<1>1. /\ sup' = sup /\ attempts' = attempts /\ initial' = initial
      /\ generation' = generation /\ sessionGen' = sessionGen /\ closing' = closing
      /\ closed' = closed
  BY DEF supVars
<1>2. queue \in Seq(Connectors \cup {Close})
  BY SupTyped
<1>3. /\ queue' \in Seq(Connectors \cup {Close})
      /\ \A x : Queued(x)' => Queued(x) \/ x = k
      /\ \A x : Queued(x) => Queued(x)'
      /\ queue' = Append(queue, k) => Queued(k)'
  <2>1. Append(queue, k) \in Seq(Connectors \cup {Close})
    BY <1>2
  <2>2. \A x : Among(Append(queue, k), x) <=> (x = k \/ Among(queue, x))
    BY <1>2, AppendQueue
  <2> QED
    BY <1>2, <2>1, <2>2 DEF Queued
<1>4. TypeOK'
  BY <1>1, <1>3 DEF SupInv, TypeOK, States, Progress, Results
<1>5. LossCounted' /\ Counted'
  BY <1>1 DEF SupInv, LossCounted, Counted
<1>6. Serving'
  BY <1>1 DEF SupInv, Serving, AuthenticatedMeansServing
<1>7. Held'
  BY <1>1, <1>3 DEF SupInv, Held, ConnectHeld, Queued, Among
<1>8. CloseQueued'
  BY <1>1, <1>3, SupervisorAssumption DEF SupInv, CloseQueued
<1> QED
  BY <1>4, <1>5, <1>6, <1>7, <1>8 DEF SupInv

\* A step of close() that may empty the slot, queue Close, raise the generation or announce
\* Closed, or a step of the connection spawned behind it.
LEMMA CloserStep ==
    ASSUME SupInv, TakeSlot \/ RequestClose \/ SendClose \/ CloseReturns \/ SuccessorStep
    PROVE  SupInv'
<1>1. sup' = sup /\ attempts' = attempts /\ initial' = initial /\ sessionGen' = sessionGen
      /\ pc' = pc /\ result' = result
  BY DEF TakeSlot, RequestClose, SendClose, CloseReturns, SuccessorStep, supVars, connVars
<1>2. queue \in Seq(Connectors \cup {Close})
  BY SupTyped
<1>3. /\ queue' \in Seq(Connectors \cup {Close})
      /\ \A x : Queued(x) => Queued(x)'
      /\ Queued(Close)' => Queued(Close) \/ closing' = "sent"
  <2>1. Append(queue, Close) \in Seq(Connectors \cup {Close})
    BY <1>2
  <2>2. \A x : Among(Append(queue, Close), x) <=> (x = Close \/ Among(queue, x))
    BY <1>2, AppendQueue
  <2> QED
    BY <1>2, <2>1, <2>2 DEF Queued, TakeSlot, RequestClose, SendClose, CloseReturns, SuccessorStep
<1>4. generation' \in 0..MaxGeneration /\ generation' >= generation
  BY SupTyped, SupervisorAssumption DEF TakeSlot, RequestClose, SendClose, CloseReturns, SuccessorStep
<1>5. /\ state' \in States /\ slot' \in Slots /\ successor' \in Successors
      /\ \/ state' \in {state, "Closed"} /\ successor' = successor
         \/ state' = "Authenticated" => successor' = "live"
  BY SupTyped DEF TakeSlot, RequestClose, SendClose, CloseReturns, SuccessorStep, States,
                  Slots, Successors
<1>6. closing' \in {"no", "requested", "sent", "settled"} /\ closed' \in BOOLEAN
      /\ (closing = "sent" => closing' = "sent")
  BY DEF SupInv, TypeOK, TakeSlot, RequestClose, SendClose,
         CloseReturns, SuccessorStep
<1>7. TypeOK'
  BY <1>1, <1>3, <1>4, <1>5, <1>6 DEF SupInv, TypeOK, States
<1>8. LossCounted' /\ Counted'
  BY <1>1 DEF SupInv, LossCounted, Counted
<1>9. Serving'
  BY <1>1, <1>4, <1>5, SupTyped DEF SupInv, Serving, AuthenticatedMeansServing
<1>10. Held'
  BY <1>1, <1>3 DEF SupInv, Held, ConnectHeld, Queued, Among
<1>11. CloseQueued'
  BY <1>3, <1>6 DEF SupInv, CloseQueued
<1>12. Spawned'
  BY DEF SupInv, Spawned, TakeSlot, RequestClose, SendClose, CloseReturns, SuccessorStep
<1> QED
  BY <1>7, <1>8, <1>9, <1>10, <1>11, <1>12 DEF SupInv

\* A step of the supervisor that takes no command: it stays among its phases, announces
\* no session of its own, keeps or answers the initial response, and counts within the limit.
LEMMA AttemptStep ==
    ASSUME SupInv, sup' \in Phase \ {"live", "lost", "stopped"},
           state' \in States, state' = "Authenticated" => successor = "live",
           attempts' \in 0..MaxAttempts + 1,
           MaximumAttempts # 0 /\ sup' # "idle" => attempts' <= MaximumAttempts,
           \/ sup' # "idle" /\ initial' = initial /\ UNCHANGED connVars
           \/ initial' = NoConnector /\ \E what \in Results : Tell(initial, what),
           UNCHANGED <<queue, generation, sessionGen, clientVars>>
    PROVE  SupInv'
<1>1. /\ pc' \in [Connectors -> Progress] /\ result' \in [Connectors -> Results]
      /\ \A j \in Connectors : pc'[j] = "sent" => pc[j] = "sent" /\ (initial' = initial \/ j # initial)
  BY SupTyped, TellKeeps DEF connVars, SupInv
<1>2. TypeOK'
  BY <1>1 DEF SupInv, TypeOK, Phase, Progress, Results, clientVars
<1>3. LossCounted' /\ Counted'
  BY DEF LossCounted, Counted
<1>4. Serving'
  BY DEF SupInv, Serving, AuthenticatedMeansServing, clientVars
<1>5. Held'
  BY <1>1 DEF SupInv, Held, ConnectHeld, Phase, Opening
<1>6. CloseQueued' /\ Spawned'
  BY DEF SupInv, CloseQueued, Queued, Spawned, clientVars
<1> QED
  BY <1>2, <1>3, <1>4, <1>5, <1>6 DEF SupInv

\* An announced session is served or its loss is being counted: in the other phases the
\* state a step leaves alone is not Authenticated, unless the successor announced it.
LEMMA NotAnnounced ==
    ASSUME SupInv, sup \notin {"live", "lost"}
    PROVE  state \in States /\ (state = "Authenticated" => successor = "live")
BY SupTyped DEF SupInv, Serving, AuthenticatedMeansServing

\* reconnect_delay() counts an attempt within the limit or ends the run.
LEMMA DelayStep ==
    ASSUME SupInv, attempts < MaxAttempts, Delay(attempts + 1),
           UNCHANGED <<queue, generation, sessionGen, clientVars>>
    PROVE  SupInv'
<1>1. attempts + 1 \in 0..MaxAttempts + 1 /\ attempts' = attempts + 1
  BY SupTyped, SupervisorAssumption DEF Delay
<1>2. CASE Retire("Disconnected", "failed")
  <2>1. /\ sup' = "idle" /\ state' = "Disconnected" /\ initial' = NoConnector
        /\ \E what \in Results : Tell(initial, what)
    BY <1>2 DEF Retire, Results
  <2> QED
    BY <1>1, <2>1, AttemptStep DEF Phase, States
<1>3. CASE /\ MaximumAttempts = 0 \/ attempts + 1 <= MaximumAttempts
           /\ sup' = "backoff" /\ state' = "Reconnecting" /\ UNCHANGED <<initial, connVars>>
  BY <1>1, <1>3, AttemptStep DEF Phase, Opening, States
<1> QED
  BY <1>2, <1>3 DEF Delay

\* connect_and_run() returns: whatever it announces, the initial response is answered.
LEMMA RetireStep ==
    ASSUME SupInv, NEW s \in States \ {"Authenticated"}, NEW what \in Results,
           Retire(s, what), UNCHANGED <<attempts, queue, generation, sessionGen, clientVars>>
    PROVE  SupInv'
<1>1. /\ sup' = "idle" /\ state' = s /\ initial' = NoConnector
      /\ \E w \in Results : Tell(initial, w)
  BY DEF Retire
<1>2. attempts' \in 0..MaxAttempts + 1
  BY SupTyped
<1> QED
  BY <1>1, <1>2, AttemptStep DEF Phase

\* A command is taken off the queue.
LEMMA TakeStep ==
    ASSUME SupInv, TakeConnect \/ SessionConnect \/ SessionClose
    PROVE  SupInv'
<1>1. queue \in Seq(Connectors \cup {Close}) /\ queue # <<>>
  BY SupTyped DEF TakeConnect, SessionConnect, SessionClose
<1>2. /\ queue' = Tail(queue) /\ queue' \in Seq(Connectors \cup {Close})
      /\ \A x : Queued(x)' => Queued(x)
      /\ \A x : Queued(x) => x = Head(queue) \/ Queued(x)'
  <2>1. queue' = Tail(queue)
    BY DEF TakeConnect, SessionConnect, SessionClose
  <2>2. queue' \in Seq(Connectors \cup {Close})
    BY <1>1, <2>1
  <2>3. ASSUME NEW x
        PROVE  (Queued(x)' => Queued(x)) /\ (Queued(x) => x = Head(queue) \/ Queued(x)')
    BY <1>1, <2>1, TailQueue DEF Queued
  <2> QED
    BY <2>1, <2>2, <2>3
<1>3. /\ generation' = generation /\ sessionGen' = sessionGen
      /\ closing' = closing /\ closed' = closed /\ slot' = slot /\ successor' = successor
  BY DEF TakeConnect, SessionConnect, SessionClose, clientVars
<1>4. CloseQueued' /\ Spawned'
  BY <1>2, <1>3 DEF SupInv, CloseQueued, Spawned
<1>5. CASE TakeConnect
  <2>1. /\ sup = "idle" /\ sup' = "top" /\ state' = "Connecting" /\ attempts' = 0
        /\ initial' = Head(queue) /\ Head(queue) \in Connectors
        /\ pc' = pc /\ result' = result
    BY <1>5 DEF TakeConnect, connVars
  <2>2. initial = NoConnector
    BY <2>1 DEF SupInv, Held
  <2>3. TypeOK'
    BY <1>2, <1>3, <2>1, SupervisorAssumption DEF SupInv, TypeOK, Opening, States
  <2>4. LossCounted' /\ Counted' /\ Serving'
    BY <1>3, <2>1, SupervisorAssumption
       DEF SupInv, LossCounted, Counted, Serving, AuthenticatedMeansServing
  <2>5. Held'
    BY <1>2, <2>1, <2>2, SupervisorAssumption DEF SupInv, Held, ConnectHeld, Queued, Among
  <2> QED
    BY <1>4, <2>3, <2>4, <2>5 DEF SupInv
<1>6. CASE SessionConnect
  <2>1. /\ sup' = sup /\ sup = "live" /\ state' = state /\ attempts' = attempts
        /\ initial' = initial /\ Tell(Head(queue), "ok")
    BY <1>6 DEF SessionConnect, supVars
  <2>2. /\ pc' \in [Connectors -> Progress] /\ result' \in [Connectors -> Results]
        /\ \A j \in Connectors : pc'[j] = "sent" => pc[j] = "sent" /\ j # Head(queue)
    BY <2>1, TellKeeps DEF SupInv, Results
  <2>3. TypeOK'
    BY <1>2, <1>3, <2>1, <2>2 DEF SupInv, TypeOK, Progress, Results
  <2>4. LossCounted' /\ Counted' /\ Serving'
    BY <1>3, <2>1 DEF SupInv, LossCounted, Counted, Serving, AuthenticatedMeansServing
  <2>5. Held'
    BY <1>2, <2>1, <2>2 DEF SupInv, Held, ConnectHeld, Queued, Among
  <2> QED
    BY <1>4, <2>3, <2>4, <2>5 DEF SupInv
<1>7. CASE SessionClose
  <2>1. /\ sup = "live" /\ sup' = "idle" /\ state' = "Closed" /\ attempts' = attempts
        /\ initial' = initial /\ Head(queue) = Close /\ pc' = pc /\ result' = result
    BY <1>7 DEF SessionClose, connVars
  <2>2. TypeOK'
    BY <1>2, <1>3, <2>1 DEF SupInv, TypeOK, States
  <2>3. LossCounted' /\ Counted' /\ Serving'
    BY <1>3, <2>1 DEF SupInv, LossCounted, Counted, Serving, AuthenticatedMeansServing
  <2>4. Held'
    BY <1>2, <2>1, SupervisorAssumption DEF SupInv, Held, ConnectHeld, Queued, Among
  <2> QED
    BY <1>4, <2>2, <2>3, <2>4 DEF SupInv
<1> QED
  BY <1>5, <1>6, <1>7

\* supervise() returns: no connect() waits any longer on a oneshot that was dropped.
LEMMA StopStep ==
    ASSUME SupInv, TakeClose
    PROVE  SupInv'
<1>1. /\ sup = "idle" /\ sup' = "stopped" /\ state' = "Closed" /\ attempts' = attempts
      /\ initial' = initial /\ queue' = <<>> /\ generation' = generation
      /\ sessionGen' = sessionGen /\ closing' = closing /\ closed' = closed
      /\ slot' = slot /\ successor' = successor
  BY DEF TakeClose, clientVars
<1>2. /\ pc' \in [Connectors -> Progress] /\ result' \in [Connectors -> Results]
      /\ \A j \in Connectors : pc'[j] # "sent"
  BY SupTyped DEF TakeClose, Progress, Results
<1>3. queue' \in Seq(Connectors \cup {Close}) /\ \A x : ~Queued(x)'
  BY <1>1 DEF Queued, Among
<1>4. TypeOK'
  BY <1>1, <1>2, <1>3 DEF SupInv, TypeOK, States, Progress, Results
<1>5. LossCounted' /\ Counted' /\ Serving' /\ Held' /\ CloseQueued' /\ Spawned'
  BY <1>1, <1>2, <1>3 DEF SupInv, LossCounted, Counted, Serving, AuthenticatedMeansServing,
                          Held, ConnectHeld, CloseQueued, Spawned
<1> QED
  BY <1>4, <1>5 DEF SupInv

\* A session is announced and served, and later lost.
LEMMA SessionStep ==
    ASSUME SupInv, Restored \/ SessionLost
    PROVE  SupInv'
<1>1. /\ attempts' = attempts /\ queue' = queue /\ closing' = closing /\ closed' = closed
      /\ slot' = slot /\ successor' = successor
  BY DEF Restored, SessionLost, clientVars
<1>2. CASE Restored
  <2>1. /\ sup' = "live" /\ state' = "Authenticated" /\ initial' = NoConnector
        /\ Tell(initial, "ok") /\ sessionGen' = generation /\ generation' = generation
        /\ sup = "restoring"
    BY <1>2 DEF Restored
  <2>2. /\ pc' \in [Connectors -> Progress] /\ result' \in [Connectors -> Results]
        /\ \A j \in Connectors : pc'[j] = "sent" => pc[j] = "sent" /\ j # initial
    BY <2>1, TellKeeps DEF SupInv, Results
  <2>3. TypeOK'
    BY <1>1, <2>1, <2>2, SupervisorAssumption DEF SupInv, TypeOK, States, Progress, Results
  <2>4. LossCounted' /\ Counted' /\ Serving' /\ CloseQueued' /\ Spawned'
    BY <1>1, <2>1, SupTyped DEF SupInv, LossCounted, Counted, Serving,
                                AuthenticatedMeansServing, CloseQueued, Queued, Spawned
  <2>5. Held'
    BY <1>1, <2>1, <2>2 DEF SupInv, Held, ConnectHeld
  <2> QED
    BY <2>3, <2>4, <2>5 DEF SupInv
<1>3. CASE SessionLost
  <2>1. /\ sup = "live" /\ sup' = "lost" /\ state' = state /\ initial' = initial
        /\ generation < MaxGeneration /\ generation' = generation + 1
        /\ attempts < MaxAttempts /\ sessionGen' = sessionGen /\ pc' = pc /\ result' = result
    BY <1>3 DEF SessionLost, connVars
  <2>2. TypeOK'
    BY <1>1, <2>1, SupervisorAssumption DEF SupInv, TypeOK, Opening
  <2>3. LossCounted' /\ Counted' /\ CloseQueued' /\ Held' /\ Spawned'
    BY <1>1, <2>1 DEF SupInv, LossCounted, Counted, CloseQueued, Queued, Held, ConnectHeld,
                      Spawned
  <2>4. Serving'
    BY <2>1, SupTyped DEF SupInv, Serving, AuthenticatedMeansServing
  <2> QED
    BY <2>2, <2>3, <2>4 DEF SupInv
<1> QED
  BY <1>2, <1>3

\* The supervisor starts idle, with nothing queued and no session announced.
LEMMA SupStarts == Init => SupInv
<1> SUFFICES ASSUME Init PROVE SupInv
  OBVIOUS
<1>1. TypeOK
  <2>1. queue \in Seq(Connectors \cup {Close})
    BY DEF Init
  <2>2. attempts \in 0..MaxAttempts + 1 /\ generation \in 0..MaxGeneration
        /\ sessionGen \in -1..MaxGeneration
    BY SupervisorAssumption DEF Init
  <2> QED
    BY <2>1, <2>2 DEF Init, TypeOK, States, Slots, Successors
<1>2. LossCounted /\ Counted /\ Serving
  BY DEF Init, LossCounted, Counted, Serving, AuthenticatedMeansServing
<1>3. Held /\ CloseQueued /\ Spawned
  BY DEF Init, Held, ConnectHeld, CloseQueued, Queued, Among, Spawned
<1> QED
  BY <1>1, <1>2, <1>3 DEF SupInv

\* Every step of the callers, of the supervisor and of the transport keeps the invariant.
LEMMA SupKept ==
    ASSUME SupInv, [Next]_vars
    PROVE  SupInv'
<1>1. ASSUME NEW k \in Connectors,
             \/ CheckState(k) \/ Announce(k) \/ Obtain(k)
             \/ Admit(k) \/ SendConnect(k) \/ ConnectTimeOut(k)
      PROVE  SupInv'
  <2>1. pc \in [Connectors -> Progress] /\ result \in [Connectors -> Results]
    BY SupTyped
  <2>2. pc' \in [Connectors -> Progress] /\ result' \in [Connectors -> Results]
    BY <1>1, <2>1 DEF CheckState, Announce, Obtain, Admit, SendConnect, ConnectTimeOut, ReturnConnect,
                      Progress, Results
  <2>3. state' \in {state, "Connecting"} /\ queue' \in {queue, Append(queue, k)}
    BY <1>1 DEF CheckState, Announce, Obtain, Admit, SendConnect, ConnectTimeOut
  <2>4. \A j \in Connectors : pc'[j] = "sent" =>
            pc[j] = "sent" \/ (j = k /\ queue' = Append(queue, k))
    BY <1>1, <2>1 DEF CheckState, Announce, Obtain, Admit, SendConnect, ConnectTimeOut, ReturnConnect
  <2>5. UNCHANGED <<supVars, generation, sessionGen, closing, closed>>
    BY <1>1 DEF CheckState, Announce, Obtain, Admit, SendConnect, ConnectTimeOut, clientVars
  <2>6. /\ slot' \in Slots /\ successor' \in Successors
        /\ (successor = "live" => successor' = "live") /\ Spawned'
    <3>1. Spawned
      BY DEF SupInv
    <3> QED
      BY <1>1, <3>1, SupTyped DEF CheckState, Announce, Obtain, Admit, SendConnect,
                                  ConnectTimeOut, clientVars, Slots, Successors, Spawned
  <2> QED
    BY <2>2, <2>3, <2>4, <2>5, <2>6, CallerStep
<1>2. CASE TakeSlot \/ RequestClose \/ SendClose \/ CloseReturns \/ SuccessorStep
  BY <1>2, CloserStep
<1>3. CASE TakeConnect \/ SessionConnect \/ SessionClose
  BY <1>3, TakeStep
<1>4. CASE TakeClose
  BY <1>4, StopStep
<1>5. CASE Restored \/ SessionLost
  BY <1>5, SessionStep
<1>6. CASE LoopTop \/ Opened
  <2>1. CASE Retire("Closed", "gone")
    BY <1>6, <2>1, RetireStep DEF LoopTop, Opened, States, Results
  <2>2. CASE sup' \in {"token", "restoring"} /\ UNCHANGED <<initial, state, connVars>>
    <3>1. state \in States /\ (state = "Authenticated" => successor = "live") /\ sup \notin {"idle", "stopped"}
      BY <1>6, NotAnnounced DEF LoopTop, Opened
    <3>2. MaximumAttempts # 0 => attempts <= MaximumAttempts
      BY <3>1 DEF SupInv, Counted
    <3> QED
      BY <1>6, <2>2, <3>1, <3>2, SupTyped, AttemptStep DEF LoopTop, Opened, Phase, Opening
  <2> QED
    BY <1>6, <2>1, <2>2 DEF LoopTop, Opened
<1>7. CASE Advance \/ WakeUp
  <2>1. state \in States /\ (state = "Authenticated" => successor = "live") /\ sup \notin {"idle", "stopped"}
    BY <1>7, NotAnnounced DEF Advance, WakeUp
  <2>2. MaximumAttempts # 0 => attempts <= MaximumAttempts
    BY <2>1 DEF SupInv, Counted
  <2>3. sup' \in {"dialing", "settling", "opened", "top"}
        /\ state' \in States /\ (state' = "Authenticated" => successor = "live")
    BY <1>7, <2>1 DEF Advance, WakeUp, States
  <2> QED
    BY <1>7, <2>1, <2>2, <2>3, SupTyped, AttemptStep DEF Advance, WakeUp, Phase, Opening
<1>8. CASE OpenFails
  <2>1. CASE attempts < MaxAttempts /\ Delay(attempts + 1)
    BY <1>8, <2>1, DelayStep DEF OpenFails
  <2>2. CASE \E kind \in {"version", "auth", "failed"} :
               /\ Retire(IF kind = "auth" THEN "Closed" ELSE "Disconnected", kind)
               /\ UNCHANGED attempts
    BY <1>8, <2>2, RetireStep DEF OpenFails, States, Results
  <2> QED
    BY <1>8, <2>1, <2>2 DEF OpenFails
<1>9. CASE AfterLoss
  <2>1. attempts < MaxAttempts
    BY <1>9 DEF AfterLoss, SupInv, LossCounted
  <2> QED
    BY <1>9, <2>1, DelayStep DEF AfterLoss
<1>10. CASE UNCHANGED vars
  BY <1>10 DEF vars, supVars, clientVars, connVars, Spawned, SupInv, TypeOK, LossCounted, Serving,
               AuthenticatedMeansServing, Held, ConnectHeld, Counted, CloseQueued, Queued
<1> QED
  BY <1>1, <1>2, <1>3, <1>4, <1>5, <1>6, <1>7, <1>8, <1>9, <1>10 DEF Next, SupervisorStep

\* The invariant holds throughout.
LEMMA SupAlways == Spec => []SupInv
BY SupStarts, SupKept, PTL DEF Spec

\* set_state(Authenticated) is seen only while its session is served, or until its loss
\* is counted under a later generation.
THEOREM AnnouncedMeansServing == Spec => []AuthenticatedMeansServing
<1>1. SupInv => AuthenticatedMeansServing
  BY DEF SupInv, Serving
<1> QED
  BY <1>1, SupAlways, PTL

\* No early return of connect_and_run(), no reconnect and no close() forgets a connect()
\* whose command it has taken.
THEOREM NoConnectForgotten == Spec => []ConnectHeld
<1>1. SupInv => ConnectHeld
  BY DEF SupInv, Held
<1> QED
  BY <1>1, SupAlways, PTL

\* reconnect_delay() holds the limit of attempts across lost sessions and failed dials.
THEOREM ReconnectLimited == Spec => []AttemptsBounded
<1>1. SupInv => AttemptsBounded
  BY DEF SupInv, Counted, AttemptsBounded, Opening
<1> QED
  BY <1>1, SupAlways, PTL

-----------------------------------------------------------------------------
(* The refinement. *)

\* Each step of the supervisor, of connect() and of close() is a step of the session life
\* cycle or leaves it alone.
LEMMA LifeStep ==
    ASSUME SupInv, [Next]_vars
    PROVE  [Life!LifeNext]_(Life!lifeVars)
<1>1. CASE \E k \in Connectors :
              \/ CheckState(k) \/ Announce(k) \/ Obtain(k)
             \/ Admit(k) \/ SendConnect(k) \/ ConnectTimeOut(k)
  BY <1>1 DEF CheckState, Announce, Obtain, Admit, SendConnect, ConnectTimeOut, supVars, clientVars,
                 Life!lifeVars
<1>2. CASE RequestClose
  BY <1>2 DEF RequestClose, supVars, Life!LifeNext, Life!RequestClose
<1>3. CASE SendClose
  BY <1>3 DEF SendClose, supVars, Life!LifeNext, Life!SettleClose
<1>4. CASE TakeSlot \/ SuccessorStep \/ CloseReturns \/ SessionConnect \/ WakeUp \/ Advance
  BY <1>4 DEF TakeSlot, SuccessorStep, CloseReturns, SessionConnect, WakeUp, Advance, supVars,
                 clientVars, Opening, Life!lifeVars
<1>5. CASE TakeConnect
  BY <1>5 DEF TakeConnect, clientVars, Opening, Life!LifeNext, Life!Begin
<1>6. CASE TakeClose \/ SessionClose
  <2>1. queue \in Seq(Connectors \cup {Close}) /\ queue # <<>> /\ Head(queue) = Close
    BY <1>6, SupTyped DEF TakeClose, SessionClose
  <2>2. closing = "sent"
    BY <2>1, TailQueue DEF SupInv, CloseQueued, Queued
  <2> QED
    BY <1>6, <2>2 DEF TakeClose, SessionClose, clientVars, Opening, Life!LifeNext, Life!FinishClose
<1>7. CASE LoopTop
  BY <1>7 DEF LoopTop, clientVars, Retire, Opening, Life!LifeNext, Life!Abandon, Life!lifeVars
<1>8. CASE Opened
  BY <1>8 DEF Opened, clientVars, Retire, Opening, Life!LifeNext, Life!Abandon, Life!Authenticate
<1>9. CASE OpenFails
  BY <1>9 DEF OpenFails, clientVars, Delay, Retire, Opening, Life!LifeNext, Life!Abandon, Life!lifeVars
<1>10. CASE AfterLoss
  BY <1>10 DEF AfterLoss, clientVars, Delay, Retire, Opening, Life!LifeNext, Life!Abandon, Life!lifeVars
<1>11. CASE Restored
  BY <1>11 DEF Restored, clientVars, Opening, Life!LifeNext, Life!Serve
<1>12. CASE SessionLost
  BY <1>12 DEF SessionLost, clientVars, Opening, Life!LifeNext, Life!Lose
<1>13. CASE UNCHANGED vars
  BY <1>13 DEF vars, supVars, clientVars, Life!lifeVars
<1> QED
  BY <1>1, <1>2, <1>3, <1>4, <1>5, <1>6, <1>7, <1>8, <1>9, <1>10, <1>11, <1>12, <1>13
     DEF Next, SupervisorStep

\* The supervisor implements the session life cycle on which module Requests builds.
THEOREM SupervisorRefines == Spec => ImplementsSessionLife
<1>1. Init => Life!LifeInit
  BY DEF Init, Opening, Life!LifeInit
<1>2. SupInv /\ [Next]_vars => [Life!LifeNext]_(Life!lifeVars)
  BY LifeStep
<1> QED
  BY <1>1, <1>2, SupAlways, PTL DEF Spec, ImplementsSessionLife, Life!LifeSpec
=============================================================================
