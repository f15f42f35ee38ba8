-------------------------- MODULE SessionHandlesProofs --------------------------
(***************************************************************************)
(* What holds of session handles for any number of handles, of calls, of   *)
(* attempts and of sessions.                                               *)
(*                                                                         *)
(* A Queue item is completed once: OneCompletion is inductive together     *)
(* with what the state of an item says of its calls: 1 while a call        *)
(* settles it, 2 after one was acknowledged, so that 0 leaves room for     *)
(* exactly one claim.  A call meets the grant of its own handle: grants    *)
(* differ, and a request carries the generation its handle keeps.  An      *)
(* enqueue is admitted once: at most one of its requests is on its way,    *)
(* and none when it is tried again.                                        *)
(***************************************************************************)
EXTENDS SessionHandles, TLAPS

\* What the other conjuncts need of the types.
CoreTypeOK ==
    /\ gen \in Generations
    /\ state \in [Handles -> 0..2]
    /\ call \in [Calls -> Call]
    /\ out \subseteq Request

\* A settling call has an item, is checked before it claims it and never retried.
Orderly(r) ==
    /\ r.pc = "new" => r.op = "enqueue"
    /\ r.pc = "checked" => r.op = "settle"
    /\ r.op = "settle" => r.on \in Handles /\ r.pc # "backoff"

\* The call holds the claim on its item, or has been acknowledged.
Claims(r) == r.op = "settle" /\ r.pc \in {"ready", "sent"}
Won(r) == r.op = "settle" /\ r.pc = "done" /\ r.answer = "ok"

CallsOrderly == \A c \in Calls : Orderly(call[c])
StateTells ==
    \A c \in Calls : /\ Claims(call[c]) => state[call[c].on] = 1
                     /\ Won(call[c]) => state[call[c].on] = 2
OneEach ==
    \A c, d \in Calls :
        /\ Claims(call[c]) \/ Won(call[c])
        /\ Claims(call[d]) \/ Won(call[d])
        /\ call[c].on = call[d].on
        => c = d

CompletionInv == CoreTypeOK /\ CallsOrderly /\ StateTells /\ OneEach

\* A step that changes one call and no item, and gives that call neither a claim nor
\* an acknowledgement it did not have.
LEMMA CallStep ==
    ASSUME CompletionInv, NEW c \in Calls, NEW r \in Call, Orderly(r),
           gen' \in Generations, out' \subseteq Request,
           call' = [call EXCEPT ![c] = r], state' = state,
           Claims(r) => Claims(call[c]) /\ r.on = call[c].on,
           Won(r) => Won(call[c]) /\ r.on = call[c].on
    PROVE  CompletionInv'
<1>1. \A d \in Calls : call'[d] = IF d = c THEN r ELSE call[d]
  BY DEF CompletionInv, CoreTypeOK
<1>2. CoreTypeOK'
  BY DEF CompletionInv, CoreTypeOK
<1>3. CallsOrderly'
  BY <1>1 DEF CompletionInv, CallsOrderly
<1>4. StateTells'
  BY <1>1 DEF CompletionInv, StateTells
<1>5. OneEach'
  BY <1>1 DEF CompletionInv, OneEach
<1> QED
  BY <1>2, <1>3, <1>4, <1>5 DEF CompletionInv

\* A step that changes one call and the state of its item, which no other call holds.
LEMMA ItemStep ==
    ASSUME CompletionInv, NEW c \in Calls, NEW r \in Call, NEW v \in 0..2, Orderly(r),
           gen' \in Generations, out' \subseteq Request,
           call[c].op = "settle", r.op = "settle", r.on = call[c].on,
           Claims(call[c]) \/ state[call[c].on] = 0,
           call' = [call EXCEPT ![c] = r], state' = [state EXCEPT ![call[c].on] = v],
           Claims(r) => v = 1, Won(r) => v = 2
    PROVE  CompletionInv'
<1> DEFINE h == call[c].on
<1>1. h \in Handles
  BY DEF CompletionInv, CallsOrderly, Orderly
<1>2. \A d \in Calls : call'[d] = IF d = c THEN r ELSE call[d]
  BY DEF CompletionInv, CoreTypeOK
<1>3. /\ state'[h] = v
      /\ \A k \in Handles : k # h => state'[k] = state[k]
  BY <1>1 DEF CompletionInv, CoreTypeOK
<1>4. \A d \in Calls : d # c /\ (Claims(call[d]) \/ Won(call[d])) => call[d].on # h
  <2> SUFFICES ASSUME NEW d \in Calls, d # c, Claims(call[d]) \/ Won(call[d]), call[d].on = h
               PROVE  FALSE
    OBVIOUS
  <2>1. state[h] \in {1, 2}
    BY DEF CompletionInv, StateTells
  <2>2. Claims(call[c])
    BY <2>1
  <2> QED
    BY <2>2 DEF CompletionInv, OneEach
<1>5. \A d \in Calls : Claims(call[d]) \/ Won(call[d]) => call[d].on \in Handles
  BY DEF CompletionInv, CallsOrderly, Orderly, Claims, Won
<1>6. CoreTypeOK'
  BY <1>1 DEF CompletionInv, CoreTypeOK
<1>7. CallsOrderly'
  BY <1>2 DEF CompletionInv, CallsOrderly
<1>8. StateTells'
  BY <1>2, <1>3, <1>4, <1>5 DEF CompletionInv, StateTells
<1>9. OneEach'
  BY <1>2, <1>4 DEF CompletionInv, OneEach
<1> QED
  BY <1>6, <1>7, <1>8, <1>9 DEF CompletionInv

\* A step that leaves calls and items alone.
LEMMA OtherStep ==
    ASSUME CompletionInv, gen' \in Generations, out' \subseteq Request,
           call' = call, state' = state
    PROVE  CompletionInv'
BY DEF CompletionInv, CoreTypeOK, CallsOrderly, StateTells, OneEach

\* A call that ends keeps the invariant, if it may be acknowledged only while it holds
\* its claim: the guard of complete() and nack() releases the item otherwise.
LEMMA EndStep ==
    ASSUME CompletionInv, NEW c \in Calls,
           NEW a \in {"ok", "rejected", "indeterminate", "refused", "unknown", "stale", "failed"},
           End(c, a), call[c].pc \notin {"new", "done"},
           call[c].pc = "checked" => a # "ok",
           gen' = gen, out' = out
    PROVE  CompletionInv'
<1> DEFINE r == [NewCall EXCEPT !.pc = "done", !.on = call[c].on, !.op = call[c].op, !.answer = a]
<1>1. call[c] \in Call
  BY DEF CompletionInv, CoreTypeOK
<1>2. NewCall \in Call
  BY HandlesAssumption DEF NewCall, Call, Generations, Ops
<1>3. r \in Call /\ r.pc = "done" /\ r.on = call[c].on /\ r.op = call[c].op /\ r.answer = a
  BY <1>1, <1>2 DEF Call
<1>4. call' = [call EXCEPT ![c] = r]
  BY DEF End
<1> HIDE DEF r
<1>5. Orderly(r)
  BY <1>3 DEF CompletionInv, CallsOrderly, Orderly
<1>6. gen' \in Generations /\ out' \subseteq Request
  BY DEF CompletionInv, CoreTypeOK
<1>7. CASE call[c].op = "settle" /\ call[c].pc # "checked"
  <2>1. call[c].pc \in {"ready", "sent"}
    BY <1>1, <1>7 DEF Call, CompletionInv, CallsOrderly, Orderly
  <2>2. Claims(call[c])
    BY <1>7, <2>1 DEF Claims
  <2>3. state[call[c].on] = 1 /\ call[c].on \in Handles
    BY <1>7, <2>2 DEF CompletionInv, StateTells, CallsOrderly, Orderly
  <2> DEFINE v == IF a = "ok" THEN 2 ELSE 0
  <2>4. GuardDrop(IF a = "ok" THEN 2 ELSE state[call[c].on]) = v
    BY <2>3 DEF GuardDrop
  <2>5. state' = [state EXCEPT ![call[c].on] = v]
    BY <1>7, <2>4 DEF End
  <2>6. v \in 0..2 /\ ~Claims(r) /\ (Won(r) => v = 2)
    BY <1>3 DEF Claims, Won
  <2> HIDE DEF v
  <2> QED
    BY <1>3, <1>5, <1>6, <1>7, <1>4, <2>2, <2>5, <2>6, ItemStep
<1>8. CASE ~(call[c].op = "settle" /\ call[c].pc # "checked")
  <2>1. state' = state
    BY <1>8 DEF End
  <2>2. ~Claims(r) /\ ~Won(r)
    BY <1>3, <1>8 DEF Claims, Won
  <2> QED
    BY <1>3, <1>5, <1>6, <1>4, <2>1, <2>2, CallStep
<1> QED
  BY <1>7, <1>8

\* The calls that have begun nothing satisfy it.
LEMMA CompletionStarts == Init => CompletionInv
<1> SUFFICES ASSUME Init PROVE CompletionInv
  OBVIOUS
<1>1. NewCall \in Call
  BY HandlesAssumption DEF NewCall, Call, Generations, Ops
<1>2. CoreTypeOK
  BY <1>1, HandlesAssumption DEF Init, CoreTypeOK, Generations
<1>3. \A c \in Calls : Orderly(call[c]) /\ ~Claims(call[c]) /\ ~Won(call[c])
  BY DEF Init, NewCall, Orderly, Claims, Won
<1> QED
  BY <1>2, <1>3 DEF CompletionInv, CallsOrderly, StateTells, OneEach

\* The actions of one call keep the invariant.
LEMMA CallKeeps ==
    ASSUME CompletionInv, NEW c \in Calls,
           \/ \E h \in Handles, o \in Ops : Start(c, h, o)
           \/ StartEnqueue(c) \/ Claim(c) \/ Send(c)
           \/ Return(c) \/ ReadFails(c) \/ Retry(c) \/ Fails(c)
    PROVE  CompletionInv'
<1>1. call[c] \in Call /\ Orderly(call[c]) /\ gen \in Generations /\ out \subseteq Request
  BY DEF CompletionInv, CoreTypeOK, CallsOrderly
<1>2. NewCall \in Call
  BY HandlesAssumption DEF NewCall, Call, Generations, Ops
<1>3. ASSUME BackOff(c), call[c].op # "settle", gen' = gen, out' = out
      PROVE  CompletionInv'
  <2> DEFINE r == [call[c] EXCEPT !.pc = "backoff", !.attempt = @ + 1, !.answer = "none"]
  <2>1. call' = [call EXCEPT ![c] = r] /\ state' = state
    BY <1>1, <1>3 DEF BackOff, CompletionInv, CoreTypeOK
  <2>2. call[c].attempt < MaxAttempts
    BY <1>3 DEF BackOff
  <2>3. call[c].attempt + 1 \in 1..MaxAttempts
    BY <1>1, <2>2, HandlesAssumption DEF Call
  <2>4. r \in Call /\ r.op = call[c].op /\ r.pc = "backoff"
    BY <1>1, <2>3 DEF Call
  <2>5. Orderly(r) /\ ~Claims(r) /\ ~Won(r)
    BY <1>3, <2>4 DEF Orderly, Claims, Won
  <2> HIDE DEF r
  <2> QED
    BY <1>1, <1>3, <2>1, <2>4, <2>5, CallStep
<1>4. ASSUME NEW h \in Handles, NEW o \in Ops, Start(c, h, o)
      PROVE  CompletionInv'
  <2> DEFINE e == [NewCall EXCEPT !.on = h, !.op = o]
             r == [e EXCEPT !.checked = gen, !.pc = IF o = "settle" THEN "checked" ELSE "ready"]
             s == [e EXCEPT !.pc = "done", !.answer = "ok"]
             t == [e EXCEPT !.pc = "done", !.answer = "stale"]
  <2>1. e \in Call /\ e.on = h /\ e.op = o
    BY <1>2 DEF Call
  <2> HIDE DEF e
  <2>2. CASE call' = [call EXCEPT ![c] = r]
    <3>1. r \in Call /\ r.on = h /\ r.op = o /\ r.pc = (IF o = "settle" THEN "checked" ELSE "ready")
      BY <1>1, <2>1 DEF Call
    <3>2. Orderly(r) /\ ~Claims(r) /\ ~Won(r)
      BY <3>1 DEF Orderly, Claims, Won
    <3> HIDE DEF r
    <3> QED
      BY <1>1, <1>4, <2>2, <3>1, <3>2, CallStep DEF Start, brokerVars
  <2>3. CASE o = "read" /\ call' = [call EXCEPT ![c] = s]
    <3>1. s \in Call /\ s.op = "read" /\ s.pc = "done"
      BY <2>1, <2>3 DEF Call
    <3>2. Orderly(s) /\ ~Claims(s) /\ ~Won(s)
      BY <3>1 DEF Orderly, Claims, Won
    <3> HIDE DEF s
    <3> QED
      BY <1>1, <1>4, <2>3, <3>1, <3>2, CallStep DEF Start, brokerVars
  <2>4. CASE call' = [call EXCEPT ![c] = t]
    <3>1. t \in Call /\ t.on = h /\ t.op = o /\ t.pc = "done" /\ t.answer = "stale"
      BY <2>1 DEF Call
    <3>2. Orderly(t) /\ ~Claims(t) /\ ~Won(t)
      BY <3>1 DEF Orderly, Claims, Won
    <3> HIDE DEF t
    <3> QED
      BY <1>1, <1>4, <2>4, <3>1, <3>2, CallStep DEF Start, brokerVars
  <2> QED
    BY <1>4, <2>2, <2>3, <2>4 DEF Start, e
<1>5. CASE StartEnqueue(c)
  <2> DEFINE r == [call[c] EXCEPT !.pc = "ready"]
  <2>1. call' = [call EXCEPT ![c] = r] /\ state' = state /\ gen' = gen /\ out' = out
    BY <1>1, <1>5 DEF StartEnqueue, handleVars, brokerVars, CompletionInv, CoreTypeOK
  <2>2. r \in Call /\ r.op = "enqueue" /\ r.pc = "ready"
    BY <1>1, <1>5 DEF StartEnqueue, Orderly, Call
  <2>3. Orderly(r) /\ ~Claims(r) /\ ~Won(r)
    BY <2>2 DEF Orderly, Claims, Won
  <2> HIDE DEF r
  <2> QED
    BY <1>1, <2>1, <2>2, <2>3, CallStep
<1>6. CASE Claim(c)
  <2>1. CASE state[call[c].on] = 0 /\ call' = [call EXCEPT ![c].pc = "ready"]
             /\ state' = [state EXCEPT ![call[c].on] = 1]
    <3> DEFINE r == [call[c] EXCEPT !.pc = "ready"]
    <3>1. call' = [call EXCEPT ![c] = r] /\ gen' = gen /\ out' = out
      BY <1>1, <1>6, <2>1 DEF Claim, brokerVars, CompletionInv, CoreTypeOK
    <3>2. r \in Call /\ r.op = "settle" /\ r.pc = "ready" /\ r.on = call[c].on
          /\ call[c].op = "settle"
      BY <1>1, <1>6 DEF Claim, Orderly, Call
    <3>3. Orderly(r) /\ ~Won(r)
      BY <1>1, <3>2 DEF Orderly, Won
    <3>4. 1 \in 0..2 /\ gen' \in Generations /\ out' \subseteq Request
      BY <1>1, <3>1
    <3> HIDE DEF r
    <3> QED
      BY <2>1, <3>1, <3>2, <3>3, <3>4, ItemStep
  <2>2. CASE End(c, "stale")
    BY <1>6, <2>2, EndStep DEF Claim, brokerVars
  <2> QED
    BY <1>6, <2>1, <2>2 DEF Claim
<1>7. CASE Send(c)
  <2> DEFINE r == [call[c] EXCEPT !.pc = "sent"]
             q == [call |-> c, attempt |-> call[c].attempt, checked |-> call[c].checked,
                   stamp |-> gen]
  <2>1. call' = [call EXCEPT ![c] = r] /\ state' = state /\ gen' = gen
    BY <1>1, <1>7 DEF Send, handleVars, CompletionInv, CoreTypeOK
  <2>2. q \in Request
    BY <1>1 DEF Call, Request
  <2>3. out' \subseteq Request
    BY <1>1, <1>7, <2>2 DEF Send
  <2>4. r \in Call /\ r.op = call[c].op /\ r.pc = "sent" /\ r.on = call[c].on
        /\ call[c].pc = "ready"
    BY <1>1, <1>7 DEF Send, Call
  <2>5. Orderly(r) /\ ~Won(r) /\ (Claims(r) => Claims(call[c]))
    BY <1>1, <2>4 DEF Orderly, Claims, Won
  <2> HIDE DEF r
  <2> QED
    BY <1>1, <2>1, <2>3, <2>4, <2>5, CallStep
<1>8. CASE Return(c)
  <2>1. CASE call[c].op = "enqueue" /\ BackOff(c)
    BY <1>3, <1>8, <2>1 DEF Return, brokerVars
  <2>2. CASE End(c, call[c].answer)
    <3>1. call[c].answer \in {"ok", "rejected", "indeterminate", "refused", "unknown",
                              "stale", "failed"}
      BY <1>1, <1>8 DEF Return, Call
    <3> QED
      BY <1>8, <2>2, <3>1, EndStep DEF Return, brokerVars
  <2> QED
    BY <1>8, <2>1, <2>2 DEF Return
<1>9. CASE ReadFails(c)
  <2>1. CASE BackOff(c)
    BY <1>3, <1>9, <2>1 DEF ReadFails, brokerVars
  <2>2. CASE End(c, "stale")
    BY <1>9, <2>2, EndStep DEF ReadFails, brokerVars
  <2> QED
    BY <1>9, <2>1, <2>2 DEF ReadFails
<1>10. CASE Retry(c)
  <2>1. CASE call' = [call EXCEPT ![c].pc = "ready", ![c].checked = gen] /\ state' = state
    <3> DEFINE r == [call[c] EXCEPT !.pc = "ready", !.checked = gen]
    <3>1. call' = [call EXCEPT ![c] = r] /\ gen' = gen /\ out' = out
      BY <1>1, <1>10, <2>1 DEF Retry, brokerVars, CompletionInv, CoreTypeOK
    <3>2. r \in Call /\ r.op = call[c].op /\ r.pc = "ready" /\ call[c].op # "settle"
      BY <1>1, <1>10 DEF Retry, Orderly, Call
    <3>3. Orderly(r) /\ ~Claims(r) /\ ~Won(r)
      BY <3>2 DEF Orderly, Claims, Won
    <3> HIDE DEF r
    <3> QED
      BY <1>1, <2>1, <3>1, <3>2, <3>3, CallStep
  <2>2. CASE End(c, "stale")
    BY <1>10, <2>2, EndStep DEF Retry, brokerVars
  <2> QED
    BY <1>10, <2>1, <2>2 DEF Retry
<1>11. CASE Fails(c)
  BY <1>11, EndStep DEF Fails, brokerVars
<1> QED
  BY <1>4, <1>5, <1>6, <1>7, <1>8, <1>9, <1>10, <1>11

\* A response changes the answer of a call that has been sent, and nothing else.
LEMMA RespondKeeps ==
    ASSUME CompletionInv, NEW q \in out,
           NEW a \in {"ok", "rejected", "indeterminate", "refused"}, Respond(q, a)
    PROVE  CompletionInv'
<1>1. q \in Request /\ gen \in Generations /\ out \subseteq Request
  BY DEF CompletionInv, CoreTypeOK
<1>2. q.call \in Calls /\ gen' = gen /\ state' = state /\ out' \subseteq Request
  BY <1>1 DEF Request, Respond, handleVars
<1>3. call[q.call] \in Call /\ Orderly(call[q.call])
  BY <1>2 DEF CompletionInv, CoreTypeOK, CallsOrderly
<1>4. CASE call' = call
  BY <1>1, <1>2, <1>4, OtherStep
<1>5. CASE call[q.call].pc = "sent" /\ call' = [call EXCEPT ![q.call].answer = a]
  <2> DEFINE r == [call[q.call] EXCEPT !.answer = a]
  <2>1. call' = [call EXCEPT ![q.call] = r]
    BY <1>2, <1>3, <1>5 DEF CompletionInv, CoreTypeOK
  <2>2. r \in Call /\ r.op = call[q.call].op /\ r.on = call[q.call].on /\ r.pc = "sent"
    BY <1>3, <1>5 DEF Call
  <2>3. Orderly(r) /\ ~Won(r) /\ (Claims(r) => Claims(call[q.call]))
    BY <1>3, <1>5, <2>2 DEF Orderly, Claims, Won
  <2> HIDE DEF r
  <2> QED
    BY <1>1, <1>2, <2>1, <2>2, <2>3, CallStep
<1> QED
  BY <1>4, <1>5 DEF Respond

\* Every step keeps the invariant.
LEMMA CompletionKept ==
    ASSUME CompletionInv, [Next]_vars
    PROVE  CompletionInv'
<1>1. gen \in Generations /\ out \subseteq Request
  BY DEF CompletionInv, CoreTypeOK
<1>2. CASE \E h \in Handles : Begin(h) \/ Grant(h) \/ Granted(h) \/ BeginFails(h)
  BY <1>1, <1>2, OtherStep DEF Begin, Grant, Granted, BeginFails, brokerVars
<1>3. CASE \E c \in Calls :
             \/ \E h \in Handles, o \in Ops : Start(c, h, o)
             \/ StartEnqueue(c) \/ Claim(c) \/ Send(c)
             \/ Return(c) \/ ReadFails(c) \/ Retry(c) \/ Fails(c)
  BY <1>3, CallKeeps
<1>4. CASE \E r \in out : Apply(r) \/ Admit(r) \/ Reject(r)
  <2>1. PICK r \in out : Apply(r) \/ Admit(r) \/ Reject(r)
    BY <1>4
  <2>2. \E a \in {"ok", "rejected", "indeterminate", "refused"} : Respond(r, a)
    BY <2>1 DEF Apply, Admit, Reject
  <2> QED
    BY <2>2, RespondKeeps
<1>5. CASE Lost
  <2>1. gen' \in Generations
    BY <1>1, <1>5, HandlesAssumption DEF Lost, Generations
  <2> QED
    BY <1>5, <2>1, OtherStep DEF Lost, handleVars
<1>6. CASE UNCHANGED vars
  BY <1>1, <1>6, OtherStep DEF vars, handleVars, brokerVars
<1> QED
  BY <1>2, <1>3, <1>4, <1>5, <1>6 DEF Next

\* What complete() and nack() of a Queue item promise, for any number of racing,
\* failing and abandoned calls: one of them at a time, and one success at most.
THEOREM CompletedOnce == Spec => []OneCompletion
<1>1. Spec => []CompletionInv
  BY CompletionStarts, CompletionKept, PTL DEF Spec
<1>2. CompletionInv => OneCompletion
  BY DEF CompletionInv, OneEach, OneCompletion, Settling, Settled, Settles, Claims, Won
<1> QED
  BY <1>1, <1>2, PTL

-----------------------------------------------------------------------------
(* Whose grant a call meets, and how often an enqueue is admitted. *)

\* What a handle keeps once a call could use it: its stage does not go back, so that its
\* generation and its grant stay what they were when the calls on it were checked.
Usable(h) == stage[h] \in {"open", "gone"} /\ grant[h].id # 0

HandleTypeOK ==
    /\ kind \in [Handles -> Kinds]
    /\ stage \in [Handles -> {"new", "asked", "granted", "open", "gone"}]
    /\ stamp \in [Handles -> Generations]
    /\ grant \in [Handles -> [session : -1..MaxGeneration, id : Ids \cup {0}]]
    /\ applied \subseteq [meant : Handles, met : Handles, checked : Generations, stamp : Generations]

\* The id of a grant is unknown until the broker gives it, and is one handle's alone.
GrantsApart ==
    /\ \A h \in Handles : /\ stage[h] \in {"new", "asked"} => grant[h].id = 0
                          /\ stage[h] \in {"granted", "open"} => grant[h].id # 0
    /\ \A h, k \in Handles : grant[h].id # 0 /\ grant[h] = grant[k] => h = k

\* A call on a handle was checked against the generation the handle keeps.
CallChecked(r) ==
    /\ r.op = "enqueue" <=> r.on = NoHandle
    /\ r.on \in Handles =>
          /\ Usable(r.on)
          /\ r.pc = "backoff" => r.op = "read"
          /\ r.pc \in {"checked", "ready", "sent"} => r.checked = stamp[r.on]

CallsChecked ==
    /\ \A c \in Calls : CallChecked(call[c])
    /\ \A q \in out : /\ call[q.call].pc # "new"
                      /\ call[q.call].on \in Handles => q.checked = stamp[call[q.call].on]

AppliedUsable == \A a \in applied : Usable(a.meant)

GrantInv == HandleTypeOK /\ GrantsApart /\ CallsChecked /\ AppliedUsable /\ OwnGrant

\* What the progress of a call says of the n messages it has put in the queue.
Tells(r, n) ==
    /\ n \in {0, 1}
    /\ r.on \in Handles => n = 0
    /\ r.pc \in {"new", "checked", "ready", "backoff"} => n = 0 /\ r.answer = "none"
    /\ r.answer \in {"none", "rejected", "refused", "failed"} => n = 0
    /\ r.on = NoHandle /\ r.answer = "ok" => n = 1

\* A request on its way is the one its call awaits, or was abandoned by it.
Awaited(r, q) ==
    \/ r.pc = "sent" /\ r.answer = "none" /\ q.attempt = r.attempt
    \/ r.pc = "done" /\ r.answer = "unknown"

EnqueueInv ==
    /\ admitted \in [Calls -> Nat]
    /\ \A c \in Calls : Tells(call[c], admitted[c])
    /\ \A q \in out : call[q.call].on = NoHandle =>
          Awaited(call[q.call], q) /\ admitted[q.call] = 0
    /\ \A p, q \in out : p.call = q.call /\ call[q.call].on = NoHandle => p = q

\* The ways in which a step of a call c makes it r: it is entered on an open handle, goes
\* on to claim or to send, sleeps before another attempt, wakes up for it, or ends.
Kept(c, r) == r.on = call[c].on /\ r.op = call[c].op
Entered(c, r) ==
    /\ call[c].pc = "new" /\ r.on \in Handles /\ stage[r.on] = "open" /\ r.op # "enqueue"
    /\ \/ r.pc \in {"checked", "ready"} /\ r.checked = stamp[r.on] /\ r.answer = "none"
       \/ r.pc = "done"
WentOn(c, r) ==
    /\ Kept(c, r)
    /\ r.attempt = call[c].attempt /\ r.checked = call[c].checked /\ r.answer = call[c].answer
    /\ \/ call[c].pc = "new" /\ call[c].op = "enqueue" /\ r.pc = "ready"
       \/ call[c].pc = "checked" /\ r.pc = "ready"
       \/ call[c].pc = "ready" /\ r.pc = "sent"
Slept(c, r) ==
    /\ Kept(c, r) /\ r.pc = "backoff" /\ r.answer = "none"
    /\ \/ r.op = "read"
       \/ r.op = "enqueue" /\ call[c].pc = "sent" /\ call[c].answer = "rejected"
Woke(c, r) ==
    /\ Kept(c, r) /\ call[c].pc = "backoff" /\ r.pc = "ready" /\ r.answer = call[c].answer
    /\ r.op = "read" => r.checked = stamp[r.on]
Ended(c, r) ==
    /\ Kept(c, r) /\ call[c].pc \notin {"new", "done"} /\ r.pc = "done"
    /\ r.op = "enqueue" =>
          \/ call[c].pc = "sent" /\ r.answer \in {call[c].answer, "unknown"} \ {"none"}
          \/ call[c].pc # "sent" /\ r.answer = "failed"
Moves(c, r) == Entered(c, r) \/ WentOn(c, r) \/ Slept(c, r) \/ Woke(c, r) \/ Ended(c, r)

\* The request of call c is queued as the call becomes r.
Sends(c, r) ==
    /\ WentOn(c, r) /\ call[c].pc = "ready"
    /\ out' = out \cup {[call |-> c, attempt |-> r.attempt, checked |-> r.checked, stamp |-> gen]}

\* A call that returns ends, whatever it was doing.
LEMMA EndMoves ==
    ASSUME CompletionInv, NEW c \in Calls, NEW a, End(c, a),
           a \in {"ok", "rejected", "indeterminate", "refused", "unknown", "stale", "failed"},
           call[c].pc \notin {"new", "done"},
           call[c].op = "enqueue" =>
               \/ call[c].pc = "sent" /\ a \in {call[c].answer, "unknown"}
               \/ call[c].pc # "sent" /\ a = "failed"
    PROVE  \E r \in Call : call' = [call EXCEPT ![c] = r] /\ Ended(c, r)
<1> DEFINE r == [NewCall EXCEPT !.pc = "done", !.on = call[c].on, !.op = call[c].op, !.answer = a]
<1>1. call[c] \in Call
  BY DEF CompletionInv, CoreTypeOK
<1>2. NewCall \in Call
  BY HandlesAssumption DEF NewCall, Call, Generations, Ops
<1>3. r \in Call /\ r.pc = "done" /\ r.on = call[c].on /\ r.op = call[c].op /\ r.answer = a
  BY <1>1, <1>2 DEF Call
<1>4. call' = [call EXCEPT ![c] = r]
  BY DEF End
<1> HIDE DEF r
<1>5. Ended(c, r)
  BY <1>3 DEF Ended, Kept
<1> QED
  BY <1>3, <1>4, <1>5

\* Every action of a call is one of these moves, and leaves the handles alone but for a
\* commit() or rollback(), which consumes the one it is called on.
LEMMA CallMoves ==
    ASSUME CompletionInv, HandleTypeOK, NEW c \in Calls,
           \/ \E h \in Handles, o \in Ops : Start(c, h, o)
           \/ StartEnqueue(c) \/ Claim(c) \/ Send(c)
           \/ Return(c) \/ ReadFails(c) \/ Retry(c) \/ Fails(c)
    PROVE  /\ \E r \in Call : call' = [call EXCEPT ![c] = r] /\ Moves(c, r)
                               /\ (out' = out \/ Sends(c, r))
           /\ UNCHANGED <<gen, kind, stamp, grant, applied, admitted>>
           /\ stage' \in [Handles -> {"new", "asked", "granted", "open", "gone"}]
           /\ \A h \in Handles : stage'[h] = stage[h] \/ (stage[h] = "open" /\ stage'[h] = "gone")
<1> DEFINE Moved == \E r \in Call : /\ call' = [call EXCEPT ![c] = r] /\ Moves(c, r)
                                    /\ out' = out \/ Sends(c, r)
<1>1. call[c] \in Call /\ Orderly(call[c]) /\ call \in [Calls -> Call]
  BY DEF CompletionInv, CoreTypeOK, CallsOrderly
<1>2. NewCall \in Call /\ NewCall.answer = "none"
  BY HandlesAssumption DEF NewCall, Call, Generations, Ops
<1>3. UNCHANGED <<gen, kind, stamp, grant, applied, admitted>>
  BY DEF Start, StartEnqueue, Claim, Send, Return, ReadFails, Retry, Fails, brokerVars, handleVars
<1>4. /\ stage' \in [Handles -> {"new", "asked", "granted", "open", "gone"}]
      /\ \A h \in Handles : stage'[h] = stage[h] \/ (stage[h] = "open" /\ stage'[h] = "gone")
  <2>1. CASE UNCHANGED stage
    BY <2>1 DEF HandleTypeOK
  <2>2. CASE \E h \in Handles, o \in Ops : Start(c, h, o)
    BY <2>2 DEF HandleTypeOK, Start
  <2> QED
    BY <2>1, <2>2 DEF StartEnqueue, Claim, Send, Return, ReadFails, Retry, Fails, handleVars
<1> SUFFICES Moved
  BY <1>3, <1>4
<1>5. ASSUME BackOff(c), out' = out,
             call[c].op = "read" \/
               (call[c].op = "enqueue" /\ call[c].pc = "sent" /\ call[c].answer = "rejected")
      PROVE  Moved
  <2> DEFINE r == [call[c] EXCEPT !.pc = "backoff", !.attempt = @ + 1, !.answer = "none"]
  <2>1. call' = [call EXCEPT ![c] = r]
    BY <1>1, <1>5 DEF BackOff
  <2>2. call[c].attempt + 1 \in 1..MaxAttempts
    BY <1>1, <1>5, HandlesAssumption DEF Call, BackOff
  <2>3. r \in Call /\ r.op = call[c].op /\ r.on = call[c].on /\ r.pc = "backoff" /\ r.answer = "none"
    BY <1>1, <2>2 DEF Call
  <2> HIDE DEF r
  <2>4. Slept(c, r)
    BY <1>5, <2>3 DEF Slept, Kept
  <2> QED
    BY <1>5, <2>1, <2>3, <2>4 DEF Moves
<1>6. ASSUME NEW a, End(c, a), out' = out,
             a \in {"ok", "rejected", "indeterminate", "refused", "unknown", "stale", "failed"},
             call[c].pc \notin {"new", "done"},
             call[c].op = "enqueue" =>
                 \/ call[c].pc = "sent" /\ a \in {call[c].answer, "unknown"}
                 \/ call[c].pc # "sent" /\ a = "failed"
      PROVE  Moved
  BY <1>6, EndMoves DEF Moves
<1> HIDE DEF Moved
<1>7. ASSUME NEW h \in Handles, NEW o \in Ops, Start(c, h, o)
      PROVE  Moved
  <2> DEFINE e == [NewCall EXCEPT !.on = h, !.op = o]
  <2>1. e \in Call /\ e.on = h /\ e.op = o /\ e.answer = "none"
    BY <1>2 DEF Call
  <2>2. o # "enqueue" /\ call[c].pc = "new" /\ stage[h] = "open" /\ out' = out
    BY <1>7 DEF Start, OpsOf, HandleTypeOK, Kinds, brokerVars
  <2>3. \E r \in Call : /\ call' = [call EXCEPT ![c] = r] /\ r.on = h /\ r.op = o
                        /\ \/ r.pc \in {"checked", "ready"} /\ r.checked = gen /\ stamp[h] = gen
                              /\ r.answer = "none"
                           \/ r.pc = "done"
    <3> DEFINE r == [e EXCEPT !.checked = gen, !.pc = IF o = "settle" THEN "checked" ELSE "ready"]
               s == [e EXCEPT !.pc = "done", !.answer = "ok"]
               t == [e EXCEPT !.pc = "done", !.answer = "stale"]
    <3> HIDE DEF e
    <3>1. gen \in Generations
      BY DEF CompletionInv, CoreTypeOK
    <3>2. /\ r \in Call /\ r.on = h /\ r.op = o /\ r.pc \in {"checked", "ready"}
          /\ r.checked = gen /\ r.answer = "none"
      BY <2>1, <3>1 DEF Call
    <3>3. s \in Call /\ s.on = h /\ s.op = o /\ s.pc = "done"
      BY <2>1 DEF Call
    <3>4. t \in Call /\ t.on = h /\ t.op = o /\ t.pc = "done"
      BY <2>1 DEF Call
    <3>5. \/ Current(h) /\ call' = [call EXCEPT ![c] = r]
          \/ call' = [call EXCEPT ![c] = s] \/ call' = [call EXCEPT ![c] = t]
      BY <1>7 DEF Start, e
    <3> HIDE DEF r, s, t
    <3> QED
      BY <3>2, <3>3, <3>4, <3>5 DEF Current
  <2>4. PICK r \in Call : /\ call' = [call EXCEPT ![c] = r] /\ r.on = h /\ r.op = o
                          /\ \/ r.pc \in {"checked", "ready"} /\ r.checked = gen /\ stamp[h] = gen
                                /\ r.answer = "none"
                             \/ r.pc = "done"
    BY <2>3
  <2>5. Entered(c, r)
    BY <2>2, <2>4 DEF Entered
  <2> QED
    BY <2>2, <2>4, <2>5 DEF Moves, Moved
<1>8. CASE StartEnqueue(c) \/ Send(c) \/ (Claim(c) /\ call' = [call EXCEPT ![c].pc = "ready"])
  <2> DEFINE p == IF call[c].pc = "ready" THEN "sent" ELSE "ready"
             r == [call[c] EXCEPT !.pc = p]
  <2>1. call' = [call EXCEPT ![c] = r]
    BY <1>1, <1>8 DEF StartEnqueue, Send, Claim
  <2>2. /\ r \in Call /\ r.pc = p /\ r.on = call[c].on /\ r.op = call[c].op
        /\ r.attempt = call[c].attempt /\ r.checked = call[c].checked /\ r.answer = call[c].answer
    BY <1>1 DEF Call
  <2>3. call[c].pc \in {"new", "checked", "ready"} /\ (call[c].pc = "new" => call[c].op = "enqueue")
    BY <1>1, <1>8 DEF StartEnqueue, Send, Claim, Orderly
  <2> HIDE DEF r
  <2>4. WentOn(c, r)
    BY <2>2, <2>3 DEF WentOn, Kept
  <2>5. out' = out \/ Sends(c, r)
    BY <1>8, <2>2, <2>4 DEF StartEnqueue, Claim, Send, Sends, brokerVars
  <2> QED
    BY <2>1, <2>2, <2>4, <2>5 DEF Moves, Moved
<1>9. CASE Claim(c) /\ End(c, "stale")
  BY <1>1, <1>6, <1>9 DEF Claim, Orderly, brokerVars
<1>10. CASE Return(c)
  <2>1. call[c].pc = "sent" /\ call[c].answer # "none" /\ out' = out
    BY <1>10 DEF Return, brokerVars
  <2>2. CASE call[c].op = "enqueue" /\ call[c].answer = "rejected" /\ BackOff(c)
    BY <1>5, <2>1, <2>2
  <2>3. CASE End(c, call[c].answer)
    <3>1. call[c].answer \in {"ok", "rejected", "indeterminate", "refused", "unknown",
                              "stale", "failed"}
      BY <1>1, <2>1 DEF Call
    <3> QED
      BY <1>6, <2>1, <2>3, <3>1
  <2> QED
    BY <1>10, <2>2, <2>3 DEF Return, Retryable
<1>11. CASE ReadFails(c)
  BY <1>5, <1>6, <1>11 DEF ReadFails, brokerVars
<1>12. CASE Retry(c)
  <2>1. CASE /\ call' = [call EXCEPT ![c].pc = "ready", ![c].checked = gen]
             /\ call[c].op = "read" => stamp[call[c].on] = gen
    <3> DEFINE r == [call[c] EXCEPT !.pc = "ready", !.checked = gen]
    <3>1. call' = [call EXCEPT ![c] = r] /\ out' = out /\ call[c].pc = "backoff"
      BY <1>1, <1>12, <2>1 DEF Retry, brokerVars
    <3>2. /\ r \in Call /\ r.op = call[c].op /\ r.on = call[c].on /\ r.pc = "ready"
          /\ r.checked = gen /\ r.answer = call[c].answer
      BY <1>1 DEF Call, CompletionInv, CoreTypeOK
    <3> HIDE DEF r
    <3>3. Woke(c, r)
      BY <2>1, <3>1, <3>2 DEF Woke, Kept
    <3> QED
      BY <3>1, <3>2, <3>3 DEF Moves, Moved
  <2>2. CASE call[c].op = "read" /\ End(c, "stale")
    BY <1>6, <1>12, <2>2 DEF Retry, brokerVars
  <2> QED
    BY <1>12, <2>1, <2>2 DEF Retry
<1>13. CASE Fails(c)
  BY <1>6, <1>13 DEF Fails, brokerVars
<1> QED
  BY <1>7, <1>8, <1>9, <1>10, <1>11, <1>12, <1>13 DEF Claim

\* A step of a handle that no call can use yet.
LEMMA HandleStep ==
    ASSUME GrantInv, CompletionInv, NEW h \in Handles,
           stage[h] \in {"new", "asked", "granted"},
           HandleTypeOK', GrantsApart',
           \A k \in Handles : k # h => /\ stage'[k] = stage[k] /\ stamp'[k] = stamp[k]
                                       /\ grant'[k] = grant[k],
           UNCHANGED <<call, out, applied>>
    PROVE  GrantInv'
<1>1. \A k \in Handles : Usable(k) => k # h /\ Usable(k)'
  BY DEF Usable
<1>2. \A c \in Calls : CallChecked(call[c])'
  BY <1>1 DEF GrantInv, CallsChecked, CallChecked
<1>3. \A q \in out : call[q.call].on \in Handles => Usable(call[q.call].on)
  BY DEF GrantInv, CallsChecked, CallChecked, CompletionInv, CoreTypeOK, Request
<1>4. CallsChecked'
  BY <1>1, <1>2, <1>3 DEF GrantInv, CallsChecked
<1>5. AppliedUsable' /\ OwnGrant'
  BY <1>1 DEF GrantInv, AppliedUsable, OwnGrant, HandleTypeOK
<1> QED
  BY <1>4, <1>5 DEF GrantInv

\* Asking for a grant, giving it, decoding it and giving up keep the invariant.
LEMMA GrantHandle ==
    ASSUME GrantInv, CompletionInv, NEW h \in Handles,
           Begin(h) \/ Grant(h) \/ Granted(h) \/ BeginFails(h)
    PROVE  GrantInv'
<1>1. gen \in Generations /\ gen \in -1..MaxGeneration
  BY HandlesAssumption DEF CompletionInv, CoreTypeOK, Generations
<1>2. UNCHANGED <<kind, call, out, applied>> /\ stage[h] \in {"new", "asked", "granted"}
  BY DEF Begin, Grant, Granted, BeginFails, brokerVars
<1>3. \A k \in Handles : /\ grant[k] = [session |-> grant[k].session, id |-> grant[k].id]
                         /\ grant[k].session \in -1..MaxGeneration /\ grant[k].id \in Ids \cup {0}
  BY DEF GrantInv, HandleTypeOK
<1>4. CASE Begin(h)
  <2>1. grant' = [grant EXCEPT ![h] = [session |-> gen, id |-> 0]]
    <3>1. grant[h] = [session |-> grant[h].session, id |-> 0]
      BY <1>3, <1>4 DEF Begin, GrantInv, GrantsApart
    <3>2. grant' = [grant EXCEPT ![h] = [grant[h] EXCEPT !.session = gen]]
      BY <1>4 DEF Begin, GrantInv, HandleTypeOK
    <3>3. [grant[h] EXCEPT !.session = gen] = [session |-> gen, id |-> 0]
      BY <3>1
    <3> QED
      BY <3>2, <3>3
  <2>2. stage' = [stage EXCEPT ![h] = "asked"] /\ stamp' = stamp
    BY <1>4 DEF Begin
  <2>3. HandleTypeOK'
    BY <1>1, <1>2, <2>1, <2>2 DEF GrantInv, HandleTypeOK
  <2>4. GrantsApart'
    BY <2>1, <2>2 DEF GrantInv, HandleTypeOK, GrantsApart
  <2> QED
    BY <1>2, <2>1, <2>2, <2>3, <2>4, HandleStep DEF GrantInv, HandleTypeOK
<1>5. CASE Grant(h)
  <2>1. PICK i \in Ids : /\ \A k \in Handles : grant[k] # [session |-> gen, id |-> i]
                         /\ grant' = [grant EXCEPT ![h].id = i]
    BY <1>5 DEF Grant
  <2>2. grant' = [grant EXCEPT ![h] = [session |-> gen, id |-> i]]
    BY <1>3, <1>5, <2>1, ZenonT(40) DEF Grant, GrantInv, HandleTypeOK
  <2>3. stage' = [stage EXCEPT ![h] = "granted"] /\ stamp' = stamp
    BY <1>5 DEF Grant
  <2>4. HandleTypeOK'
    BY <1>1, <1>2, <2>2, <2>3 DEF GrantInv, HandleTypeOK
  <2>5. i # 0
    BY DEF Ids
  <2>6. GrantsApart'
    BY <2>1, <2>2, <2>3, <2>5 DEF GrantInv, HandleTypeOK, GrantsApart
  <2> QED
    BY <1>2, <2>2, <2>3, <2>4, <2>6, HandleStep DEF GrantInv, HandleTypeOK
<1>6. CASE Granted(h) \/ BeginFails(h)
  <2>1. grant' = grant /\ stamp' \in {stamp, [stamp EXCEPT ![h] = gen]}
    BY <1>6 DEF Granted, BeginFails, brokerVars
  <2>2. \/ stage[h] = "granted" /\ stage' = [stage EXCEPT ![h] = "open"]
        \/ stage' = [stage EXCEPT ![h] = "gone"]
    BY <1>6 DEF Granted, BeginFails
  <2>3. HandleTypeOK'
    BY <1>1, <1>2, <2>1, <2>2 DEF GrantInv, HandleTypeOK
  <2>4. GrantsApart'
    BY <2>1, <2>2 DEF GrantInv, HandleTypeOK, GrantsApart
  <2> QED
    BY <1>2, <2>1, <2>2, <2>3, <2>4, HandleStep DEF GrantInv, HandleTypeOK
<1> QED
  BY <1>4, <1>5, <1>6

\* A handle in use stays in use while calls move, with the grant it has.
LEMMA UsableKept ==
    ASSUME GrantInv, grant' = grant,
           \A h \in Handles : stage'[h] = stage[h] \/ (stage[h] = "open" /\ stage'[h] = "gone")
    PROVE  /\ \A h \in Handles : Usable(h) => Usable(h)'
           /\ GrantsApart'
BY DEF GrantInv, GrantsApart, Usable

\* The actions of one call keep the invariant: it enters on an open handle under the
\* generation of that handle, and its request carries what it checked.
LEMMA GrantCall ==
    ASSUME GrantInv, CompletionInv, NEW c \in Calls,
           \/ \E h \in Handles, o \in Ops : Start(c, h, o)
           \/ StartEnqueue(c) \/ Claim(c) \/ Send(c)
           \/ Return(c) \/ ReadFails(c) \/ Retry(c) \/ Fails(c)
    PROVE  GrantInv'
<1>1. HandleTypeOK
  BY DEF GrantInv
<1>2. /\ UNCHANGED <<gen, kind, stamp, grant, applied, admitted>>
      /\ stage' \in [Handles -> {"new", "asked", "granted", "open", "gone"}]
      /\ \A h \in Handles : stage'[h] = stage[h] \/ (stage[h] = "open" /\ stage'[h] = "gone")
  BY <1>1, CallMoves
<1>3. PICK r \in Call : /\ call' = [call EXCEPT ![c] = r] /\ Moves(c, r)
                        /\ out' = out \/ Sends(c, r)
  BY <1>1, CallMoves
<1>4. \A d \in Calls : call'[d] = IF d = c THEN r ELSE call[d]
  BY <1>3 DEF CompletionInv, CoreTypeOK
<1>5. HandleTypeOK'
  BY <1>1, <1>2 DEF HandleTypeOK
<1>6. (\A h \in Handles : Usable(h) => Usable(h)') /\ GrantsApart'
  BY <1>2, UsableKept
<1>7. AppliedUsable' /\ OwnGrant'
  BY <1>2, <1>6, <1>1 DEF GrantInv, AppliedUsable, OwnGrant, HandleTypeOK
<1>8. CallChecked(call[c]) /\ call[c] \in Call
  BY DEF GrantInv, CallsChecked, CompletionInv, CoreTypeOK
<1>9. /\ r.op = "enqueue" <=> r.on = NoHandle
      /\ r.on \in Handles => /\ Usable(r.on)
                             /\ r.pc = "backoff" => r.op = "read"
                             /\ r.pc \in {"checked", "ready", "sent"} => r.checked = stamp[r.on]
  <2>1. CASE Entered(c, r)
    BY <2>1, HandlesAssumption DEF Entered, Usable, GrantInv, GrantsApart
  <2>2. CASE WentOn(c, r)
    BY <1>8, <2>2, HandlesAssumption DEF WentOn, Kept, CallChecked
  <2>3. CASE Slept(c, r)
    BY <1>8, <2>3, HandlesAssumption DEF Slept, Kept, CallChecked
  <2>4. CASE Woke(c, r)
    BY <1>8, <2>4 DEF Woke, Kept, CallChecked
  <2>5. CASE Ended(c, r)
    BY <1>8, <2>5 DEF Ended, Kept, CallChecked
  <2> QED
    BY <1>3, <2>1, <2>2, <2>3, <2>4, <2>5 DEF Moves
<1>10. \A d \in Calls : CallChecked(call[d])'
  BY <1>2, <1>4, <1>6, <1>9 DEF GrantInv, CallsChecked, CallChecked
<1>11. \A q \in out' : /\ q.call \in Calls /\ call'[q.call].pc # "new"
                       /\ call'[q.call].on \in Handles => q.checked = stamp[call'[q.call].on]
  <2>1. ASSUME NEW q \in out
        PROVE  /\ q.call \in Calls /\ call'[q.call].pc # "new"
               /\ call'[q.call].on \in Handles => q.checked = stamp[call'[q.call].on]
    <3>1. q.call \in Calls
      BY DEF CompletionInv, CoreTypeOK, Request
    <3>2. /\ call[q.call].pc # "new"
          /\ call[q.call].on \in Handles => q.checked = stamp[call[q.call].on]
      BY DEF GrantInv, CallsChecked
    <3>3. CASE q.call = c
      <4>1. Kept(c, r) /\ r.pc # "new"
        BY <1>3, <3>2, <3>3 DEF Moves, Entered, WentOn, Slept, Woke, Ended
      <4> QED
        BY <1>4, <3>1, <3>2, <3>3, <4>1 DEF Kept
    <3>4. CASE q.call # c
      BY <1>4, <3>1, <3>2, <3>4
    <3> QED
      BY <3>3, <3>4
  <2>2. CASE Sends(c, r)
    <3> DEFINE q == [call |-> c, attempt |-> r.attempt, checked |-> r.checked, stamp |-> gen]
    <3>1. q.call = c /\ q.checked = r.checked /\ out' = out \cup {q}
      BY <2>2 DEF Sends
    <3>2. r.pc = "sent"
      BY <2>2 DEF Sends, WentOn
    <3> HIDE DEF q
    <3> QED
      BY <1>4, <1>9, <2>1, <3>1, <3>2
  <2> QED
    BY <1>3, <2>1, <2>2
<1>12. CallsChecked'
  BY <1>2, <1>10, <1>11 DEF CallsChecked
<1> QED
  BY <1>5, <1>6, <1>7, <1>12 DEF GrantInv

\* The call of request q becomes r: its answer is a if it has been sent and is still at
\* that attempt.
Answered(q, a, r) ==
    LET c == call[q.call] IN
    /\ r.pc = c.pc /\ r.on = c.on /\ r.op = c.op /\ r.attempt = c.attempt /\ r.checked = c.checked
    /\ r.answer = IF c.pc = "sent" /\ c.attempt = q.attempt THEN a ELSE c.answer

\* A response takes its request out and at most answers the call that awaits it.
LEMMA RespondMoves ==
    ASSUME CompletionInv, NEW q \in out,
           NEW a \in {"ok", "rejected", "indeterminate", "refused"}, Respond(q, a)
    PROVE  /\ q.call \in Calls /\ q.stamp = gen /\ out' = out \ {q}
           /\ \E r \in Call : call' = [call EXCEPT ![q.call] = r] /\ Answered(q, a, r)
<1>1. q.call \in Calls /\ call \in [Calls -> Call]
  BY DEF CompletionInv, CoreTypeOK, Request
<1>2. call[q.call] \in Call
  BY <1>1
<1>3. q.stamp = gen /\ out' = out \ {q}
  BY DEF Respond
<1>4. CASE call[q.call].pc = "sent" /\ call[q.call].attempt = q.attempt
  <2> DEFINE r == [call[q.call] EXCEPT !.answer = a]
  <2>1. call' = [call EXCEPT ![q.call] = r]
    BY <1>1, <1>2, <1>4 DEF Respond
  <2>2. /\ r \in Call /\ r.pc = call[q.call].pc /\ r.on = call[q.call].on /\ r.op = call[q.call].op
        /\ r.attempt = call[q.call].attempt /\ r.checked = call[q.call].checked /\ r.answer = a
    BY <1>2 DEF Call
  <2> HIDE DEF r
  <2>3. Answered(q, a, r)
    BY <1>4, <2>2 DEF Answered
  <2> QED
    BY <1>1, <1>3, <2>1, <2>2, <2>3
<1>5. CASE ~(call[q.call].pc = "sent" /\ call[q.call].attempt = q.attempt)
  <2>1. call' = [call EXCEPT ![q.call] = call[q.call]]
    BY <1>1, <1>5 DEF Respond
  <2>2. Answered(q, a, call[q.call])
    BY <1>5 DEF Answered
  <2> QED
    BY <1>1, <1>2, <1>3, <2>1, <2>2
<1> QED
  BY <1>4, <1>5

\* A response leaves every call on the handle it is on, and every handle alone.
LEMMA GrantRespond ==
    ASSUME GrantInv, CompletionInv, NEW q \in out,
           NEW a \in {"ok", "rejected", "indeterminate", "refused"}, Respond(q, a)
    PROVE  CallsChecked' /\ GrantsApart' /\ \A h \in Handles : Usable(h)' <=> Usable(h)
<1>1. q.call \in Calls /\ out' = out \ {q}
  BY RespondMoves
<1>2. PICK r \in Call : call' = [call EXCEPT ![q.call] = r] /\ Answered(q, a, r)
  BY RespondMoves
<1>3. \A d \in Calls : call'[d] = IF d = q.call THEN r ELSE call[d]
  BY <1>1, <1>2 DEF CompletionInv, CoreTypeOK
<1>4. UNCHANGED <<stage, stamp, grant>>
  BY DEF Respond, handleVars
<1>5. GrantsApart' /\ \A h \in Handles : Usable(h)' <=> Usable(h)
  BY <1>4 DEF GrantInv, GrantsApart, Usable
<1>6. \A d \in Calls : /\ call'[d].on = call[d].on /\ call'[d].op = call[d].op
                       /\ call'[d].pc = call[d].pc /\ call'[d].checked = call[d].checked
  BY <1>2, <1>3 DEF Answered
<1>7. \A d \in Calls : CallChecked(call[d])'
  BY <1>4, <1>5, <1>6 DEF GrantInv, CallsChecked, CallChecked
<1>8. \A p \in out : p.call \in Calls
  BY DEF CompletionInv, CoreTypeOK, Request
<1>9. CallsChecked'
  BY <1>1, <1>4, <1>6, <1>7, <1>8 DEF GrantInv, CallsChecked
<1> QED
  BY <1>5, <1>9

\* The broker carries a request out on the handle that has its id: where the handle was
\* stamped in the session that granted it and the request in the session the call
\* checked, all four generations agree and the id is that handle's own.
LEMMA ApplyOwn ==
    ASSUME GrantInv, CompletionInv, NEW q \in out, Apply(q)
    PROVE  GrantInv'
<1> DEFINE m == call[q.call].on
<1>1. Respond(q, "ok") /\ m # NoHandle
  BY DEF Apply
<1>2. q.call \in Calls /\ q.stamp = gen /\ q \in Request
  BY <1>1, RespondMoves DEF CompletionInv, CoreTypeOK
<1>3. m \in Handles
  BY <1>1, <1>2 DEF CompletionInv, CoreTypeOK, Call
<1>4. Usable(m) /\ q.checked = stamp[m]
  BY <1>2, <1>3 DEF GrantInv, CallsChecked, CallChecked
<1>5. PICK k \in Handles :
         /\ grant[k] = [session |-> gen, id |-> grant[m].id]
         /\ applied' = applied \cup {[meant |-> m, met |-> k, checked |-> q.checked, stamp |-> q.stamp]}
  BY DEF Apply
<1>6. ASSUME stamp[m] = grant[m].session, q.checked = q.stamp
      PROVE  k = m
  <2>1. grant[m] = [session |-> gen, id |-> grant[m].id]
    BY <1>2, <1>3, <1>4, <1>6 DEF GrantInv, HandleTypeOK
  <2> QED
    BY <1>3, <1>4, <1>5, <2>1 DEF GrantInv, GrantsApart, Usable
<1> DEFINE n == [meant |-> m, met |-> k, checked |-> q.checked, stamp |-> q.stamp]
<1>7. /\ n.meant = m /\ n.met = k /\ n.checked = q.checked /\ n.stamp = q.stamp
      /\ n \in [meant : Handles, met : Handles, checked : Generations, stamp : Generations]
  BY <1>2, <1>3 DEF Request
<1>8. applied' = applied \cup {n} /\ UNCHANGED <<gen, kind, stage, stamp, grant>>
  BY <1>1, <1>5 DEF Respond, handleVars
<1> HIDE DEF n, m
<1>9. CallsChecked' /\ GrantsApart' /\ \A h \in Handles : Usable(h)' <=> Usable(h)
  BY <1>1, GrantRespond
<1>10. HandleTypeOK'
  BY <1>7, <1>8 DEF GrantInv, HandleTypeOK
<1>11. \A a \in applied : a.meant \in Handles
  BY DEF GrantInv, HandleTypeOK
<1>12. AppliedUsable'
  BY <1>3, <1>4, <1>7, <1>8, <1>9, <1>11 DEF GrantInv, AppliedUsable
<1>13. OwnGrant'
  BY <1>6, <1>7, <1>8 DEF GrantInv, OwnGrant
<1> QED
  BY <1>9, <1>10, <1>12, <1>13 DEF GrantInv

\* Nothing is asked, granted, called or applied yet.
LEMMA GrantStarts == Init => GrantInv
<1> SUFFICES ASSUME Init PROVE GrantInv
  OBVIOUS
<1>1. HandleTypeOK
  BY HandlesAssumption DEF Init, HandleTypeOK, Generations, Kinds
<1>2. GrantsApart
  BY DEF Init, GrantsApart
<1>3. CallsChecked
  BY HandlesAssumption DEF Init, CallsChecked, CallChecked, NewCall
<1>4. AppliedUsable /\ OwnGrant
  BY DEF Init, AppliedUsable, OwnGrant
<1> QED
  BY <1>1, <1>2, <1>3, <1>4 DEF GrantInv

\* Every step keeps the invariant.
LEMMA GrantKept ==
    ASSUME GrantInv, CompletionInv, [Next]_vars
    PROVE  GrantInv'
<1>1. CASE \E h \in Handles : Begin(h) \/ Grant(h) \/ Granted(h) \/ BeginFails(h)
  BY <1>1, GrantHandle
<1>2. CASE \E c \in Calls :
             \/ \E h \in Handles, o \in Ops : Start(c, h, o)
             \/ StartEnqueue(c) \/ Claim(c) \/ Send(c)
             \/ Return(c) \/ ReadFails(c) \/ Retry(c) \/ Fails(c)
  BY <1>2, GrantCall
<1>3. CASE \E q \in out : Apply(q)
  BY <1>3, ApplyOwn
<1>4. CASE \E q \in out : Admit(q) \/ Reject(q)
  <2>1. PICK q \in out, a \in {"ok", "rejected", "indeterminate", "refused"} : Respond(q, a)
    BY <1>4 DEF Admit, Reject
  <2>2. applied' = applied
    BY <1>4 DEF Admit, Reject
  <2>3. UNCHANGED <<kind, stage, stamp, grant>>
    BY <2>1 DEF Respond, handleVars
  <2>4. CallsChecked' /\ GrantsApart' /\ \A h \in Handles : Usable(h)' <=> Usable(h)
    BY <2>1, GrantRespond
  <2>5. HandleTypeOK' /\ AppliedUsable' /\ OwnGrant'
    BY <2>2, <2>3, <2>4 DEF GrantInv, HandleTypeOK, AppliedUsable, OwnGrant
  <2> QED
    BY <2>4, <2>5 DEF GrantInv
<1>5. CASE Lost \/ UNCHANGED vars
  <2>1. UNCHANGED <<kind, stage, stamp, call, grant, applied>> /\ out' \subseteq out
    BY <1>5 DEF Lost, vars, handleVars, brokerVars
  <2>2. HandleTypeOK' /\ GrantsApart' /\ AppliedUsable' /\ OwnGrant'
    BY <2>1 DEF GrantInv, HandleTypeOK, GrantsApart, AppliedUsable, OwnGrant, Usable
  <2>3. CallsChecked'
    BY <2>1 DEF GrantInv, CallsChecked, CallChecked, Usable
  <2> QED
    BY <2>2, <2>3 DEF GrantInv
<1> QED
  BY <1>1, <1>2, <1>3, <1>4, <1>5 DEF Next

\* The three readings of generation() around a Queue item, a KV transaction or a Stream
\* session: unless it moved between two of them, a call meets what its handle was granted.
THEOREM CallsMeetOwnGrant == Spec => []OwnGrant
<1>1. Spec => []CompletionInv
  BY CompletionStarts, CompletionKept, PTL DEF Spec
<1>2. Spec => []GrantInv
  BY <1>1, GrantStarts, GrantKept, PTL DEF Spec
<1>3. GrantInv => OwnGrant
  BY DEF GrantInv
<1> QED
  BY <1>2, <1>3, PTL

-----------------------------------------------------------------------------
\* The actions of one call keep the count of its messages told by its progress: it is
\* sent again only after a rejection, when no request of it is on its way.
LEMMA EnqueueCall ==
    ASSUME EnqueueInv, GrantInv, CompletionInv, NEW c \in Calls,
           \/ \E h \in Handles, o \in Ops : Start(c, h, o)
           \/ StartEnqueue(c) \/ Claim(c) \/ Send(c)
           \/ Return(c) \/ ReadFails(c) \/ Retry(c) \/ Fails(c)
    PROVE  EnqueueInv'
<1>1. HandleTypeOK
  BY DEF GrantInv
<1>2. admitted' = admitted
  BY <1>1, CallMoves
<1>3. PICK r \in Call : /\ call' = [call EXCEPT ![c] = r] /\ Moves(c, r)
                        /\ out' = out \/ Sends(c, r)
  BY <1>1, CallMoves
<1>4. \A d \in Calls : call'[d] = IF d = c THEN r ELSE call[d]
  BY <1>3 DEF CompletionInv, CoreTypeOK
<1>5. Tells(call[c], admitted[c]) /\ CallChecked(call[c]) /\ call[c] \in Call
  BY DEF EnqueueInv, GrantInv, CallsChecked, CompletionInv, CoreTypeOK
<1>6. Tells(r, admitted[c])
  <2>1. CASE Entered(c, r)
    BY <1>5, <2>1, HandlesAssumption DEF Entered, Tells
  <2>2. CASE WentOn(c, r)
    BY <1>5, <2>2 DEF WentOn, Kept, Tells
  <2>3. CASE Slept(c, r)
    BY <1>3, <1>5, <2>3 DEF Slept, Kept, Tells, CallChecked, Call
  <2>4. CASE Woke(c, r)
    BY <1>5, <2>4 DEF Woke, Kept, Tells
  <2>5. CASE Ended(c, r)
    <3>1. CASE r.op = "enqueue"
      BY <1>5, <2>5, <3>1 DEF Ended, Kept, Tells, Call
    <3>2. CASE r.op # "enqueue"
      <4>1. r.on \in Handles
        BY <1>5, <2>5, <3>2 DEF Ended, Kept, CallChecked, Call
      <4> QED
        BY <1>5, <2>5, <4>1, HandlesAssumption DEF Ended, Kept, Tells
    <3> QED
      BY <3>1, <3>2
  <2> QED
    BY <1>3, <2>1, <2>2, <2>3, <2>4, <2>5 DEF Moves
<1>7. ASSUME NEW q \in out, q.call = c, r.on = NoHandle
      PROVE  Awaited(r, q) /\ call[c].on = NoHandle /\ call[c].pc \in {"sent", "done"}
  <2>1. Kept(c, r)
    BY <1>3, <1>7, HandlesAssumption DEF Moves, Entered, WentOn, Slept, Woke, Ended
  <2>2. call[c].on = NoHandle /\ Awaited(call[c], q) /\ call[c].op = "enqueue"
    BY <1>5, <1>7, <2>1 DEF Kept, EnqueueInv, CallChecked
  <2>3. Ended(c, r)
    BY <1>3, <2>1, <2>2 DEF Moves, Entered, WentOn, Slept, Woke, Kept, Awaited
  <2> QED
    BY <2>2, <2>3 DEF Ended, Kept, Awaited
<1>8. \A q \in out : q.call \in Calls
  BY DEF CompletionInv, CoreTypeOK, Request
<1>9. \A d \in Calls : Tells(call[d], admitted[d])'
  BY <1>2, <1>4, <1>6 DEF EnqueueInv
<1>10. \A q \in out : call'[q.call].on = NoHandle =>
          Awaited(call'[q.call], q) /\ admitted[q.call] = 0 /\ call[q.call].on = NoHandle
  BY <1>4, <1>7, <1>8 DEF EnqueueInv
<1>11. CASE out' = out
  BY <1>2, <1>9, <1>10, <1>11 DEF EnqueueInv
<1>12. CASE Sends(c, r)
  <2> DEFINE n == [call |-> c, attempt |-> r.attempt, checked |-> r.checked, stamp |-> gen]
  <2>1. n.call = c /\ n.attempt = r.attempt /\ out' = out \cup {n}
    BY <1>12 DEF Sends
  <2> HIDE DEF n
  <2>2. r.pc = "sent" /\ r.answer = "none" /\ call[c].pc = "ready" /\ admitted[c] = 0
    BY <1>5, <1>12 DEF Sends, WentOn, Tells
  <2>3. \A q \in out : r.on = NoHandle => q.call # c
    BY <1>7, <2>2
  <2>4. \A q \in out' : call'[q.call].on = NoHandle =>
           Awaited(call'[q.call], q) /\ admitted[q.call] = 0
    BY <1>4, <1>10, <2>1, <2>2 DEF Awaited
  <2>5. \A p, q \in out' : p.call = q.call /\ call'[q.call].on = NoHandle => p = q
    BY <1>4, <1>8, <1>10, <2>1, <2>3 DEF EnqueueInv
  <2> QED
    BY <1>2, <1>9, <2>4, <2>5 DEF EnqueueInv
<1> QED
  BY <1>3, <1>11, <1>12

\* The broker's answer says what it did, and no other request of the enqueue is left.
LEMMA EnqueueRespond ==
    ASSUME EnqueueInv, GrantInv, CompletionInv, NEW q \in out,
           Apply(q) \/ Admit(q) \/ Reject(q)
    PROVE  EnqueueInv'
<1>1. PICK a \in {"ok", "rejected", "indeterminate", "refused"} :
         /\ Respond(q, a)
         /\ \/ call[q.call].on # NoHandle /\ admitted' = admitted
            \/ /\ call[q.call].on = NoHandle /\ a \in {"ok", "indeterminate"}
               /\ admitted' = [admitted EXCEPT ![q.call] = @ + 1]
            \/ a # "ok" /\ admitted' = admitted
  BY DEF Apply, Admit, Reject
<1>2. q.call \in Calls /\ out' = out \ {q}
  BY <1>1, RespondMoves
<1>3. PICK r \in Call : call' = [call EXCEPT ![q.call] = r] /\ Answered(q, a, r)
  BY <1>1, RespondMoves
<1>4. \A d \in Calls : call'[d] = IF d = q.call THEN r ELSE call[d]
  BY <1>2, <1>3 DEF CompletionInv, CoreTypeOK
<1>5. /\ Tells(call[q.call], admitted[q.call]) /\ call[q.call] \in Call
      /\ admitted[q.call] \in Nat /\ admitted \in [Calls -> Nat]
  BY <1>2 DEF EnqueueInv, CompletionInv, CoreTypeOK
<1>6. admitted' \in [Calls -> Nat] /\ \A d \in Calls : d # q.call => admitted'[d] = admitted[d]
  BY <1>1, <1>2, <1>5
<1>7. Tells(r, admitted'[q.call])
  <2>1. CASE call[q.call].on = NoHandle
    <3>1. Awaited(call[q.call], q) /\ admitted[q.call] = 0
      BY <2>1 DEF EnqueueInv
    <3>2. \/ admitted'[q.call] = 1 /\ a \in {"ok", "indeterminate"}
          \/ admitted'[q.call] = 0 /\ a # "ok"
      BY <1>1, <1>2, <1>5, <2>1, <3>1
    <3>3. r.on = NoHandle /\ r.pc = call[q.call].pc
          /\ r.answer = IF call[q.call].pc = "sent" THEN a ELSE "unknown"
      BY <1>3, <2>1, <3>1 DEF Answered, Awaited
    <3> QED
      BY <3>1, <3>2, <3>3, HandlesAssumption DEF Tells, Awaited
  <2>2. CASE call[q.call].on # NoHandle
    <3>1. r.on \in Handles /\ r.on # NoHandle /\ admitted'[q.call] = 0 /\ r.pc = call[q.call].pc
          /\ (r.answer = "none" \/ r.pc \notin {"new", "checked", "ready", "backoff"})
      BY <1>1, <1>3, <1>5, <2>2 DEF Answered, Tells, Call
    <3> QED
      BY <3>1 DEF Tells
  <2> QED
    BY <2>1, <2>2
<1>8. \A d \in Calls : Tells(call[d], admitted[d])'
  BY <1>4, <1>6, <1>7 DEF EnqueueInv
<1>9. \A p \in out : p.call \in Calls
  BY DEF CompletionInv, CoreTypeOK, Request
<1>10. r.on = call[q.call].on
  BY <1>3 DEF Answered
<1>11. \A p \in out' : call'[p.call].on = NoHandle => p.call # q.call
  BY <1>2, <1>4, <1>10 DEF EnqueueInv
<1>12. \A p \in out' : call'[p.call].on = NoHandle =>
          Awaited(call'[p.call], p) /\ admitted'[p.call] = 0
  BY <1>2, <1>4, <1>6, <1>9, <1>11 DEF EnqueueInv
<1>13. \A p, m \in out' : p.call = m.call /\ call'[m.call].on = NoHandle => p = m
  BY <1>2, <1>4, <1>9, <1>11 DEF EnqueueInv
<1> QED
  BY <1>6, <1>8, <1>12, <1>13 DEF EnqueueInv

\* Every step keeps the count of each enqueue told by its progress.
LEMMA EnqueueKept ==
    ASSUME EnqueueInv, GrantInv, CompletionInv, [Next]_vars
    PROVE  EnqueueInv'
<1>1. CASE \E c \in Calls :
             \/ \E h \in Handles, o \in Ops : Start(c, h, o)
             \/ StartEnqueue(c) \/ Claim(c) \/ Send(c)
             \/ Return(c) \/ ReadFails(c) \/ Retry(c) \/ Fails(c)
  BY <1>1, EnqueueCall
<1>2. CASE \E q \in out : Apply(q) \/ Admit(q) \/ Reject(q)
  BY <1>2, EnqueueRespond
<1>3. CASE UNCHANGED <<call, admitted>> /\ out' \subseteq out
  BY <1>3 DEF EnqueueInv
<1>4. ASSUME NEW h \in Handles, Begin(h) \/ Grant(h) \/ Granted(h) \/ BeginFails(h)
      PROVE  UNCHANGED <<call, admitted>> /\ out' \subseteq out
  BY <1>4 DEF Begin, Grant, Granted, BeginFails, brokerVars
<1>5. ASSUME Lost \/ UNCHANGED vars
      PROVE  UNCHANGED <<call, admitted>> /\ out' \subseteq out
  BY <1>5 DEF Lost, vars, brokerVars
<1> QED
  BY <1>1, <1>2, <1>3, <1>4, <1>5 DEF Next

\* What request_confirmed_negative promises of an enqueue, for any number of attempts,
\* rejections, losses and abandoned calls: one message at most, and a true report.
THEOREM EnqueueIsOnce == Spec => []EnqueuedOnce
<1>1. Spec => []CompletionInv
  BY CompletionStarts, CompletionKept, PTL DEF Spec
<1>2. Spec => []GrantInv
  BY <1>1, GrantStarts, GrantKept, PTL DEF Spec
<1>3. Init => EnqueueInv
  BY DEF Init, EnqueueInv, Tells, NewCall
<1>4. Spec => []EnqueueInv
  BY <1>1, <1>2, <1>3, EnqueueKept, PTL DEF Spec
<1>5. EnqueueInv /\ GrantInv => EnqueuedOnce
  <2> SUFFICES ASSUME EnqueueInv, GrantInv, NEW c \in Calls
               PROVE  /\ admitted[c] <= 1
                      /\ call[c].op = "enqueue" /\ call[c].pc = "done" =>
                            /\ call[c].answer = "ok" => admitted[c] = 1
                            /\ call[c].answer \in {"rejected", "refused", "failed"} => admitted[c] = 0
    BY DEF EnqueuedOnce
  <2>1. Tells(call[c], admitted[c]) /\ CallChecked(call[c])
    BY DEF EnqueueInv, GrantInv, CallsChecked
  <2> QED
    BY <2>1 DEF Tells, CallChecked
<1> QED
  BY <1>2, <1>4, <1>5, PTL
=============================================================================
