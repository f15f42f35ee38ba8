--------------------------- MODULE LeaseObserverProofs ---------------------------
(***************************************************************************)
(* What the observer shows is the broker's inventory or something is left  *)
(* that will tell it so: a notification in transit or in its receiver, an  *)
(* overflow, a session without its subscription, or a generation that is   *)
(* not the one it began with.  The epoch protocol never installs a LIST    *)
(* that is older than a notification the connection has read.  For any     *)
(* number of changes, sessions, failures and any capacity.                 *)
(***************************************************************************)
EXTENDS LeaseObserver, SequenceTheorems, TLAPS

\* The passes of bootstrap() and reconcile_after_invalidation().
Rounds == {"epoch", "listing", "drain", "install"}

\* The versions and sessions are numbers; the bounds of the instance do not matter.
\* Booleans are compared, for the SMT solver.
ObserverTypes ==
    /\ phase \in {"live", "down"}
    /\ (registered = TRUE \/ registered = FALSE) /\ (lagged = TRUE \/ lagged = FALSE)
    /\ (drained = TRUE \/ drained = FALSE) /\ (swallowed = TRUE \/ swallowed = FALSE)
    /\ (overtaken = TRUE \/ overtaken = FALSE)
    /\ generation \in Nat /\ watched \in Nat /\ truth \in Nat
    /\ baseline \in Int /\ seen \in Int /\ subGen \in Int /\ idGen \in Int /\ subAsk \in Int
    /\ fresh \in Int /\ view \in Int /\ told \in Int
    /\ pc \in Steps /\ mode \in {"boot", "notified", "timer"}
    /\ asked \in {"no", "first", "rest", "reply"}

Message == [kind : {"own", "other", "list", "subscribed", "late", "none"}, version : Int, gen : Int]

WireTypes == wire \in Seq(Message) /\ buf \in Seq(Message) /\ publishing \in Message

\* Generations only grow, and the observer and the broker know none before its time.
Clock ==
    /\ watched <= generation /\ baseline <= generation /\ seen <= generation
    /\ subGen <= generation
    /\ pc = "steady" \/ (mode # "boot" /\ pc \in Rounds) => seen <= baseline
    /\ pc = "pause" => mode = "boot"

\* The answer to a LIST is in transit at most once, and only while it is waited for.
OneAnswer ==
    /\ asked # "no" => pc = "listing"
    /\ \A i \in 1..Len(wire) : wire[i].kind = "list" => asked = "reply"
    /\ \A i, j \in 1..Len(wire) : wire[i].kind = "list" /\ wire[j].kind = "list" => i = j

\* What is listed or announced has come to be.
Announced ==
    /\ told <= truth /\ fresh <= truth
    /\ \A i \in 1..Len(wire) : wire[i].version <= truth

\* The observer knows the id under which this session notifies it, except while it
\* replaces the subscription.
Identified ==
    /\ pc \in {"subscribe", "subscribing", "answered"} => registered = FALSE
    /\ pc \in {"subscribing", "answered"} /\ subGen = generation => subAsk = generation
    /\ pc \notin {"subscribing", "answered", "leaving", "stopped"} /\ subGen = generation =>
          idGen = generation

\* A LIST has been taken, and not yet installed.
Listed == (pc = "listing" /\ asked \in {"rest", "reply"}) \/ pc \in {"drain", "install"}

\* A view has been installed and nothing that concerns it was taken since.
Vouched ==
    /\ swallowed = FALSE
    /\ \/ pc \in {"check", "watch", "recheck", "steady"}
       \/ mode = "timer" /\ pc \in Rounds /\ drained = FALSE

\* The frame f notifies the observer in session g, or the queue q holds one that does.
Own(f, g) == f.kind = "own" /\ f.gen = g
OwnIn(q, g) == \E i \in 1..Len(q) : Own(q[i], g)

\* A notification of this session is on its way to the observer.
Notified ==
    OwnIn(wire, generation) \/ Own(publishing, generation) \/ OwnIn(buf, generation)

\* Something is left that makes the observer list again.
Evidence == generation # baseline \/ subGen # generation \/ lagged = TRUE \/ Notified

\* While the session is the one it began with, it is served.
Served ==
    (\/ Listed \/ pc \in {"check", "watch", "recheck", "steady"}
     \/ mode # "boot" /\ pc \in Rounds) => generation # baseline \/ phase = "live"

\* What is listed, and what is shown, is the inventory or will be found out not to be.
UpToDate ==
    /\ Listed => fresh = truth \/ Evidence
    /\ Vouched => view = truth \/ Evidence

\* A pass that no notification overtook is not older than any that was read.
NotOvertaken == Listed /\ overtaken = FALSE => told <= fresh

ObserverInv ==
    /\ ObserverTypes /\ WireTypes /\ Clock /\ OneAnswer /\ Announced /\ Identified /\ Served
    /\ UpToDate /\ NotOvertaken

-----------------------------------------------------------------------------
(* Queues of frames. *)

\* A frame added at the end.
LEMMA Added ==
    ASSUME NEW q \in Seq(Message), NEW f \in Message
    PROVE  /\ Append(q, f) \in Seq(Message) /\ Len(Append(q, f)) = Len(q) + 1 /\ Len(q) \in Nat
           /\ \A i \in 1..Len(q) : Append(q, f)[i] = q[i]
           /\ Append(q, f)[Len(q) + 1] = f
OBVIOUS

\* The first frame taken.
LEMMA Taken ==
    ASSUME NEW q \in Seq(Message), q # <<>>
    PROVE  /\ Len(q) \in Nat \ {0} /\ Head(q) = q[1] /\ Head(q) \in Message
           /\ Tail(q) \in Seq(Message) /\ Len(Tail(q)) = Len(q) - 1
           /\ \A i \in 1..Len(q) - 1 : Tail(q)[i] = q[i + 1] /\ i + 1 \in 1..Len(q)
OBVIOUS

\* What becomes of a frame whose registration is gone or whose request is given up.
LEMMA Changed ==
    ASSUME NEW f \in Message
    PROVE  /\ Disown(f) \in Message /\ Unheard(f) \in Message
           /\ Disown(f).version = f.version /\ Unheard(f).version = f.version
           /\ Unheard(f).gen = f.gen
           /\ Unheard(f).kind \notin {"list", "subscribed"}
           /\ f.kind = "own" => Unheard(f) = f
           /\ Disown(f).kind = "list" => f.kind = "list"
           /\ Unheard(f).kind = "own" => f.kind = "own"
BY DEF Message, Disown, Unheard

\* The queue of the frames so changed.
LEMMA AllChanged ==
    ASSUME NEW q \in Seq(Message), NEW p,
           DOMAIN p = DOMAIN q, p = [i \in DOMAIN q |-> p[i]], \A i \in DOMAIN q : p[i] \in Message
    PROVE  p \in Seq(Message) /\ Len(p) = Len(q) /\ Len(q) \in Nat /\ DOMAIN q = 1..Len(q)
<1>1. DOMAIN q = 1..Len(q) /\ Len(q) \in Nat
  OBVIOUS
<1>2. p \in [1..Len(q) -> Message]
  BY <1>1
<1> QED  BY <1>1, <1>2, SeqDef, LenProperties

\* No frames.
LEMMA Empty == <<>> \in Seq(Message) /\ Len(<<>>) = 0
OBVIOUS

\* The frames in transit when a subscription is ended, or given up.
Disowned == [i \in DOMAIN wire |-> Disown(wire[i])]
GivenUp == [i \in DOMAIN wire |-> Disown(Unheard(wire[i]))]

\* They keep their versions; no request waits for them any more, and one given up
\* leaves the notifications as they are.
LEMMA Rewritten ==
    ASSUME WireTypes, NEW p \in {Abandoned, Disowned, GivenUp}
    PROVE  /\ p \in Seq(Message) /\ Len(p) = Len(wire)
           /\ \A i \in 1..Len(wire) : /\ p[i].version = wire[i].version
                                      /\ p[i].kind = "list" => wire[i].kind = "list"
           /\ p \in {Abandoned, GivenUp} => \A i \in 1..Len(wire) : p[i].kind # "list"
           /\ p = Abandoned => \A i \in 1..Len(wire) : wire[i].kind = "own" => p[i] = wire[i]
<1>1. DOMAIN wire = 1..Len(wire) /\ \A i \in 1..Len(wire) : wire[i] \in Message
  BY DEF WireTypes
<1>2. \A i \in 1..Len(wire) :
         /\ Unheard(wire[i]) \in Message /\ Disown(wire[i]) \in Message
         /\ Disown(Unheard(wire[i])) \in Message
  BY <1>1, Changed
<1>3. CASE p = Abandoned
  <2>1. \A i \in 1..Len(wire) : p[i] = Unheard(wire[i])
    BY <1>1, <1>3 DEF Abandoned
  <2>2. p \in Seq(Message) /\ Len(p) = Len(wire)
    BY <1>1, <1>2, <1>3, AllChanged DEF Abandoned, WireTypes
  <2>3. \A i \in 1..Len(wire) : /\ p[i].version = wire[i].version /\ p[i].kind # "list"
                                /\ wire[i].kind = "own" => p[i] = wire[i]
    BY <1>1, <2>1, Changed
  <2> QED  BY <2>2, <2>3
<1>4. p = Disowned =>
         /\ p \in Seq(Message) /\ Len(p) = Len(wire)
         /\ \A i \in 1..Len(wire) : /\ p[i].version = wire[i].version
                                    /\ p[i].kind = "list" => wire[i].kind = "list"
  <2>0. HAVE p = Disowned
  <2>1. \A i \in 1..Len(wire) : p[i] = Disown(wire[i])
    BY <1>1, <2>0 DEF Disowned
  <2>2. p \in Seq(Message) /\ Len(p) = Len(wire)
    BY <1>1, <1>2, <2>0, AllChanged DEF Disowned, WireTypes
  <2>3. \A i \in 1..Len(wire) : /\ p[i].version = wire[i].version
                                /\ p[i].kind = "list" => wire[i].kind = "list"
    BY <1>1, <2>1, Changed
  <2> QED  BY <2>2, <2>3
<1>5. p = GivenUp =>
         /\ p \in Seq(Message) /\ Len(p) = Len(wire)
         /\ \A i \in 1..Len(wire) : p[i].version = wire[i].version /\ p[i].kind # "list"
  <2>0. HAVE p = GivenUp
  <2>1. \A i \in 1..Len(wire) : p[i] = Disown(Unheard(wire[i]))
    BY <1>1, <2>0 DEF GivenUp
  <2>2. p \in Seq(Message) /\ Len(p) = Len(wire)
    BY <1>1, <1>2, <2>0, AllChanged DEF GivenUp, WireTypes
  <2>3. \A i \in 1..Len(wire) : p[i].version = wire[i].version /\ p[i].kind # "list"
    BY <1>1, <1>2, <2>1, Changed
  <2> QED  BY <2>2, <2>3
<1> QED  BY <1>3, <1>4, <1>5

\* What the broker sends.
LEMMA Sent ==
    ASSUME ObserverTypes, NEW v \in Int, NEW k \in {"own", "other", "list", "subscribed"}
    PROVE  Frame(k, v) \in Message /\ Frame(k, v).kind = k /\ Frame(k, v).version = v
           /\ Frame(k, v).gen = generation
BY DEF Frame, Message, ObserverTypes

-----------------------------------------------------------------------------
(* Types. *)

\* Every step keeps the types,
LEMMA TypesKept == ObserverTypes /\ WireTypes /\ Next => ObserverTypes'
<1> SUFFICES ASSUME ObserverTypes, WireTypes, Next PROVE ObserverTypes'
  OBVIOUS
<1> USE DEF ObserverTypes, Steps, connVars, brokerVars, ctlVars, listVars, subVars, viewVars,
            history
<1>1. CASE Change
  BY <1>1 DEF Change
<1>2. CASE OtherNotice
  BY <1>2 DEF OtherNotice
<1>3. CASE TakeSnapshot
  BY <1>3 DEF TakeSnapshot
<1>4. CASE SendLastPage
  BY <1>4 DEF SendLastPage
<1>5. CASE AcceptSubscribe
  BY <1>5 DEF AcceptSubscribe
<1>6. CASE Lose
  BY <1>6 DEF Lose, Retried
<1>7. CASE AnnounceGeneration
  BY <1>7 DEF AnnounceGeneration
<1>8. CASE Reconnect
  BY <1>8 DEF Reconnect
<1>9. CASE CloseConnection
  BY <1>9 DEF CloseConnection
<1>10. CASE ReadAnswer
  BY <1>10 DEF ReadAnswer
<1>11. CASE ReadNotice
  <2>1. Head(wire).version \in Int
    BY <1>11, Taken DEF ReadNotice, WireTypes, Message
  <2> QED  BY <1>11, <2>1 DEF ReadNotice
<1>12. CASE Publish
  BY <1>12 DEF Publish
<1>13. CASE Top
  BY <1>13 DEF Top
<1>14. CASE StartList
  BY <1>14 DEF StartList
<1>15. CASE Drain
  BY <1>15 DEF Drain, Failed
<1>16. CASE Install
  BY <1>16 DEF Install
<1>17. CASE Pause
  BY <1>17 DEF Pause
<1>18. CASE ShutDownEarly
  BY <1>18 DEF ShutDownEarly
<1>19. CASE CheckBaseline
  BY <1>19 DEF CheckBaseline, Reconnected
<1>20. CASE Watch
  BY <1>20 DEF Watch
<1>21. CASE Recheck
  BY <1>21 DEF Recheck, Reconnected
<1>22. CASE SteadyShutdown
  BY <1>22 DEF SteadyShutdown
<1>23. CASE SteadyChanged
  BY <1>23 DEF SteadyChanged, Reconnected
<1>24. CASE SteadyNotified
  BY <1>24 DEF SteadyNotified
<1>25. CASE SteadyTimer
  BY <1>25 DEF SteadyTimer
<1>26. CASE ReplaceOld
  BY <1>26 DEF ReplaceOld, Unsubscribe
<1>27. CASE Subscribe
  BY <1>27 DEF Subscribe
<1>28. CASE Register
  BY <1>28 DEF Register
<1>29. CASE Leave
  BY <1>29 DEF Leave, Unsubscribe
<1>30. CASE ListFails
  BY <1>30 DEF ListFails, Failed
<1>31. CASE SubscribeFails
  BY <1>31 DEF SubscribeFails
<1>32. CASE RequestShutdown
  BY <1>32 DEF RequestShutdown
<1> QED  BY <1>1, <1>2, <1>3, <1>4, <1>5, <1>6, <1>7, <1>8, <1>9, <1>10, <1>11, <1>12,
         <1>13, <1>14, <1>15, <1>16, <1>17, <1>18, <1>19, <1>20, <1>21, <1>22, <1>23,
         <1>24, <1>25, <1>26, <1>27, <1>28, <1>29, <1>30, <1>31, <1>32
         DEF Next, Answering, Reading, Observing

\* and those of the queues.
LEMMA WireTypesKept == ObserverTypes /\ WireTypes /\ Next => WireTypes'
<1> SUFFICES ASSUME ObserverTypes, WireTypes, Next PROVE WireTypes'
  OBVIOUS
<1> USE DEF connVars, brokerVars, ctlVars, listVars, subVars, viewVars, history
<1>1. CASE Change
  <2>1. truth + 1 \in Int
    BY DEF ObserverTypes
  <2>2. Frame("own", truth + 1) \in Message
    BY <2>1, Sent
  <2> QED  BY <1>1, <2>2, Added DEF Change, WireTypes
<1>2. CASE OtherNotice
  BY <1>2, Sent, Added DEF OtherNotice, WireTypes
<1>3. CASE TakeSnapshot \/ AnnounceGeneration \/ Reconnect \/ Top \/ StartList \/ Install \/
            Pause \/ CheckBaseline \/ Watch \/ Recheck \/ SteadyShutdown \/ SteadyChanged \/
            SteadyTimer \/ Register \/ RequestShutdown
  BY <1>3 DEF TakeSnapshot, AnnounceGeneration, Reconnect, Top, StartList, Install, Pause,
         CheckBaseline, Reconnected, Watch, Recheck, SteadyShutdown, SteadyChanged, SteadyTimer,
         Register, RequestShutdown, WireTypes
<1>4. CASE SendLastPage
  BY <1>4, Sent, Added DEF SendLastPage, WireTypes, ObserverTypes
<1>5. CASE AcceptSubscribe
  BY <1>5, Sent, Added DEF AcceptSubscribe, WireTypes
<1>6. CASE Lose \/ CloseConnection \/ Subscribe
  BY <1>6, Empty DEF Lose, CloseConnection, Subscribe, WireTypes
<1>7. CASE ReadAnswer
  BY <1>7, Taken DEF ReadAnswer, WireTypes
<1>8. CASE ReadNotice
  BY <1>8, Taken DEF ReadNotice, WireTypes
<1>9. CASE Publish
  <2>1. Nothing \in Message
    BY DEF Nothing, Message
  <2>2. CASE buf' = Append(buf, publishing)
    BY <1>9, <2>1, <2>2, Added DEF Publish, WireTypes
  <2>3. CASE buf' = Append(Tail(buf), publishing) /\ ~(Len(buf) < Capacity)
    <3>1. buf # <<>>
      BY <2>3, ObserverAssumption
    <3> QED  BY <1>9, <2>1, <2>3, <3>1, Added, Taken DEF Publish, WireTypes
  <2> QED  BY <1>9, <2>2, <2>3 DEF Publish
<1>10. CASE Drain
  BY <1>10, Empty DEF Drain, WireTypes
<1>11. CASE ShutDownEarly
  BY <1>11, Rewritten DEF ShutDownEarly, WireTypes
<1>12. CASE SteadyNotified
  BY <1>12, Taken DEF SteadyNotified, WireTypes
<1>13. CASE ReplaceOld
  BY <1>13, Rewritten, Changed DEF ReplaceOld, Unsubscribe, Disowned, WireTypes
<1>14. CASE Leave
  BY <1>14, Rewritten, Changed DEF Leave, Unsubscribe, Disowned, WireTypes
<1>15. CASE ListFails
  BY <1>15, Rewritten DEF ListFails, WireTypes
<1>16. CASE SubscribeFails
  BY <1>16, Rewritten, Changed DEF SubscribeFails, GivenUp, WireTypes
<1> QED  BY <1>1, <1>2, <1>3, <1>4, <1>5, <1>6, <1>7, <1>8, <1>9, <1>10, <1>11, <1>12,
         <1>13, <1>14, <1>15, <1>16
         DEF Next, Answering, Reading, Observing

-----------------------------------------------------------------------------
(* Sessions and answers. *)

\* Every step keeps the order of the generations: only Top notes one as the baseline,
\* and steady_state() checks it after it has begun to watch.
LEMMA ClockKept == ObserverTypes /\ Clock /\ Next => Clock'
<1> SUFFICES ASSUME ObserverTypes, Clock, Next PROVE Clock'
  OBVIOUS
<1> USE DEF ObserverTypes, Clock, Rounds, connVars, brokerVars, ctlVars, listVars, subVars,
            viewVars, history
<1>1. CASE Change \/ OtherNotice \/ TakeSnapshot \/ SendLastPage \/ AnnounceGeneration \/
            Publish \/ RequestShutdown
  BY <1>1 DEF Change, OtherNotice, TakeSnapshot, SendLastPage, AnnounceGeneration, Publish,
         RequestShutdown
<1>2. CASE AcceptSubscribe
  BY <1>2 DEF AcceptSubscribe
<1>3. CASE Lose
  BY <1>3 DEF Lose, Retried
<1>4. CASE Reconnect
  BY <1>4 DEF Reconnect
<1>5. CASE CloseConnection
  BY <1>5 DEF CloseConnection
<1>6. CASE ReadAnswer
  BY <1>6 DEF ReadAnswer
<1>7. CASE ReadNotice
  BY <1>7 DEF ReadNotice
<1>8. CASE Top
  BY <1>8 DEF Top
<1>9. CASE StartList
  BY <1>9 DEF StartList
<1>10. CASE Drain
  BY <1>10 DEF Drain, Failed
<1>11. CASE Install
  BY <1>11 DEF Install
<1>12. CASE Pause
  BY <1>12 DEF Pause
<1>13. CASE ShutDownEarly
  BY <1>13 DEF ShutDownEarly
<1>14. CASE CheckBaseline
  BY <1>14 DEF CheckBaseline, Reconnected
<1>15. CASE Watch
  BY <1>15 DEF Watch
<1>16. CASE Recheck
  BY <1>16 DEF Recheck, Reconnected
<1>17. CASE SteadyShutdown
  BY <1>17 DEF SteadyShutdown
<1>18. CASE SteadyChanged
  BY <1>18 DEF SteadyChanged, Reconnected
<1>19. CASE SteadyNotified
  BY <1>19 DEF SteadyNotified
<1>20. CASE SteadyTimer
  BY <1>20 DEF SteadyTimer
<1>21. CASE ReplaceOld
  BY <1>21 DEF ReplaceOld, Unsubscribe
<1>22. CASE Subscribe
  BY <1>22 DEF Subscribe
<1>23. CASE Register
  BY <1>23 DEF Register
<1>24. CASE Leave
  BY <1>24 DEF Leave, Unsubscribe
<1>25. CASE ListFails
  BY <1>25 DEF ListFails, Failed
<1>26. CASE SubscribeFails
  BY <1>26 DEF SubscribeFails
<1> QED  BY <1>1, <1>2, <1>3, <1>4, <1>5, <1>6, <1>7, <1>8, <1>9, <1>10, <1>11, <1>12,
         <1>13, <1>14, <1>15, <1>16, <1>17, <1>18, <1>19, <1>20, <1>21, <1>22, <1>23,
         <1>24, <1>25, <1>26
         DEF Next, Answering, Reading, Observing

\* Every step keeps what is announced behind what has come to be.
LEMMA AnnouncedKept == ObserverTypes /\ WireTypes /\ Announced /\ Next => Announced'
<1> SUFFICES ASSUME ObserverTypes, WireTypes, Announced, Next PROVE Announced'
  OBVIOUS
<1>0a. \A i \in 1..Len(wire) : wire[i] \in Message
  BY DEF WireTypes
<1>0. /\ truth \in Nat /\ told \in Int /\ fresh \in Int /\ wire \in Seq(Message)
      /\ \A i \in 1..Len(wire) : wire[i].version \in Int
  BY <1>0a DEF ObserverTypes, WireTypes, Message
<1> USE DEF connVars, brokerVars, ctlVars, listVars, subVars, viewVars, history
<1>1. CASE Change
  <2>1. CASE wire' = wire
    BY <1>1, <1>0, <2>1 DEF Change, Announced
  <2>2. CASE wire' = Append(wire, Frame("own", truth + 1))
    <3>1. Frame("own", truth + 1) \in Message /\ Frame("own", truth + 1).version = truth + 1
      BY <1>0, Sent
    <3> QED  BY <1>1, <1>0, <2>2, <3>1, Added DEF Change, Announced
  <2> QED  BY <1>1, <2>1, <2>2 DEF Change
<1>2. CASE OtherNotice
  <2>1. Frame("other", -1) \in Message /\ Frame("other", -1).version = -1
    BY Sent
  <2> QED  BY <1>2, <1>0, <2>1, Added DEF OtherNotice, Announced
<1>3. CASE TakeSnapshot \/ AnnounceGeneration \/ Reconnect \/ Publish \/ Top \/ StartList \/
            Drain \/ Install \/ Pause \/ CheckBaseline \/ Watch \/ Recheck \/ SteadyShutdown \/
            SteadyChanged \/ SteadyNotified \/ SteadyTimer \/ Subscribe \/ Register \/
            RequestShutdown
  BY <1>3, <1>0 DEF TakeSnapshot, AnnounceGeneration, Reconnect, Publish, Top, StartList, Drain,
         Failed, Install, Pause, CheckBaseline, Reconnected, Watch, Recheck, SteadyShutdown,
         SteadyChanged, SteadyNotified, SteadyTimer, Subscribe, Register, RequestShutdown,
         Announced
<1>4. CASE SendLastPage
  <2>1. Frame("list", fresh) \in Message /\ Frame("list", fresh).version = fresh
    BY <1>0, Sent
  <2> QED  BY <1>4, <1>0, <2>1, Added DEF SendLastPage, Announced
<1>5. CASE AcceptSubscribe
  <2>1. Frame("subscribed", -1) \in Message /\ Frame("subscribed", -1).version = -1
    BY Sent
  <2> QED  BY <1>5, <1>0, <2>1, Added DEF AcceptSubscribe, Announced
<1>6. CASE Lose \/ CloseConnection
  BY <1>6, <1>0, Empty DEF Lose, CloseConnection, Announced
<1>7. CASE ReadAnswer
  BY <1>7, <1>0, Taken DEF ReadAnswer, Announced
<1>8. CASE ReadNotice
  BY <1>8, <1>0, Taken DEF ReadNotice, Announced
<1>9. CASE ShutDownEarly
  BY <1>9, Rewritten DEF ShutDownEarly, Announced
<1>10. CASE ReplaceOld
  BY <1>10, Rewritten DEF ReplaceOld, Unsubscribe, Disowned, Announced
<1>11. CASE Leave
  BY <1>11, Rewritten DEF Leave, Unsubscribe, Disowned, Announced
<1>12. CASE ListFails
  BY <1>12, Rewritten DEF ListFails, Announced
<1>13. CASE SubscribeFails
  BY <1>13, Rewritten DEF SubscribeFails, GivenUp, Announced
<1> QED  BY <1>1, <1>2, <1>3, <1>4, <1>5, <1>6, <1>7, <1>8, <1>9, <1>10, <1>11, <1>12,
         <1>13
         DEF Next, Answering, Reading, Observing

\* Every step keeps the answer with its request; one that is given up has no list left.
LEMMA OneAnswerKept == ObserverTypes /\ WireTypes /\ OneAnswer /\ Next => OneAnswer'
<1> SUFFICES ASSUME ObserverTypes, WireTypes, OneAnswer, Next PROVE OneAnswer'
  OBVIOUS
<1>0. /\ truth + 1 \in Int /\ fresh \in Int /\ wire \in Seq(Message) /\ pc \in Steps
      /\ asked \in {"no", "first", "rest", "reply"}
  BY DEF ObserverTypes, WireTypes
<1> USE DEF connVars, brokerVars, ctlVars, listVars, subVars, viewVars, history
<1>1. CASE Change
  <2>1. CASE wire' = wire
    BY <1>1, <2>1 DEF Change, OneAnswer
  <2>2. CASE wire' = Append(wire, Frame("own", truth + 1))
    <3>1. Frame("own", truth + 1) \in Message /\ Frame("own", truth + 1).kind = "own"
      BY <1>0, Sent
    <3> QED  BY <1>1, <1>0, <2>2, <3>1, Added DEF Change, OneAnswer
  <2> QED  BY <1>1, <2>1, <2>2 DEF Change
<1>2. CASE OtherNotice
  <2>1. Frame("other", -1) \in Message /\ Frame("other", -1).kind = "other"
    BY <1>0, Sent
  <2> QED  BY <1>2, <1>0, <2>1, Added DEF OtherNotice, OneAnswer
<1>3. CASE TakeSnapshot \/ AnnounceGeneration \/ Reconnect \/ Publish \/ Top \/ StartList \/
            Drain \/ Install \/ Pause \/ CheckBaseline \/ Watch \/ Recheck \/ SteadyShutdown \/
            SteadyChanged \/ SteadyNotified \/ SteadyTimer \/ Subscribe \/ Register \/
            RequestShutdown
  BY <1>3, <1>0 DEF TakeSnapshot, AnnounceGeneration, Reconnect, Publish, Top, StartList, Drain,
         Failed, Install, Pause, CheckBaseline, Reconnected, Watch, Recheck, SteadyShutdown,
         SteadyChanged, SteadyNotified, SteadyTimer, Subscribe, Register, RequestShutdown,
         OneAnswer
<1>4. CASE SendLastPage
  <2>1. Frame("list", fresh) \in Message /\ Frame("list", fresh).kind = "list"
    BY <1>0, Sent
  <2> QED  BY <1>4, <1>0, <2>1, Added DEF SendLastPage, OneAnswer
<1>5. CASE AcceptSubscribe
  <2>1. Frame("subscribed", -1) \in Message /\ Frame("subscribed", -1).kind = "subscribed"
    BY <1>0, Sent
  <2> QED  BY <1>5, <1>0, <2>1, Added DEF AcceptSubscribe, OneAnswer
<1>6. CASE Lose \/ CloseConnection
  BY <1>6, <1>0, Empty DEF Lose, CloseConnection, Retried, OneAnswer
<1>7. CASE ReadAnswer
  BY <1>7, <1>0, Taken DEF ReadAnswer, OneAnswer
<1>8. CASE ReadNotice
  BY <1>8, <1>0, Taken DEF ReadNotice, OneAnswer
<1>9. CASE ShutDownEarly
  BY <1>9, Rewritten DEF ShutDownEarly, OneAnswer
<1>10. CASE ReplaceOld
  BY <1>10, Rewritten DEF ReplaceOld, Unsubscribe, Disowned, OneAnswer
<1>11. CASE Leave
  BY <1>11, Rewritten DEF Leave, Unsubscribe, Disowned, OneAnswer
<1>12. CASE ListFails
  BY <1>12, Rewritten DEF ListFails, OneAnswer
<1>13. CASE SubscribeFails
  BY <1>13, Rewritten DEF SubscribeFails, GivenUp, OneAnswer
<1> QED  BY <1>1, <1>2, <1>3, <1>4, <1>5, <1>6, <1>7, <1>8, <1>9, <1>10, <1>11, <1>12,
         <1>13
         DEF Next, Answering, Reading, Observing

\* Every step keeps the id known: a restore and a registration set it, a replacement
\* ends the subscription before.
LEMMA IdentifiedKept == ObserverTypes /\ Clock /\ Identified /\ Next => Identified'
<1> SUFFICES ASSUME ObserverTypes, Clock, Identified, Next PROVE Identified'
  OBVIOUS
<1> USE DEF ObserverTypes, Steps, Clock, Identified, connVars, brokerVars, ctlVars, listVars,
            subVars, viewVars, history
<1>1. CASE Change \/ OtherNotice \/ TakeSnapshot \/ SendLastPage \/ AnnounceGeneration \/
            ReadNotice \/ Publish \/ RequestShutdown
  BY <1>1 DEF Change, OtherNotice, TakeSnapshot, SendLastPage, AnnounceGeneration, ReadNotice,
         Publish, RequestShutdown
<1>2. CASE AcceptSubscribe
  BY <1>2 DEF AcceptSubscribe
<1>3. CASE Lose
  BY <1>3 DEF Lose, Retried
<1>4. CASE Reconnect
  BY <1>4 DEF Reconnect
<1>5. CASE CloseConnection
  BY <1>5 DEF CloseConnection
<1>6. CASE ReadAnswer
  BY <1>6 DEF ReadAnswer
<1>7. CASE Top
  BY <1>7 DEF Top
<1>8. CASE StartList
  BY <1>8 DEF StartList
<1>9. CASE Drain
  BY <1>9 DEF Drain, Failed
<1>10. CASE Install
  BY <1>10 DEF Install
<1>11. CASE Pause
  BY <1>11 DEF Pause
<1>12. CASE ShutDownEarly
  BY <1>12 DEF ShutDownEarly
<1>13. CASE CheckBaseline
  BY <1>13 DEF CheckBaseline, Reconnected
<1>14. CASE Watch
  BY <1>14 DEF Watch
<1>15. CASE Recheck
  BY <1>15 DEF Recheck, Reconnected
<1>16. CASE SteadyShutdown
  BY <1>16 DEF SteadyShutdown
<1>17. CASE SteadyChanged
  BY <1>17 DEF SteadyChanged, Reconnected
<1>18. CASE SteadyNotified
  BY <1>18 DEF SteadyNotified
<1>19. CASE SteadyTimer
  BY <1>19 DEF SteadyTimer
<1>20. CASE ReplaceOld
  BY <1>20 DEF ReplaceOld, Unsubscribe
<1>21. CASE Subscribe
  BY <1>21 DEF Subscribe
<1>22. CASE Register
  BY <1>22 DEF Register
<1>23. CASE Leave
  BY <1>23 DEF Leave, Unsubscribe
<1>24. CASE ListFails
  BY <1>24 DEF ListFails, Failed
<1>25. CASE SubscribeFails
  BY <1>25 DEF SubscribeFails
<1> QED  BY <1>1, <1>2, <1>3, <1>4, <1>5, <1>6, <1>7, <1>8, <1>9, <1>10, <1>11, <1>12,
         <1>13, <1>14, <1>15, <1>16, <1>17, <1>18, <1>19, <1>20, <1>21, <1>22, <1>23,
         <1>24, <1>25
         DEF Next, Answering, Reading, Observing

\* The answer that ends a LIST is the one it waits for.
LEMMA AnswerListed ==
    ASSUME WireTypes, OneAnswer, wire # <<>>, Head(wire).kind = "list"
    PROVE  pc = "listing" /\ asked = "reply"
<1>1. wire[1] = Head(wire) /\ 1 \in 1..Len(wire)
  BY Taken DEF WireTypes
<1> QED  BY <1>1 DEF OneAnswer

\* Every step keeps a LIST that got an answer in a session that is served, or lost.
LEMMA ServedKept ==
    ObserverTypes /\ WireTypes /\ Clock /\ OneAnswer /\ Served /\ Next => Served'
<1> SUFFICES ASSUME ObserverTypes, WireTypes, Clock, OneAnswer, Served, Next PROVE Served'
  OBVIOUS
<1> USE DEF ObserverTypes, Clock, Served, Listed, Rounds, connVars, brokerVars, ctlVars,
            listVars, subVars, viewVars, history
<1>1. CASE Change \/ OtherNotice \/ AcceptSubscribe \/ AnnounceGeneration \/ ReadNotice \/
            Publish \/ RequestShutdown
  BY <1>1 DEF Change, OtherNotice, AcceptSubscribe, AnnounceGeneration, ReadNotice, Publish,
         RequestShutdown
<1>2. CASE TakeSnapshot
  BY <1>2 DEF TakeSnapshot
<1>3. CASE SendLastPage
  BY <1>3 DEF SendLastPage
<1>4. CASE Lose
  BY <1>4 DEF Lose, Retried
<1>5. CASE Reconnect
  BY <1>5 DEF Reconnect
<1>6. CASE CloseConnection
  BY <1>6 DEF CloseConnection
<1>7. CASE ReadAnswer
  <2>1. Head(wire).kind = "list" => asked = "reply" /\ pc = "listing"
    BY <1>7, AnswerListed DEF ReadAnswer
  <2> QED  BY <1>7, <2>1 DEF ReadAnswer
<1>8. CASE Top
  BY <1>8 DEF Top
<1>9. CASE StartList
  BY <1>9 DEF StartList
<1>10. CASE Drain
  BY <1>10 DEF Drain, Failed
<1>11. CASE Install
  BY <1>11 DEF Install
<1>12. CASE Pause
  BY <1>12 DEF Pause
<1>13. CASE ShutDownEarly
  BY <1>13 DEF ShutDownEarly
<1>14. CASE CheckBaseline
  BY <1>14 DEF CheckBaseline, Reconnected
<1>15. CASE Watch
  BY <1>15 DEF Watch
<1>16. CASE Recheck
  BY <1>16 DEF Recheck, Reconnected
<1>17. CASE SteadyShutdown
  BY <1>17 DEF SteadyShutdown
<1>18. CASE SteadyChanged
  BY <1>18 DEF SteadyChanged, Reconnected
<1>19. CASE SteadyNotified
  BY <1>19 DEF SteadyNotified
<1>20. CASE SteadyTimer
  BY <1>20 DEF SteadyTimer
<1>21. CASE ReplaceOld
  BY <1>21 DEF ReplaceOld, Unsubscribe
<1>22. CASE Subscribe
  BY <1>22 DEF Subscribe
<1>23. CASE Register
  BY <1>23 DEF Register
<1>24. CASE Leave
  BY <1>24 DEF Leave, Unsubscribe
<1>25. CASE ListFails
  BY <1>25 DEF ListFails, Failed
<1>26. CASE SubscribeFails
  BY <1>26 DEF SubscribeFails
<1> QED  BY <1>1, <1>2, <1>3, <1>4, <1>5, <1>6, <1>7, <1>8, <1>9, <1>10, <1>11, <1>12,
         <1>13, <1>14, <1>15, <1>16, <1>17, <1>18, <1>19, <1>20, <1>21, <1>22, <1>23,
         <1>24, <1>25, <1>26
         DEF Next, Answering, Reading, Observing

-----------------------------------------------------------------------------
(* Where a notification is. *)

\* It stays in a queue that grows, and is in the queue it is added to.
LEMMA OwnAdded ==
    ASSUME NEW q \in Seq(Message), NEW f \in Message, NEW g, OwnIn(q, g) \/ Own(f, g)
    PROVE  OwnIn(Append(q, f), g)
<1>1. CASE OwnIn(q, g)
  <2>1. PICK i \in 1..Len(q) : Own(q[i], g)
    BY <1>1 DEF OwnIn
  <2>2. Append(q, f)[i] = q[i] /\ i \in 1..Len(Append(q, f))
    BY Added
  <2> QED  BY <2>1, <2>2 DEF OwnIn
<1>2. CASE Own(f, g)
  <2>1. Append(q, f)[Len(q) + 1] = f /\ Len(q) + 1 \in 1..Len(Append(q, f))
    BY Added
  <2> QED  BY <1>2, <2>1 DEF OwnIn
<1> QED  BY <1>1, <1>2

\* It is the frame taken from a queue or stays in it.
LEMMA OwnTaken ==
    ASSUME NEW q \in Seq(Message), q # <<>>, NEW g, OwnIn(q, g)
    PROVE  Own(Head(q), g) \/ OwnIn(Tail(q), g)
<1>1. PICK i \in 1..Len(q) : Own(q[i], g)
  BY DEF OwnIn
<1>2. CASE i = 1
  BY <1>1, <1>2, Taken
<1>3. CASE i # 1
  <2>1. /\ Len(q) \in Nat /\ Len(Tail(q)) = Len(q) - 1
        /\ \A j \in 1..Len(q) - 1 : Tail(q)[j] = q[j + 1]
    BY Taken
  <2>2. i - 1 \in 1..Len(q) - 1 /\ (i - 1) + 1 = i
    BY <1>3, <2>1
  <2>3. Tail(q)[i - 1] = q[i]
    BY <2>1, <2>2
  <2> QED  BY <1>1, <2>1, <2>2, <2>3 DEF OwnIn
<1> QED  BY <1>2, <1>3

\* It does not get lost when a request is given up.
LEMMA OwnAbandoned ==
    ASSUME WireTypes, NEW g, OwnIn(wire, g)
    PROVE  OwnIn(Abandoned, g)
<1>1. PICK i \in 1..Len(wire) : Own(wire[i], g)
  BY DEF OwnIn
<1>2. Abandoned[i] = wire[i] /\ i \in 1..Len(Abandoned)
  BY <1>1, Rewritten DEF Own
<1> QED  BY <1>1, <1>2 DEF OwnIn

-----------------------------------------------------------------------------
(* What is listed and what is shown. *)

\* Every step keeps a pass ahead of what was read since it noted the epoch.
LEMMA NotOvertakenKept ==
    ObserverTypes /\ WireTypes /\ Clock /\ OneAnswer /\ Announced /\ NotOvertaken /\ Next =>
        NotOvertaken'
<1> SUFFICES ASSUME ObserverTypes, WireTypes, Clock, OneAnswer, Announced, NotOvertaken, Next
             PROVE  NotOvertaken'
  OBVIOUS
<1>0. /\ told <= truth /\ (overtaken = TRUE \/ overtaken = FALSE)
      /\ asked \in {"no", "first", "rest", "reply"} /\ mode \in {"boot", "notified", "timer"}
  BY DEF ObserverTypes, Clock, Announced
<1> USE DEF NotOvertaken, Listed, connVars, brokerVars, ctlVars, listVars, subVars, viewVars,
            history
<1>1. CASE Change \/ OtherNotice \/ SendLastPage \/ AcceptSubscribe \/ AnnounceGeneration \/
            Reconnect \/ CloseConnection \/ Publish \/ RequestShutdown
  BY <1>1, <1>0 DEF Change, OtherNotice, SendLastPage, AcceptSubscribe, AnnounceGeneration,
         Reconnect, CloseConnection, Publish, RequestShutdown
<1>2. CASE TakeSnapshot
  BY <1>2, <1>0 DEF TakeSnapshot
<1>3. CASE Lose
  BY <1>3, <1>0 DEF Lose, Retried
<1>4. CASE ReadAnswer
  BY <1>4, AnswerListed DEF ReadAnswer
<1>5. CASE ReadNotice
  BY <1>5, <1>0 DEF ReadNotice
<1>6. CASE Top \/ StartList \/ Pause \/ ShutDownEarly \/ CheckBaseline \/ Watch \/ Recheck \/
            SteadyShutdown \/ SteadyChanged \/ SteadyNotified \/ SteadyTimer \/ ReplaceOld \/
            Subscribe \/ Register \/ Leave \/ SubscribeFails
  BY <1>6, <1>0 DEF Top, StartList, Pause, ShutDownEarly, CheckBaseline, Reconnected, Watch,
         Recheck, SteadyShutdown, SteadyChanged, SteadyNotified, SteadyTimer, ReplaceOld,
         Unsubscribe, Subscribe, Register, Leave, SubscribeFails
<1>7. CASE Drain
  BY <1>7, <1>0 DEF Drain, Failed
<1>8. CASE Install
  BY <1>8, <1>0 DEF Install
<1>9. CASE ListFails
  BY <1>9, <1>0 DEF ListFails, Failed
<1> QED  BY <1>1, <1>2, <1>3, <1>4, <1>5, <1>6, <1>7, <1>8, <1>9
         DEF Next, Answering, Reading, Observing

\* Every step keeps the evidence of a difference, or removes it together with the claim:
\* a notification moves towards the receiver, an overflow replaces it, a matching one
\* starts another pass, and a restored session is not the one the pass began in.
LEMMA UpToDateKept ==
    ASSUME ObserverTypes, WireTypes, Clock, OneAnswer, Identified, Served, UpToDate, Next
    PROVE  UpToDate'
<1>0. /\ truth + 1 \in Int /\ fresh \in Int /\ generation \in Nat /\ generation + 1 \in Nat
      /\ baseline \in Int /\ baseline <= generation /\ subGen \in Int /\ truth \in Nat
      /\ wire \in Seq(Message) /\ buf \in Seq(Message) /\ publishing \in Message
      /\ (lagged = TRUE \/ lagged = FALSE) /\ (drained = TRUE \/ drained = FALSE)
      /\ (swallowed = TRUE \/ swallowed = FALSE)
      /\ mode \in {"boot", "notified", "timer"} /\ asked \in {"no", "first", "rest", "reply"}
  BY DEF ObserverTypes, WireTypes, Clock
<1>s. Listed \/ Vouched => generation # baseline \/ phase = "live"
  BY DEF Served, Listed, Vouched
<1>i. pc \in {"drain", "steady"} /\ subGen = generation => idGen = generation
  BY DEF Identified
<1> USE DEF UpToDate, Listed, Vouched, Evidence, Notified, Rounds, connVars, brokerVars,
            ctlVars, listVars, subVars, viewVars, history
<1>1. CASE Change
  <2>1. CASE wire' = wire /\ ~(phase = "live" /\ subGen = generation)
    BY <1>1, <1>0, <1>s, <2>1 DEF Change
  <2>2. CASE wire' = Append(wire, Frame("own", truth + 1))
    <3>1. Frame("own", truth + 1) \in Message /\ Own(Frame("own", truth + 1), generation)
      BY <1>0, Sent DEF Own
    <3>2. OwnIn(wire', generation)
      BY <1>0, <2>2, <3>1, OwnAdded
    <3> QED  BY <1>1, <3>2 DEF Change
  <2> QED  BY <1>1, <2>1, <2>2 DEF Change
<1>2. CASE OtherNotice
  <2>1. Frame("other", -1) \in Message
    BY <1>0, Sent
  <2>2. OwnIn(wire, generation) => OwnIn(wire', generation)
    BY <1>2, <1>0, <2>1, OwnAdded DEF OtherNotice
  <2> QED  BY <1>2, <2>2 DEF OtherNotice
<1>3. CASE TakeSnapshot
  BY <1>3, <1>0 DEF TakeSnapshot
<1>4. CASE SendLastPage
  <2>1. Frame("list", fresh) \in Message
    BY <1>0, Sent
  <2>2. OwnIn(wire, generation) => OwnIn(wire', generation)
    BY <1>4, <1>0, <2>1, OwnAdded DEF SendLastPage
  <2> QED  BY <1>4, <2>2 DEF SendLastPage
<1>5. CASE AcceptSubscribe
  BY <1>5 DEF AcceptSubscribe
<1>6. CASE Lose
  BY <1>6, <1>0 DEF Lose
<1>7. CASE AnnounceGeneration \/ CheckBaseline \/ Watch \/ Recheck \/ SteadyChanged \/
            SteadyTimer \/ RequestShutdown
  BY <1>7, <1>0 DEF AnnounceGeneration, CheckBaseline, Reconnected, Watch, Recheck,
         SteadyChanged, SteadyTimer, RequestShutdown
<1>8. CASE Reconnect
  BY <1>8, <1>0, <1>s DEF Reconnect
<1>9. CASE CloseConnection
  BY <1>9, <1>0 DEF CloseConnection
<1>10. CASE ReadAnswer
  <2>1. OwnIn(wire, generation) => OwnIn(wire', generation)
    BY <1>10, <1>0, OwnTaken DEF ReadAnswer, Own
  <2> QED  BY <1>10, <2>1, AnswerListed DEF ReadAnswer
<1>11. CASE ReadNotice
  <2>1. OwnIn(wire, generation) => OwnIn(wire', generation) \/ Own(publishing', generation)
    BY <1>11, <1>0, OwnTaken DEF ReadNotice
  <2>2. ~Own(publishing, generation)
    BY <1>11 DEF ReadNotice, Nothing, Own
  <2> QED  BY <1>11, <2>1, <2>2 DEF ReadNotice
<1>12. CASE Publish
  <2>1. CASE lagged' = TRUE
    BY <1>12, <2>1 DEF Publish
  <2>2. CASE buf' = Append(buf, publishing)
    <3>1. OwnIn(buf, generation) \/ Own(publishing, generation) => OwnIn(buf', generation)
      BY <1>0, <2>2, OwnAdded
    <3> QED  BY <1>12, <2>2, <3>1 DEF Publish
  <2> QED  BY <1>12, <2>1, <2>2 DEF Publish
<1>13. CASE Top \/ ReplaceOld \/ Subscribe \/ Register \/ Leave \/ SubscribeFails \/
            SteadyShutdown
  BY <1>13, <1>0 DEF Top, ReplaceOld, Unsubscribe, Subscribe, Register, Leave, SubscribeFails,
         SteadyShutdown
<1>14. CASE StartList
  BY <1>14, <1>0 DEF StartList
<1>15. CASE Drain
  <2>1. CASE pc' # "install"
    BY <1>15, <1>0, <2>1 DEF Drain, Failed
  <2>2. CASE pc' = "install"
    <3>1. /\ pc = "drain" /\ lagged = FALSE /\ lagged' = FALSE
          /\ \A i \in DOMAIN buf : ~MustMatch(buf[i])
      BY <1>15, <1>0, <2>2 DEF Drain, Failed
    <3>2. OwnIn(buf, generation) => idGen # generation
      BY <1>0, <3>1 DEF OwnIn, Own, MustMatch
    <3> QED  BY <1>15, <1>i, <2>2, <3>1, <3>2 DEF Drain
  <2> QED  BY <2>1, <2>2
<1>16. CASE Install
  BY <1>16, <1>0 DEF Install
<1>17. CASE Pause
  BY <1>17 DEF Pause, Clock
<1>18. CASE ShutDownEarly
  BY <1>18 DEF ShutDownEarly
<1>19. CASE SteadyNotified
  <2>1. CASE pc' # "steady"
    BY <1>19, <2>1 DEF SteadyNotified
  <2>2. CASE pc' = "steady"
    <3>1. /\ pc = "steady" /\ buf # <<>> /\ buf' = Tail(buf) /\ ~MustMatch(Head(buf))
          /\ UNCHANGED <<mode, drained, lagged>>
      BY <1>19, <2>2 DEF SteadyNotified
    <3>2. OwnIn(buf, generation) => OwnIn(buf', generation) \/ idGen # generation
      BY <1>0, <3>1, OwnTaken DEF Own, MustMatch
    <3> QED  BY <1>19, <1>i, <3>1, <3>2 DEF SteadyNotified
  <2> QED  BY <2>1, <2>2
<1>20. CASE ListFails
  <2>1. OwnIn(wire, generation) => OwnIn(wire', generation)
    BY <1>20, OwnAbandoned DEF ListFails
  <2> QED  BY <1>20, <1>0, <2>1 DEF ListFails, Failed
<1> QED  BY <1>1, <1>2, <1>3, <1>4, <1>5, <1>6, <1>7, <1>8, <1>9, <1>10, <1>11, <1>12,
         <1>13, <1>14, <1>15, <1>16, <1>17, <1>18, <1>19, <1>20
         DEF Next, Answering, Reading, Observing

-----------------------------------------------------------------------------
(* The theorems. *)

\* The invariant holds at the start and every step keeps it.
LEMMA ObserverInvariant == Spec => []ObserverInv
<1>1. Init => ObserverInv
  <2> SUFFICES ASSUME Init PROVE ObserverInv
    OBVIOUS
  <2>1. ObserverTypes /\ Clock /\ Identified /\ Served /\ UpToDate /\ NotOvertaken
    BY DEF Init, ObserverTypes, Steps, Clock, Rounds, Identified, Served, Listed, UpToDate,
           Vouched, NotOvertaken
  <2>2. WireTypes /\ OneAnswer /\ Announced
    BY Empty DEF Init, WireTypes, Nothing, Message, OneAnswer, Announced
  <2> QED  BY <2>1, <2>2 DEF ObserverInv
<1>2. ObserverInv /\ [Next]_vars => ObserverInv'
  <2>1. ASSUME ObserverInv, Next PROVE ObserverInv'
    BY <2>1, TypesKept, WireTypesKept, ClockKept, OneAnswerKept, AnnouncedKept, IdentifiedKept,
       ServedKept, UpToDateKept, NotOvertakenKept DEF ObserverInv
  <2>2. ASSUME ObserverInv, UNCHANGED vars PROVE ObserverInv'
    BY <2>2 DEF ObserverInv, ObserverTypes, WireTypes, Clock, OneAnswer, Announced, Identified,
                Served, UpToDate, NotOvertaken, Listed, Vouched, Evidence, Notified, vars,
                connVars, brokerVars, ctlVars, listVars, subVars, viewVars, history
  <2> QED  BY <2>1, <2>2
<1> QED  BY <1>1, <1>2, PTL DEF Spec

\* An observer that only its timer could wake shows the broker's inventory, unless a
\* reconciliation of the timer failed after it had taken a notification.
THEOREM SleepsOnCurrentView == Spec => []AsleepMeansCurrent
<1>1. ObserverInv => AsleepMeansCurrent
  <2> SUFFICES ASSUME ObserverInv, Asleep, ~swallowed PROVE view = truth
    BY DEF AsleepMeansCurrent
  <2>1. /\ pc = "steady" /\ seen = generation /\ subGen = generation
        /\ wire = <<>> /\ publishing = Nothing /\ buf = <<>>
    BY DEF Asleep
  <2>2. swallowed = FALSE /\ lagged = FALSE
    BY DEF ObserverInv, ObserverTypes, Asleep
  <2>3. generation = baseline
    BY <2>1 DEF ObserverInv, ObserverTypes, Clock
  <2>4. ~Notified
    BY <2>1, Empty DEF Notified, OwnIn, Own, Nothing
  <2>5. view = truth \/ Evidence
    BY <2>1, <2>2 DEF ObserverInv, UpToDate, Vouched
  <2> QED  BY <2>1, <2>2, <2>3, <2>4, <2>5 DEF Evidence
<1> QED  BY <1>1, ObserverInvariant, PTL

\* No inventory is installed that is older than a change the connection has read a
\* notification of, whether or not the notification has reached the observer.
THEOREM InstallsNothingSuperseded == Spec => NothingSuperseded
<1>1. ObserverInv /\ [Next]_vars => [view' # view => view' >= told']_vars
  <2> SUFFICES ASSUME ObserverInv, Next, view' # view PROVE view' >= told'
    BY DEF vars
  <2>1. Install
    <3> USE DEF connVars, brokerVars, ctlVars, listVars, subVars, viewVars, history
    <3>1. CASE Next /\ ~Install
      BY <3>1 DEF Next, Answering, Reading, Observing, Change, OtherNotice, TakeSnapshot,
                  SendLastPage, AcceptSubscribe, Lose, AnnounceGeneration,
                  Reconnect, CloseConnection, ReadAnswer, ReadNotice, Publish,
                  Top, StartList, Drain, Pause, ShutDownEarly, CheckBaseline,
                  Watch, Recheck, SteadyShutdown, SteadyChanged, SteadyNotified,
                  SteadyTimer, ReplaceOld, Subscribe, Register, Leave,
                  ListFails, SubscribeFails, RequestShutdown, Unsubscribe
    <3> QED  BY <3>1
  <2>2. pc = "install" /\ overtaken = FALSE /\ view' = fresh /\ told' = told
    BY <2>1 DEF Install, viewVars
  <2>3. told <= fresh
    BY <2>2 DEF ObserverInv, NotOvertaken, Listed
  <2>4. told \in Int /\ fresh \in Int
    BY DEF ObserverInv, ObserverTypes
  <2> QED  BY <2>2, <2>3, <2>4
<1> QED  BY <1>1, ObserverInvariant, PTL DEF Spec, NothingSuperseded
=================================================================================
