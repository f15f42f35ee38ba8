------------------------------- MODULE PeerProofs -------------------------------
(***************************************************************************)
(* Six small machines between the client and the broker: the one           *)
(* cancellation of an RPC call, the heartbeat of a WebSocket session, the  *)
(* pages of a schedule listing, the cut of a TCP stream into frames, the   *)
(* judgement of a frame by its grammar, and routes and patterns.           *)
(***************************************************************************)
EXTENDS RpcCall, Heartbeat, ScheduleListing, TcpFraming, Incoming, Routes,
        FiniteSetTheorems, SequenceTheorems, WellFoundedInduction, TLAPS

-----------------------------------------------------------------------------
(* The one cancellation of an RPC call: whatever the stream, cancel(), the *)
(* drop and the watching tasks do, and in whatever order, for every buffer *)
(* size and any number of sessions.  CancelledOnce does not say why it is  *)
(* kept; the flag does: as long as it is not set nothing was queued.       *)

\* The counters: one command at most, queued or received.
Counted == outbox \in Nat /\ cancels \in Nat /\ CancelledOnce

\* The flag is set before anything is queued or received, and then for good.
Unsent == outbox = 0 /\ cancels = 0
OnceInv == Counted /\ (sent \/ Unsent)

\* Claiming keeps the invariant, whoever claims.
LEMMA ClaimKeeps ==
    ASSUME OnceInv, Claim, UNCHANGED cancels
    PROVE  OnceInv'
<1>1. sent'
  BY DEF Claim
<1>0. Counted /\ cancels' = cancels
  BY DEF OnceInv
<1>2. UNCHANGED outbox => Counted'
  BY <1>0 DEF Counted, CancelledOnce
<1>3. outbox' = outbox + 1 /\ Unsent => Counted'
  BY <1>0 DEF Counted, CancelledOnce, Unsent
<1>4. UNCHANGED outbox \/ (outbox' = outbox + 1 /\ Unsent)
  BY Zenon DEF OnceInv, Claim
<1>5. Counted'
  BY <1>2, <1>3, <1>4
<1> QED
  BY <1>1, <1>5 DEF OnceInv

\* Writing the command moves it from the queue to the broker, or loses it.
LEMMA WriteKeeps ==
    ASSUME OnceInv, WriteCancel
    PROVE  OnceInv'
<1>1. /\ Counted /\ outbox > 0 /\ outbox' = outbox - 1
      /\ cancels' = cancels + 1 \/ cancels' = cancels
  BY DEF OnceInv, WriteCancel
<1>2. Counted'
  BY <1>1 DEF Counted, CancelledOnce
<1>3. ~Unsent
  BY <1>1 DEF Counted, Unsent
<1>4. sent /\ sent' = sent
  BY <1>3, Zenon DEF OnceInv, WriteCancel
<1> QED
  BY <1>2, <1>4 DEF OnceInv

\* Every step keeps the invariant.
LEMMA OnceStep == OnceInv /\ [Next]_vars => OnceInv'
<1> SUFFICES ASSUME OnceInv, [Next]_vars PROVE OnceInv'
  OBVIOUS
<1>q. ASSUME UNCHANGED <<claimVars, cancels>> PROVE OnceInv'
  <2>1. outbox' = outbox /\ cancels' = cancels /\ sent' = sent
    BY <1>q DEF claimVars
  <2>2. Counted' /\ (Unsent => Unsent')
    BY <2>1 DEF OnceInv, Counted, CancelledOnce, Unsent
  <2> QED
    BY <2>1, <2>2, Zenon DEF OnceInv
<1>1. CASE Open
  BY <1>1, <1>q DEF Open, brokerVars
<1>2. CASE QueueRequest \/ WriteRequest \/ SendReturns \/ SendGivenUp
  BY <1>2, <1>q DEF QueueRequest, WriteRequest, SendReturns, SendGivenUp, brokerVars
<1>3. CASE Poll
  <2>1. UNCHANGED cancels
    BY <1>3 DEF Poll, brokerVars
  <2>2. Claim \/ UNCHANGED claimVars
    BY <1>3 DEF Poll
  <2> QED
    BY <2>1, <2>2, <1>q, ClaimKeeps
<1>4. CASE DropStream
  <2>1. UNCHANGED cancels
    BY <1>4 DEF DropStream, brokerVars
  <2>2. Claim \/ UNCHANGED claimVars
    BY <1>4 DEF DropStream
  <2> QED
    BY <2>1, <2>2, <1>q, ClaimKeeps
<1>5. CASE Cancel
  <2>1. Claim /\ UNCHANGED cancels
    BY <1>5 DEF Cancel, brokerVars
  <2> QED
    BY <2>1, ClaimKeeps
<1>6. CASE CancelResult
  BY <1>6, <1>q DEF CancelResult, brokerVars
<1>7. CASE CancelGivesUp
  BY <1>7, <1>q DEF CancelGivesUp, brokerVars
<1>8. CASE CancelDropped
  BY <1>8, <1>q DEF CancelDropped, brokerVars
<1>9. CASE WriteCancel
  BY <1>9, WriteKeeps
<1>10. CASE DeadlineWatch
  <2>1. UNCHANGED cancels
    BY <1>10 DEF DeadlineWatch, brokerVars
  <2>2. Claim \/ UNCHANGED claimVars
    BY <1>10 DEF DeadlineWatch
  <2> QED
    BY <2>1, <2>2, <1>q, ClaimKeeps
<1>11. CASE ParentWatch
  <2>1. UNCHANGED cancels
    BY <1>11 DEF ParentWatch, brokerVars
  <2>2. Claim \/ UNCHANGED claimVars
    BY <1>11 DEF ParentWatch
  <2> QED
    BY <2>1, <2>2, <1>q, ClaimKeeps
<1>12. CASE DeadlinePasses
  BY <1>12, <1>q DEF DeadlinePasses, brokerVars
<1>13. CASE CancelParent
  BY <1>13, <1>q DEF CancelParent, brokerVars
<1>14. CASE BrokerResponds
  BY <1>14, <1>q DEF BrokerResponds, Response
<1>15. CASE OtherResponds
  BY <1>15, <1>q DEF OtherResponds, Response, brokerVars
<1>16. CASE BrokerConfirms
  BY <1>16, <1>q DEF BrokerConfirms
<1>17. CASE Lose
  BY <1>17, <1>q DEF Lose, brokerVars
<1>18. CASE AnnounceGeneration
  BY <1>18, <1>q DEF AnnounceGeneration, brokerVars
<1>19. CASE Reconnect
  BY <1>19, <1>q DEF Reconnect, brokerVars
<1>20. CASE UNCHANGED vars
  BY <1>20, <1>q DEF vars, brokerVars
<1> QED
  BY <1>1, <1>2, <1>3, <1>4, <1>5, <1>6, <1>7, <1>8, <1>9, <1>10, <1>11, <1>12,
     <1>13, <1>14, <1>15, <1>16, <1>17, <1>18, <1>19, <1>20 DEF Next

\* The broker gets at most one cancellation of a call: the flag of
\* send_cancellation_once decides the race of its five users.
THEOREM OneCancellation == Spec => []CancelledOnce
<1>1. Init => OnceInv
  <2>1. Init => outbox = 0 /\ cancels = 0
    BY DEF Init
  <2> QED
    BY <2>1 DEF OnceInv, Counted, Unsent, CancelledOnce
<1>2. OnceInv => CancelledOnce
  BY DEF OnceInv, Counted
<1> QED
  BY <1>1, <1>2, OnceStep, PTL DEF Spec

-----------------------------------------------------------------------------
(* The heartbeat is exact for every pair of intervals.  What makes the     *)
(* property inductive is the sum of the timer and of the time that has     *)
(* passed: it does not change while time goes on, only when a branch of    *)
(* the loop sets the timer.                                                *)

\* The types of the variables; Booleans are compared, for the SMT solver.
HeartbeatTypeOK ==
    /\ loop \in {"select", "writing", "lost", "heartbeat"}
    /\ next \in {"none", "request", "send", "pong", "ping"}
    /\ timer \in Nat
    /\ quiet \in 0..Cap
    /\ pinged \in -1..Cap
    /\ stalled = TRUE \/ stalled = FALSE
    /\ loop = "writing" => next # "none"

\* awaiting_pong is set as long as a ping is unanswered, and no ping is written then.
Awaiting ==
    /\ (awaiting = TRUE /\ pinged >= 0) \/ (awaiting = FALSE /\ pinged = -1)
    /\ loop = "writing" /\ next = "ping" => pinged = -1

\* The unanswered ping will have had one interval when the timer is due.
PingTime == pinged >= 0 => pinged + timer >= Shorter

\* The silence will have lasted one interval, or both after a ping.
QuietTime ==
    loop \in {"select", "writing"} /\ stalled = FALSE =>
        /\ quiet + timer <= Idle + Timeout
        /\ pinged = -1 => quiet + timer <= Idle

AlarmTime == loop = "heartbeat" => pinged >= 0 /\ timer = 0

HeartbeatInv == HeartbeatTypeOK /\ Awaiting /\ PingTime /\ QuietTime /\ AlarmTime

\* The intervals and their sums are numbers, the shorter one is one of them.
LEMMA IntervalsAreNumbers ==
    /\ Idle \in Nat /\ Timeout \in Nat /\ Cap \in Nat
    /\ Shorter \in Nat /\ Shorter <= Idle /\ Shorter <= Timeout
    /\ Cap = Idle + Timeout + 1
BY HeartbeatAssumption DEF Cap, Shorter

\* HeartbeatInit of run_websocket establishes the invariant.
LEMMA HeartbeatStarts == HeartbeatInit => HeartbeatInv
BY IntervalsAreNumbers
   DEF HeartbeatInit, HeartbeatInv, HeartbeatTypeOK, Awaiting, PingTime, QuietTime, AlarmTime

\* Every branch of the select loop keeps it.
LEMMA HeartbeatKept ==
    ASSUME HeartbeatInv, [HeartbeatNext]_heartbeatVars
    PROVE  HeartbeatInv'
<1> USE IntervalsAreNumbers
        DEF HeartbeatInv, HeartbeatTypeOK, Awaiting, PingTime, QuietTime, AlarmTime
<1>1. CASE TakeCommand \/ PeerPings
  BY <1>1 DEF TakeCommand, PeerPings, StartWrite
<1>2. CASE PeerAnswers
  BY <1>2 DEF PeerAnswers, Answers, Restart
<1>3. CASE PeerSendsOther
  BY <1>3 DEF PeerSendsOther, Restart
<1>4. CASE SessionEnds
  BY <1>4 DEF SessionEnds
<1>5. CASE Fire
  BY <1>5 DEF Fire, StartWrite
<1>6. CASE Written
  <2>1. CASE next = "request"
    BY <1>6, <2>1 DEF Written, Answers, Restart
  <2>2. CASE next = "send"
    BY <1>6, <2>2 DEF Written
  <2>3. CASE next = "pong"
    BY <1>6, <2>3 DEF Written, Restart
  <2>4. CASE next = "ping"
    BY <1>6, <2>4 DEF Written
  <2> QED
    BY <1>6, <2>1, <2>2, <2>3, <2>4 DEF Written
<1>7. CASE WriteFails
  BY <1>7 DEF WriteFails
<1>8. CASE Tick
  <2>1. stalled' = TRUE \/ (stalled' = FALSE /\ stalled = FALSE /\ loop = "select")
    BY <1>8 DEF Tick
  <2>2. /\ quiet' \in 0..Cap /\ quiet' <= quiet + 1
        /\ pinged' \in -1..Cap /\ (pinged' = -1 <=> pinged = -1)
        /\ pinged >= 0 => pinged' = pinged + 1 \/ pinged' = Cap
    BY <1>8 DEF Tick, Older
  <2>3. timer' \in Nat /\ timer - 1 <= timer' /\ (loop = "select" => timer' = timer - 1)
    BY <1>8 DEF Tick
  <2> QED
    BY <1>8, <2>1, <2>2, <2>3 DEF Tick
<1>9. CASE UNCHANGED heartbeatVars
  BY <1>9 DEF heartbeatVars
<1> QED
  BY <1>1, <1>2, <1>3, <1>4, <1>5, <1>6, <1>7, <1>8, <1>9 DEF HeartbeatNext

\* The invariant gives both directions of the property.
LEMMA HeartbeatInvExact == HeartbeatInv => HeartbeatExact
BY IntervalsAreNumbers
   DEF HeartbeatInv, HeartbeatTypeOK, Awaiting, PingTime, QuietTime, AlarmTime,
       HeartbeatExact, NoFalseAlarm, SilenceBounded

\* For all intervals, the heartbeat branch of run_websocket ends a session only over a
\* ping left unanswered for an interval, and no silent session outlives both.
THEOREM HeartbeatIsExact == HeartbeatSpec => []HeartbeatExact
<1>1. HeartbeatSpec => []HeartbeatInv
  BY HeartbeatStarts, HeartbeatKept, PTL DEF HeartbeatSpec
<1> QED
  BY <1>1, HeartbeatInvExact, PTL

-----------------------------------------------------------------------------
(* A schedule listing is complete.  The invariant says what the listing    *)
(* has found by the continuation it has reached, and what the page in      *)
(* transit must hold for that to stay true when it is taken.               *)

\* The listing has not ended.
Underway == {"new", "asking", "answered"}

\* The types, and what the history records of the schedules stored now.
ListingTypes ==
    /\ listing \in Underway \cup {"done", "failed"}
    /\ position \in Nat
    /\ found \in [Schedules -> Nat]
    /\ throughout \subseteq stored /\ stored \subseteq sometime /\ sometime \subseteq Schedules
    /\ listing = "new" => position = 0

\* A schedule is found once, when the listing passes it, and not without reason.
FoundOnce ==
    \A s \in Schedules : found[s] > 0 =>
        /\ found[s] = 1 /\ s \in sometime \cap Selected
        /\ listing \in Underway => s <= position

\* The listing has found what it has passed, in the end everything.
Passed ==
    \A s \in throughout \cap Selected :
        listing = "done" \/ (listing \in Underway /\ s <= position) => found[s] = 1

\* The page in transit leaves nothing out of what is there all the time, up to its
\* continuation, and holds nothing that was passed.
PageWhole ==
    listing = "answered" =>
        /\ answer.more = TRUE \/ answer.more = FALSE
        /\ answer.entries \subseteq sometime
        /\ \A s \in answer.entries : s > position
        /\ answer.more = FALSE => {s \in throughout : s > position} \subseteq answer.entries
        /\ answer.more = TRUE /\ ~Stuck(answer) =>
              /\ answer.continuation \in Nat
              /\ \A s \in answer.entries : s <= answer.continuation
              /\ \A s \in throughout :
                    position < s /\ s <= answer.continuation => s \in answer.entries

ListingInv == ListingTypes /\ FoundOnce /\ Passed /\ PageWhole

\* A page of the broker holds what follows the continuation asked for, without a gap:
\* two schedules are on it when one between them is.
LEMMA PageIsWhole ==
    ASSUME stored \subseteq Nat, NEW after \in Nat, NEW page \in PagesAfter(after)
    PROVE  /\ page.more = TRUE \/ page.more = FALSE
           /\ page.entries \subseteq stored
           /\ \A s \in page.entries : s > after
           /\ page.more = FALSE => {s \in stored : s > after} \subseteq page.entries
           /\ page.more = TRUE =>
                 /\ page.continuation \in page.entries
                 /\ \A s \in page.entries : s <= page.continuation
                 /\ \A s \in stored :
                       after < s /\ s <= page.continuation => s \in page.entries
<1> DEFINE rest == {s \in stored : s > after}
           upTo(s) == {r \in rest : r <= s}
           entries == {s \in rest : Cardinality(upTo(s)) <= PageSize}
           ends == {s \in entries : \A r \in entries : r <= s}
<1>1. CASE page = Page(rest, FALSE, 0)
  BY <1>1 DEF Page
<1>2. CASE page \in {Page(entries, TRUE, s) : s \in ends}
  <2>1. PICK c \in ends : page = Page(entries, TRUE, c)
    BY <1>2
  <2>2. page.entries = entries /\ page.more = TRUE /\ page.continuation = c
    BY <2>1 DEF Page
  <2>3. ASSUME NEW s \in stored, after < s, s <= c PROVE s \in entries
    <3>1. IsFiniteSet(upTo(c))
      <4>1. c \in Nat
        BY <2>1
      <4>2. ASSUME NEW r \in upTo(c) PROVE r \in 0..c
        <5>1. r \in Nat /\ r <= c
          OBVIOUS
        <5> QED  BY <4>1, <5>1
      <4>3. IsFiniteSet(0..c)
        BY <4>1, FS_Interval
      <4> HIDE DEF upTo
      <4> QED  BY <4>2, <4>3, FS_Subset
    <3>2. upTo(s) \subseteq upTo(c)
      <4>1. ASSUME NEW r \in upTo(s) PROVE r <= c
        <5>1. r \in Nat /\ r <= s /\ s \in Nat /\ c \in Nat
          BY <2>1
        <5> QED  BY <2>3, <5>1
      <4> QED  BY <4>1
    <3>3. /\ Cardinality(upTo(s)) <= Cardinality(upTo(c))
          /\ Cardinality(upTo(s)) \in Nat /\ Cardinality(upTo(c)) \in Nat
      BY <3>1, <3>2, FS_Subset, FS_CardinalityType
    <3>4. Cardinality(upTo(c)) <= PageSize /\ PageSize \in Nat
      BY <2>1, ListingAssumption
    <3>5. Cardinality(upTo(s)) <= PageSize
      <4> HIDE DEF upTo
      <4> QED  BY <3>3, <3>4
    <3> QED  BY <2>3, <3>5
  <2>4. entries \subseteq stored /\ (\A s \in entries : s > after) /\ c \in entries
        /\ \A s \in entries : s <= c
    BY <2>1
  <2> HIDE DEF entries
  <2> QED  BY <2>2, <2>3, <2>4
<1> QED  BY <1>1, <1>2 DEF PagesAfter

\* create(), create_batch() and cancel() of other clients keep the invariant: what they
\* remove is no longer owed, what they add is not owed yet.
LEMMA ChangesKeep ==
    ASSUME ListingInv,
           \/ \E new \in SUBSET Schedules : CreateSchedules(new)
           \/ \E s \in Schedules : CancelSchedule(s)
    PROVE  ListingInv'
<1>0. Schedules \subseteq Nat /\ Selected \subseteq Schedules
  BY ListingAssumption
<1>1. CASE \E new \in SUBSET Schedules : CreateSchedules(new)
  <2>1. PICK new \in SUBSET Schedules : CreateSchedules(new)
    BY <1>1
  <2>2. /\ listing \in Underway /\ stored' = stored \cup new /\ sometime' = sometime \cup new
        /\ throughout' = IF listing = "new" THEN throughout \cup new ELSE throughout
        /\ UNCHANGED <<listing, position, answer, found>>
    BY <2>1 DEF CreateSchedules, Changing, ListingInv, ListingTypes, Underway
  <2>3. ListingTypes' /\ FoundOnce'
    BY <2>2 DEF ListingInv, ListingTypes, FoundOnce, Underway
  <2>4. Passed'
    <3>1. \A s \in Schedules : listing = "new" => ~(s <= position)
      BY ListingAssumption DEF ListingInv, ListingTypes
    <3> QED  BY <1>0, <2>2, <3>1 DEF ListingInv, ListingTypes, Passed, Underway
  <2>5. PageWhole'
    BY <2>2 DEF ListingInv, ListingTypes, PageWhole, Stuck
  <2> QED  BY <2>3, <2>4, <2>5 DEF ListingInv
<1>2. CASE \E s \in Schedules : CancelSchedule(s)
  <2>1. PICK c \in Schedules : CancelSchedule(c)
    BY <1>2
  <2>2. /\ listing \in Underway /\ stored' = stored \ {c} /\ throughout' = throughout \ {c}
        /\ sometime' = IF listing = "new" THEN sometime \ {c} ELSE sometime
        /\ UNCHANGED <<listing, position, answer, found>>
    BY <2>1 DEF CancelSchedule, Changing, ListingInv, ListingTypes, Underway
  <2>3. ListingTypes'
    BY <2>2 DEF ListingInv, ListingTypes
  <2>4. FoundOnce'
    <3>1. \A s \in Schedules : listing = "new" => ~(s <= position)
      BY ListingAssumption DEF ListingInv, ListingTypes
    <3> QED  BY <2>2, <3>1 DEF ListingInv, ListingTypes, FoundOnce, Underway
  <2>5. Passed' /\ PageWhole'
    BY <2>2 DEF ListingInv, ListingTypes, Passed, PageWhole, Stuck
  <2> QED  BY <2>3, <2>4, <2>5 DEF ListingInv
<1> QED  BY <1>1, <1>2

\* The answer to list_v2() keeps it: a page arrives, whole or one that cannot be continued.
LEMMA AnswerKeeps == ASSUME ListingInv, BrokerAnswers PROVE ListingInv'
<1>0. stored \subseteq Nat /\ position \in Nat /\ throughout \subseteq stored
      /\ stored \subseteq sometime
  BY ListingAssumption DEF ListingInv, ListingTypes
<1>1. /\ listing = "asking" /\ listing' = "answered"
      /\ UNCHANGED <<stored, position, found, throughout, sometime>>
  BY DEF BrokerAnswers
<1>2. ListingTypes' /\ FoundOnce' /\ Passed'
  BY <1>1 DEF ListingInv, ListingTypes, FoundOnce, Passed, Underway
<1>3. CASE answer' \in PagesAfter(position)
  <2>1. /\ answer'.more = TRUE \/ answer'.more = FALSE
        /\ answer'.entries \subseteq stored
        /\ \A s \in answer'.entries : s > position
        /\ answer'.more = FALSE => {s \in stored : s > position} \subseteq answer'.entries
        /\ answer'.more = TRUE =>
              /\ answer'.continuation \in answer'.entries
              /\ \A s \in answer'.entries : s <= answer'.continuation
              /\ \A s \in stored :
                    position < s /\ s <= answer'.continuation => s \in answer'.entries
    BY <1>0, <1>3, PageIsWhole
  <2>2. PageWhole'
    BY <1>0, <1>1, <2>1 DEF PageWhole
  <2> QED  BY <1>2, <2>2 DEF ListingInv
<1>4. CASE answer' = Page({}, TRUE, position)
  <2>1. answer'.more = TRUE /\ answer'.entries = {}
    BY <1>4 DEF Page
  <2>2. PageWhole'
    BY <2>1 DEF PageWhole, Stuck
  <2> QED  BY <1>2, <2>2 DEF ListingInv
<1>5. CASE answer' \in {[page EXCEPT !.continuation = 0] : page \in PagesAfter(position)}
  <2>1. PICK page \in PagesAfter(position) : answer' = [page EXCEPT !.continuation = 0]
    BY <1>5
  <2>2. /\ page.more = TRUE \/ page.more = FALSE
        /\ page.entries \subseteq stored
        /\ \A s \in page.entries : s > position
        /\ page.more = FALSE => {s \in stored : s > position} \subseteq page.entries
    BY <1>0, PageIsWhole
  <2>3. answer'.more = page.more /\ answer'.entries = page.entries /\ answer'.continuation = 0
    BY <2>1 DEF PagesAfter, Page
  <2>4. PageWhole'
    BY <1>0, <1>1, <2>2, <2>3 DEF PageWhole, Stuck
  <2> QED  BY <1>2, <2>4 DEF ListingInv
<1> QED  BY <1>3, <1>4, <1>5 DEF BrokerAnswers

\* The body of the loop of list_by_selector keeps it: what the page holds is new, and
\* what it does not hold lies behind its continuation.
LEMMA TakeKeeps == ASSUME ListingInv, TakePage PROVE ListingInv'
<1>0. Schedules \subseteq Nat /\ Selected \subseteq Schedules
  BY ListingAssumption
<1>1. /\ listing = "answered" /\ found' = Matched(answer.entries)
      /\ listing' \in {"failed", "asking", "done"}
      /\ UNCHANGED <<stored, throughout, sometime>>
  BY DEF TakePage
<1>2. \A s \in Schedules :
         found'[s] = IF s \in answer.entries /\ s \in Selected THEN found[s] + 1 ELSE found[s]
  BY <1>1 DEF Matched
<1>3. found' \in [Schedules -> Nat]
  BY <1>1 DEF Matched, ListingInv, ListingTypes
<1>4. \A s \in Schedules : s \in answer.entries => found[s] = 0 /\ s > position
  BY <1>0, <1>1 DEF ListingInv, ListingTypes, FoundOnce, PageWhole, Underway
<1>5. /\ listing' = "asking" =>
            answer.more = TRUE /\ ~Stuck(answer) /\ position' = answer.continuation
      /\ listing' = "done" => answer.more = FALSE
      /\ listing' # "asking" => position' = position
  BY <1>1 DEF TakePage, Stuck, ListingInv, PageWhole
<1>6. ListingTypes'
  BY <1>1, <1>3, <1>5 DEF ListingInv, ListingTypes, PageWhole, Underway
<1>7. listing' = "asking" =>
         /\ \A s \in Schedules : s <= position => s <= position'
         /\ \A s \in answer.entries : s <= position'
         /\ \A s \in throughout : position < s /\ s <= position' => s \in answer.entries
  <2> SUFFICES ASSUME listing' = "asking" PROVE \A s \in Schedules : s <= position => s <= position'
    BY <1>1, <1>5 DEF ListingInv, PageWhole
  <2>1. PICK e \in answer.entries : e > position /\ e <= position'
    BY <1>1, <1>5 DEF ListingInv, PageWhole, Stuck
  <2>2. e \in Nat /\ position \in Nat /\ position' \in Nat
    BY <1>0, <1>1, <1>6 DEF ListingInv, ListingTypes, PageWhole
  <2> QED  BY <1>0, <2>1, <2>2
<1>8. FoundOnce'
  <2> SUFFICES ASSUME NEW s \in Schedules, found'[s] > 0
               PROVE  /\ found'[s] = 1 /\ s \in sometime' \cap Selected
                      /\ listing' \in Underway => s <= position'
    BY DEF FoundOnce
  <2>1. CASE s \in answer.entries /\ s \in Selected
    BY <1>1, <1>2, <1>4, <1>7, <2>1 DEF ListingInv, PageWhole, Underway
  <2>2. CASE ~(s \in answer.entries /\ s \in Selected)
    BY <1>1, <1>2, <1>7, <2>2 DEF ListingInv, FoundOnce, Underway
  <2> QED  BY <2>1, <2>2
<1>9. Passed'
  <2> SUFFICES ASSUME NEW s \in throughout \cap Selected,
                      listing' = "done" \/ (listing' = "asking" /\ s <= position')
               PROVE  found'[s] = 1
    BY <1>1 DEF Passed, Underway
  <2>0. s \in Schedules /\ s \in Nat /\ position \in Nat
    BY <1>0 DEF ListingInv, ListingTypes
  <2>1. CASE s <= position
    BY <1>1, <1>2, <1>4, <2>0, <2>1 DEF ListingInv, Passed, Underway
  <2>2. CASE s > position
    <3>1. s \in answer.entries
      BY <1>1, <1>5, <1>7, <2>0, <2>2 DEF ListingInv, PageWhole
    <3> QED  BY <1>2, <1>4, <2>0, <3>1
  <2> QED  BY <2>0, <2>1, <2>2
<1>10. PageWhole'
  BY <1>1 DEF PageWhole
<1> QED  BY <1>6, <1>8, <1>9, <1>10 DEF ListingInv

\* Every step of a listing and of its peers keeps the invariant.
LEMMA ListingInvariant == ListingSpec => []ListingInv
<1>1. ListingInit => ListingInv
  BY ListingAssumption DEF ListingInit, ListingInv, ListingTypes, FoundOnce, Passed, PageWhole, Underway
<1>2. ASSUME ListingInv, [ListingNext]_listingVars PROVE ListingInv'
  <2>1. CASE StartListing \/ Replay \/ Undecodable
    BY <1>2, <2>1 DEF StartListing, Replay, Undecodable, ListingInv, ListingTypes, FoundOnce, Passed,
              PageWhole, Underway
  <2>2. CASE UNCHANGED listingVars
    BY <1>2, <2>2 DEF listingVars, ListingInv, ListingTypes, FoundOnce, Passed, PageWhole, Stuck
  <2> QED  BY <1>2, <2>1, <2>2, ChangesKeep, AnswerKeeps, TakeKeeps DEF ListingNext
<1> QED  BY <1>1, <1>2, PTL DEF ListingSpec

\* list_by_selector, when it succeeds, returns every selected schedule that was stored all
\* the time exactly once, and none that was never stored, for every page size, any number
\* of replays and whatever is created and cancelled between the pages.
THEOREM ListingIsComplete == ListingSpec => []ListingComplete
<1>1. ListingInv => ListingComplete
  BY DEF ListingInv, ListingTypes, FoundOnce, Passed, ListingComplete
<1> QED  BY <1>1, ListingInvariant, PTL

-----------------------------------------------------------------------------
(* A TCP session cuts its frames right.  What has arrived and is not       *)
(* delivered, the bytes of the pending read first, is the broker's stream  *)
(* from the beginning of the next frame; the beginnings are the witness.   *)

\* The bytes that have arrived and belong to no delivered frame, the taken ones first.
Ahead == Len(taken) + Len(wire)
ByteAt(i) == IF i <= Len(taken) THEN taken[i] ELSE wire[i - Len(taken)]

\* A byte, of a frame of any number.
Cells == [frame : Nat, at : Nat]

FramingTypes ==
    /\ size \in Seq(Sizes) /\ wire \in Seq(Cells) /\ taken \in Seq(Cells)
    /\ want \in Nat /\ delivered \in Seq(Nat)
    /\ Len(delivered) <= Len(size)

\* The frames begin at the places start[1], start[2], ... of all that was sent, and
\* what is ahead are the bytes of the frames that are not delivered.
Placed(start) ==
    /\ start \in [Nat -> Nat]
    /\ \A f \in 1..Len(size) : start[f + 1] = start[f] + Prefix + size[f]
    /\ \A f, g \in 1..Len(size) + 1 : f <= g => start[f] <= start[g]
    /\ Ahead = start[Len(size) + 1] - start[Len(delivered) + 1]
    /\ \A f \in Len(delivered) + 1..Len(size) : \A k \in 1..Prefix + size[f] :
          ByteAt(start[f] - start[Len(delivered) + 1] + k) = [frame |-> f, at |-> k]

\* The pending read knows the length of the frame it has begun.
Pending ==
    /\ Len(taken) <= Prefix + want
    /\ want # 0 => /\ Len(delivered) < Len(size) /\ want = size[Len(delivered) + 1]
                   /\ Len(taken) >= Prefix

\* The state of a session none of whose reads was torn.
Whole ==
    /\ link = "live" /\ FramingTypes /\ CutRight /\ Pending
    /\ \E start \in [Nat -> Nat] : Placed(start)

\* Nothing is claimed once a read that had taken bytes was dropped.
CutInv == ~torn => Whole

\* What is ahead begins with the frame to be delivered next.
LEMMA NextFrame ==
    ASSUME Whole
    PROVE  /\ Ahead > 0 => Len(delivered) < Len(size)
           /\ Len(delivered) < Len(size) =>
                 /\ Ahead >= Prefix + size[Len(delivered) + 1]
                 /\ size[Len(delivered) + 1] \in Sizes
                 /\ \A k \in 1..Prefix + size[Len(delivered) + 1] :
                       ByteAt(k) = [frame |-> Len(delivered) + 1, at |-> k]
<1>1. PICK start \in [Nat -> Nat] : Placed(start)
  BY DEF Whole
<1>0. FramingTypes
  BY DEF Whole
<1>p. Prefix \in Nat /\ Sizes \subseteq Nat
  BY TcpFramingAssumption
<1>2. Len(delivered) \in Nat /\ Len(size) \in Nat /\ Len(delivered) <= Len(size)
  BY <1>0, LenProperties DEF FramingTypes
<1>s. \A f \in 1..Len(size) : size[f] \in Sizes
  BY <1>0 DEF FramingTypes
<1> DEFINE d == Len(delivered)
           n == Len(size)
<1>3. /\ Ahead = start[n + 1] - start[d + 1]
      /\ \A f \in 1..n : start[f + 1] = start[f] + Prefix + size[f]
      /\ \A f, g \in 1..n + 1 : f <= g => start[f] <= start[g]
      /\ \A f \in d + 1..n : \A k \in 1..Prefix + size[f] :
            ByteAt(start[f] - start[d + 1] + k) = [frame |-> f, at |-> k]
  BY <1>1 DEF Placed
<1> HIDE DEF d, n
<1>4. d \in Nat /\ n \in Nat /\ d <= n /\ start[d + 1] \in Nat /\ start[n + 1] \in Nat
  <2>1. d \in Nat /\ n \in Nat /\ d <= n
    BY <1>2 DEF d, n
  <2>2. d + 1 \in Nat /\ n + 1 \in Nat
    BY <2>1
  <2> QED  BY <2>1, <2>2
<1>5. d = n => Ahead = 0
  BY <1>3, <1>4
<1>6. ASSUME d < n
      PROVE  /\ size[d + 1] \in Sizes /\ Ahead >= Prefix + size[d + 1]
             /\ \A k \in 1..Prefix + size[d + 1] : ByteAt(k) = [frame |-> d + 1, at |-> k]
  <2>1. d + 1 \in 1..n /\ d + 2 \in 1..n + 1 /\ n + 1 \in 1..n + 1 /\ d + 2 <= n + 1
        /\ d + 1 \in d + 1..n /\ (d + 1) + 1 = d + 2
    BY <1>4, <1>6
  <2>2. size[d + 1] \in Sizes /\ size[d + 1] \in Nat
    BY <1>p, <1>s, <2>1 DEF n
  <2>3. start[d + 2] = start[d + 1] + Prefix + size[d + 1] /\ start[d + 2] <= start[n + 1]
    BY <1>3, <2>1
  <2>4. Ahead >= Prefix + size[d + 1]
    <3>1. start[d + 2] \in Nat
      BY <1>4
    <3>2. Ahead = start[n + 1] - start[d + 1]
      BY <1>3
    <3> QED  BY <1>p, <1>4, <2>2, <2>3, <3>1, <3>2
  <2>5. ASSUME NEW k \in 1..Prefix + size[d + 1] PROVE ByteAt(k) = [frame |-> d + 1, at |-> k]
    <3>1. start[d + 1] - start[d + 1] + k = k
      BY <1>p, <1>4, <2>2
    <3>2. ByteAt(start[d + 1] - start[d + 1] + k) = [frame |-> d + 1, at |-> k]
      BY <1>3, <2>1
    <3> QED  BY <3>1, <3>2
  <2> QED  BY <2>2, <2>4, <2>5
<1>7. Ahead > 0 => d < n
  BY <1>4, <1>5
<1> QED  BY <1>6, <1>7 DEF d, n

\* What the broker writes for a frame: the prefix and the payload, byte by byte.
LEMMA FrameBytes ==
    ASSUME NEW f \in Nat, NEW n \in Nat
    PROVE  /\ Bytes(f, n) \in Seq(Cells) /\ Len(Bytes(f, n)) = Prefix + n
           /\ \A i \in 1..Prefix + n : Bytes(f, n)[i] = [frame |-> f, at |-> i]
<1>1. Prefix + n \in Nat
  BY TcpFramingAssumption
<1>2. \A i \in 1..Prefix + n : [frame |-> f, at |-> i] \in Cells
  BY <1>1 DEF Cells
<1>3. Bytes(f, n) \in [1..Prefix + n -> Cells]
  BY <1>1, <1>2 DEF Bytes
<1>4. Bytes(f, n) \in Seq(Cells)
  BY <1>1, <1>3, SeqDef
<1>5. DOMAIN Bytes(f, n) = 1..Prefix + n
  BY DEF Bytes
<1>6. Len(Bytes(f, n)) = Prefix + n
  BY <1>1, <1>4, <1>5, LenProperties
<1> QED  BY <1>4, <1>6 DEF Bytes

\* The numbers the types promise.
LEMMA Numbers ==
    ASSUME FramingTypes
    PROVE  /\ Len(delivered) \in Nat /\ Len(size) \in Nat /\ Len(delivered) <= Len(size)
           /\ Len(taken) \in Nat /\ Len(wire) \in Nat /\ want \in Nat
           /\ Prefix \in Nat /\ Prefix > 0
<1>1. Len(delivered) \in Nat /\ Len(size) \in Nat /\ Len(taken) \in Nat /\ Len(wire) \in Nat
  BY LenProperties DEF FramingTypes
<1>2. Len(delivered) <= Len(size) /\ want \in Nat
  BY DEF FramingTypes
<1> QED  BY <1>1, <1>2, TcpFramingAssumption

\* The frames sent have lengths that read_tcp_frame accepts.
LEMMA SizeOf ==
    ASSUME FramingTypes, NEW f \in 1..Len(size)
    PROVE  size[f] \in Sizes /\ size[f] \in Nat /\ size[f] > 0
<1>1. size[f] \in Sizes
  BY LenProperties DEF FramingTypes
<1>2. Sizes \subseteq Nat \ {0}
  BY TcpFramingAssumption
<1>3. size[f] \in Nat \ {0}
  BY <1>1, <1>2
<1> QED  BY <1>1, <1>3

\* The bytes of the frames that are not delivered have arrived.
LEMMA InRange ==
    ASSUME FramingTypes, NEW start, Placed(start),
           NEW f \in Len(delivered) + 1..Len(size), NEW k \in 1..Prefix + size[f]
    PROVE  /\ f \in 1..Len(size) /\ start[f] \in Nat /\ start[Len(delivered) + 1] \in Nat
           /\ start[f] - start[Len(delivered) + 1] \in Nat
           /\ start[f] - start[Len(delivered) + 1] + k \in 1..Ahead
<1>1. /\ Len(delivered) \in Nat /\ Len(size) \in Nat /\ Prefix \in Nat
  BY Numbers
<1> DEFINE d == Len(delivered)
           L == Len(size)
<1>2. /\ f \in 1..L /\ f \in 1..L + 1 /\ d + 1 \in 1..L + 1 /\ d + 1 <= f /\ f \in Nat /\ d + 1 \in Nat
      /\ f + 1 \in 1..L + 1 /\ L + 1 \in 1..L + 1 /\ f + 1 <= L + 1 /\ f + 1 \in Nat /\ L + 1 \in Nat
  BY <1>1
<1> HIDE DEF d, L
<1>3. size[f] \in Nat
  BY <1>2, SizeOf DEF L
<1>4. start[f] \in Nat /\ start[d + 1] \in Nat /\ start[f + 1] \in Nat /\ start[L + 1] \in Nat
  BY <1>2 DEF Placed
<1>5. start[d + 1] <= start[f] /\ start[f + 1] <= start[L + 1]
  BY <1>2 DEF Placed, L
<1>6. start[f + 1] = start[f] + Prefix + size[f] /\ Ahead = start[L + 1] - start[d + 1]
  BY <1>2 DEF Placed, L, d
<1>7. k \in Nat /\ 1 <= k /\ k <= Prefix + size[f]
  BY <1>1, <1>3
<1>8. start[f] - start[d + 1] \in Nat /\ start[f] - start[d + 1] + k \in 1..Ahead
  <2>1. \A a, b, c, e \in Nat : \A p, z, j \in Nat :
           a <= b /\ c <= e /\ c = b + p + z /\ 1 <= j /\ j <= p + z =>
              b - a \in Nat /\ b - a + j \in 1..e - a
    OBVIOUS
  <2> QED  BY <1>1, <1>3, <1>4, <1>5, <1>6, <1>7, <2>1
<1> QED  BY <1>2, <1>4, <1>8 DEF d, L

\* Bytes that move from the wire to the pending read stay where they are in the stream.
LEMMA SameAhead ==
    ASSUME FramingTypes, NEW start, Placed(start), UNCHANGED <<size, delivered>>,
           Ahead' = Ahead, \A i \in 1..Ahead : ByteAt(i)' = ByteAt(i)
    PROVE  Placed(start)'
<1>1. ASSUME NEW f \in Len(delivered) + 1..Len(size), NEW k \in 1..Prefix + size[f]
      PROVE  ByteAt(start[f] - start[Len(delivered) + 1] + k)' = [frame |-> f, at |-> k]
  <2> DEFINE i == start[f] - start[Len(delivered) + 1] + k
  <2>1. i \in 1..Ahead
    BY InRange
  <2>2. ByteAt(i) = [frame |-> f, at |-> k]
    BY DEF Placed
  <2> QED  BY <2>1, <2>2
<1> QED  BY <1>1 DEF Placed

\* read_exact takes the next byte; the stream ahead of the session does not change.
LEMMA TakeByteKeeps ==
    ASSUME Whole, Take
    PROVE  Whole'
<1>1. PICK start \in [Nat -> Nat] : Placed(start)
  BY DEF Whole
<1>t. FramingTypes
  BY DEF Whole
<1>2. Len(taken) \in Nat /\ Len(wire) \in Nat /\ Prefix \in Nat /\ want \in Nat
  BY <1>t, Numbers
<1>3. /\ wire # <<>> /\ wire \in Seq(Cells) /\ taken \in Seq(Cells)
      /\ taken' = Append(taken, Head(wire)) /\ wire' = Tail(wire)
      /\ Len(taken) < Prefix + want
      /\ UNCHANGED <<link, size, want, delivered>>
  BY <1>t DEF FramingTypes, Take
<1>4. /\ Head(wire) = wire[1] /\ Head(wire) \in Cells /\ wire' \in Seq(Cells)
      /\ Len(wire) # 0 /\ Len(wire') = Len(wire) - 1
      /\ \A i \in 1..Len(wire) - 1 : wire'[i] = wire[i + 1]
  BY <1>3, HeadTailProperties
<1>5. /\ taken' \in Seq(Cells) /\ Len(taken') = Len(taken) + 1
      /\ \A i \in 1..Len(taken) : taken'[i] = taken[i]
      /\ taken'[Len(taken) + 1] = wire[1]
  BY <1>3, <1>4, AppendProperties
<1>6. Ahead' = Ahead
  BY <1>2, <1>4, <1>5 DEF Ahead
<1>7. ASSUME NEW i \in 1..Ahead PROVE ByteAt(i)' = ByteAt(i)
  <2>0. i \in Nat /\ 1 <= i /\ i <= Len(taken) + Len(wire)
    BY <1>2 DEF Ahead
  <2>1. CASE i <= Len(taken)
    BY <1>2, <1>5, <2>0, <2>1 DEF ByteAt
  <2>2. CASE i = Len(taken) + 1
    <3>1. ~(i <= Len(taken)) /\ i - Len(taken) = 1 /\ i <= Len(taken')
      BY <1>2, <1>5, <2>2
    <3> QED  BY <1>5, <2>2, <3>1 DEF ByteAt
  <2>3. CASE i > Len(taken) + 1
    <3>1. /\ ~(i <= Len(taken)) /\ ~(i <= Len(taken')) /\ i - Len(taken') = i - Len(taken) - 1
          /\ i - Len(taken) - 1 \in 1..Len(wire) - 1 /\ i - Len(taken) - 1 + 1 = i - Len(taken)
      <4>1. Len(taken') = Len(taken) + 1
        BY <1>5
      <4>2. \A t, w \in Nat : i > t + 1 /\ i <= t + w =>
               /\ ~(i <= t) /\ ~(i <= t + 1) /\ i - (t + 1) = i - t - 1
               /\ i - t - 1 \in 1..w - 1 /\ i - t - 1 + 1 = i - t
        BY <2>0
      <4> QED  BY <1>2, <2>0, <2>3, <4>1, <4>2
    <3>2. wire'[i - Len(taken) - 1] = wire[i - Len(taken)]
      BY <1>4, <3>1
    <3> QED  BY <3>1, <3>2 DEF ByteAt
  <2>4. i <= Len(taken) \/ i = Len(taken) + 1 \/ i > Len(taken) + 1
    <3>1. \A t \in Nat : i <= t \/ i = t + 1 \/ i > t + 1
      BY <2>0
    <3> QED  BY <1>2, <3>1
  <2> QED  BY <2>1, <2>2, <2>3, <2>4
<1>8. Placed(start)'
  BY <1>1, <1>3, <1>6, <1>7, <1>t, SameAhead
<1>9. FramingTypes' /\ CutRight' /\ link' = "live"
  BY <1>3, <1>4, <1>5 DEF Whole, FramingTypes, CutRight
<1>10. Pending'
  <2>1. Len(taken') <= Prefix + want' /\ (Len(taken) >= Prefix => Len(taken') >= Prefix)
    <3>1. Len(taken') = Len(taken) + 1 /\ Len(taken) < Prefix + want /\ want' = want
      BY <1>3, <1>5
    <3>2. \A t, w, p \in Nat : t < p + w => t + 1 <= p + w /\ (t >= p => t + 1 >= p)
      OBVIOUS
    <3> QED  BY <1>2, <3>1, <3>2
  <2> QED  BY <1>3, <2>1 DEF Whole, Pending
<1> QED  BY <1>8, <1>9, <1>10 DEF Whole

\* A read that has begun has taken bytes of the frame to be delivered next.
LEMMA TakenBytes ==
    ASSUME Whole, Len(taken) > 0
    PROVE  /\ Len(delivered) < Len(size)
           /\ size[Len(delivered) + 1] \in Sizes /\ size[Len(delivered) + 1] \in Nat
           /\ \A i \in 1..Len(taken) : i <= Prefix + size[Len(delivered) + 1] =>
                 taken[i] = [frame |-> Len(delivered) + 1, at |-> i]
<1>t. FramingTypes
  BY DEF Whole
<1>1. /\ Len(delivered) \in Nat /\ Len(size) \in Nat /\ Len(taken) \in Nat /\ Len(wire) \in Nat
      /\ Prefix \in Nat
  BY <1>t, Numbers
<1>2. Ahead > 0
  <2>1. \A t, w \in Nat : t > 0 => t + w > 0
    OBVIOUS
  <2> QED  BY <1>1, <2>1 DEF Ahead
<1>3. Len(delivered) < Len(size)
  BY <1>2, NextFrame
<1>4. size[Len(delivered) + 1] \in Sizes /\ size[Len(delivered) + 1] \in Nat
  <2>1. \A d, n \in Nat : d < n => d + 1 \in 1..n
    OBVIOUS
  <2> QED  BY <1>t, <1>1, <1>3, <2>1, SizeOf
<1>5. ASSUME NEW i \in 1..Len(taken), i <= Prefix + size[Len(delivered) + 1]
      PROVE  taken[i] = [frame |-> Len(delivered) + 1, at |-> i]
  <2>1. i \in 1..Prefix + size[Len(delivered) + 1] /\ i <= Len(taken)
    BY <1>1, <1>4, <1>5
  <2>2. ByteAt(i) = [frame |-> Len(delivered) + 1, at |-> i]
    BY <1>3, <2>1, NextFrame
  <2> QED  BY <2>1, <2>2 DEF ByteAt
<1> QED  BY <1>3, <1>4, <1>5

\* The prefix that read_tcp_frame decodes is the one of the frame to be delivered next.
LEMMA PrefixKeeps ==
    ASSUME Whole, ReadPrefix
    PROVE  Whole'
<1>t. FramingTypes
  BY DEF Whole
<1>0. Prefix \in Nat /\ Prefix > 0
  BY <1>t, Numbers
<1>1. want = 0 /\ Len(taken) = Prefix /\ taken \in Seq(Cells)
  BY <1>t DEF ReadPrefix, FramingTypes
<1> DEFINE d == Len(delivered)
           n == size[d + 1]
<1>d. d \in Nat /\ d + 1 \in Nat
  BY <1>t, Numbers
<1>2. /\ d < Len(size) /\ n \in Sizes /\ n \in Nat
      /\ \A i \in 1..Len(taken) : i <= Prefix + n => taken[i] = [frame |-> d + 1, at |-> i]
  BY <1>0, <1>1, TakenBytes
<1> HIDE DEF d, n
<1>3. \A i \in 1..Prefix : i \in 1..Len(taken) /\ i <= Prefix + n /\ i \in 1..Prefix + n
  BY <1>0, <1>1, <1>2
<1>4. \A i \in 1..Prefix : taken[i] = [frame |-> d + 1, at |-> i]
  BY <1>2, <1>3
<1>5. taken[1].frame = d + 1
  <2>1. 1 \in 1..Prefix
    BY <1>0
  <2>2. taken[1] = [frame |-> d + 1, at |-> 1]
    BY <1>4, <2>1
  <2> QED  BY <2>2
<1>6. taken = SubSeq(Bytes(d + 1, n), 1, Prefix)
  <2>1. /\ Bytes(d + 1, n) \in Seq(Cells)
        /\ \A i \in 1..Prefix + n : Bytes(d + 1, n)[i] = [frame |-> d + 1, at |-> i]
    BY <1>d, <1>2, FrameBytes
  <2>2. \A i \in 1..Prefix : Bytes(d + 1, n)[i] = taken[i]
    BY <1>3, <1>4, <2>1
  <2>3. \A i \in 1..Prefix : Bytes(d + 1, n)[i] \in Cells
    <3>1. \A i \in 1..Prefix : taken[i] \in Cells
      BY <1>1, LenProperties
    <3> QED  BY <2>2, <3>1
  <2> DEFINE p == SubSeq(Bytes(d + 1, n), 1, Prefix)
  <2>4. /\ p \in Seq(Cells) /\ Len(p) = IF 1 <= Prefix THEN Prefix - 1 + 1 ELSE 0
        /\ \A i \in 1..Prefix - 1 + 1 : p[i] = Bytes(d + 1, n)[1 + i - 1]
    BY <1>0, <2>3, SubSeqProperties
  <2> HIDE DEF p
  <2>5. Len(p) = Prefix /\ \A i \in 1..Prefix : p[i] = Bytes(d + 1, n)[i]
    BY <1>0, <2>4
  <2>6. taken = p
    BY <1>1, <2>2, <2>4, <2>5, SeqEqual
  <2> QED  BY <2>6 DEF p
<1>7. Announced(taken) = {n}
  BY <1>5, <1>6 DEF Announced, n
<1>8. want' = n /\ UNCHANGED <<link, size, wire, taken, delivered>>
  BY <1>2, <1>7 DEF ReadPrefix
<1>9. FramingTypes' /\ CutRight' /\ link' = "live"
  BY <1>2, <1>8 DEF Whole, FramingTypes, CutRight
<1>10. Pending'
  <2>1. Len(taken') <= Prefix + want' /\ Len(taken') >= Prefix
    BY <1>0, <1>1, <1>2, <1>8
  <2> QED  BY <1>2, <1>8, <2>1 DEF Pending, d, n
<1>11. PICK start \in [Nat -> Nat] : Placed(start)
  BY DEF Whole
<1>12. Placed(start)'
  <2>1. Ahead' = Ahead /\ \A i \in 1..Ahead : ByteAt(i)' = ByteAt(i)
    BY <1>8 DEF Ahead, ByteAt
  <2> QED  BY <1>t, <1>8, <1>11, <2>1, SameAhead
<1> QED  BY <1>9, <1>10, <1>12 DEF Whole

\* The frame is handed to decode_incoming, and what was behind it is ahead.
LEMMA CompleteKeeps ==
    ASSUME Whole, Complete
    PROVE  Whole'
<1>t. FramingTypes
  BY DEF Whole
<1>0. /\ Prefix \in Nat /\ Prefix > 0 /\ Len(wire) \in Nat /\ want \in Nat
      /\ Len(delivered) \in Nat /\ Len(size) \in Nat
  BY <1>t, Numbers
<1> DEFINE d == Len(delivered)
           n == size[d + 1]
<1>1. want # 0 /\ Len(taken) = Prefix + want /\ want = n /\ taken \in Seq(Cells)
  BY <1>t DEF Complete, FramingTypes, Whole, Pending
<1>2. /\ d < Len(size) /\ n \in Sizes /\ n \in Nat
      /\ \A i \in 1..Len(taken) : i <= Prefix + n => taken[i] = [frame |-> d + 1, at |-> i]
  <2>1. Len(taken) > 0
    BY <1>0, <1>1
  <2> QED  BY <2>1, TakenBytes
<1>d. d \in Nat /\ d + 1 \in Nat /\ d + 1 # 0 /\ d + 1 <= Len(size) /\ d + 1 \in 1..Len(size)
  BY <1>0, <1>2
<1>3. taken = Bytes(d + 1, n)
  <2>1. /\ Bytes(d + 1, n) \in Seq(Cells) /\ Len(Bytes(d + 1, n)) = Prefix + n
        /\ \A i \in 1..Prefix + n : Bytes(d + 1, n)[i] = [frame |-> d + 1, at |-> i]
    BY <1>d, <1>2, FrameBytes
  <2>2. \A i \in 1..Len(taken) : taken[i] = Bytes(d + 1, n)[i]
    <3>1. \A i \in 1..Len(taken) : i <= Prefix + n /\ i \in 1..Prefix + n
      BY <1>0, <1>1
    <3> HIDE DEF d, n
    <3> QED  BY <1>2, <2>1, <3>1
  <2> QED  BY <1>1, <2>1, <2>2, SeqEqual
<1>4. Frame = d + 1
  <2>1. taken[1].frame = d + 1
    <3>1. 1 \in 1..Len(taken) /\ 1 <= Prefix + n
      BY <1>0, <1>1, <1>2
    <3>2. taken[1] = [frame |-> d + 1, at |-> 1]
      BY <1>2, <3>1
    <3> QED  BY <3>2
  <2> QED  BY <1>3, <2>1 DEF Frame
<1>5. /\ delivered' = Append(delivered, d + 1) /\ taken' = <<>> /\ want' = 0
      /\ UNCHANGED <<link, size, wire>>
  BY <1>d, <1>4 DEF Complete
<1>6. /\ delivered' \in Seq(Nat) /\ Len(delivered') = d + 1 /\ delivered'[d + 1] = d + 1
      /\ \A i \in 1..d : delivered'[i] = delivered[i]
  BY <1>d, <1>t, <1>5, AppendProperties DEF FramingTypes
<1>7. FramingTypes' /\ link' = "live" /\ Len(taken') = 0
  BY <1>d, <1>t, <1>5, <1>6 DEF Whole, FramingTypes
<1>8. CutRight'
  <2>1. \A i \in 1..d : delivered[i] = i
    BY DEF Whole, CutRight
  <2>2. \A i \in 1..d + 1 : delivered'[i] = i
    BY <1>d, <1>6, <2>1
  <2>3. DOMAIN delivered' = 1..d + 1
    BY <1>6, LenProperties
  <2>4. delivered' = [i \in 1..d + 1 |-> i]
    BY <1>6, <2>2, <2>3
  <2> QED  BY <1>6, <2>4 DEF CutRight
<1>9. Pending'
  BY <1>0, <1>5, <1>7 DEF Pending
<1>10. PICK start \in [Nat -> Nat] : Placed(start)
  BY DEF Whole
<1>11. PICK e, L, t : /\ e \in Nat /\ e = Len(delivered) /\ L \in Nat /\ L = Len(size)
                      /\ t \in Nat /\ t = Len(taken)
  BY <1>t, Numbers
<1>n. e \in Nat /\ L \in Nat /\ t \in Nat
  BY <1>11
<1> HIDE DEF d, n
<1>12. /\ d = e /\ e + 1 \in 1..L /\ e + 2 \in 1..L + 1 /\ L + 1 \in Nat /\ (e + 1) + 1 = e + 2
       /\ Len(delivered') = e + 1 /\ size' = size /\ wire' = wire /\ Len(taken') = 0
       /\ t = Prefix + size[e + 1]
  <2>1. d = e /\ Len(delivered') = e + 1 /\ size' = size /\ wire' = wire /\ Len(taken') = 0
    BY <1>5, <1>6, <1>7, <1>11 DEF d
  <2>2. e + 1 \in 1..L /\ t = Prefix + size[e + 1]
    BY <1>d, <1>1, <1>11, <2>1 DEF n
  <2>3. \A a, b \in Nat : a + 1 \in 1..b => a + 2 \in 1..b + 1 /\ b + 1 \in Nat /\ (a + 1) + 1 = a + 2
    OBVIOUS
  <2> QED  BY <1>11, <2>1, <2>2, <2>3
<1>13. /\ start[e + 1] \in Nat /\ start[e + 2] \in Nat /\ start[L + 1] \in Nat
       /\ start[e + 2] = start[e + 1] + t /\ Ahead = start[L + 1] - start[e + 1]
  <2>1. start[e + 1] \in Nat /\ start[e + 2] \in Nat /\ start[L + 1] \in Nat
    BY <1>11, <1>12
  <2>2. start[(e + 1) + 1] = start[e + 1] + Prefix + size[e + 1]
        /\ Ahead = start[L + 1] - start[e + 1]
    BY <1>10, <1>11, <1>12 DEF Placed
  <2>3. size[e + 1] \in Nat
    BY <1>t, <1>11, <1>12, SizeOf
  <2>4. \A a, p, w \in Nat : a + p + w = a + (p + w)
    OBVIOUS
  <2>5. start[e + 2] = start[e + 1] + t
    <3>1. start[e + 2] = start[e + 1] + Prefix + size[e + 1] /\ t = Prefix + size[e + 1]
      BY <1>12, <2>2
    <3>2. Prefix \in Nat
      BY <1>0
    <3> QED  BY <2>1, <2>3, <2>4, <3>1, <3>2
  <2> QED  BY <2>1, <2>2, <2>5
<1>14. Ahead' = start[L + 1] - start[e + 2]
  <2>1. Ahead' = Len(wire) /\ Ahead = t + Len(wire)
    BY <1>0, <1>11, <1>12 DEF Ahead
  <2>2. \A a, b, c, u, w \in Nat : b = a + u /\ u + w = c - a => w = c - b
    OBVIOUS
  <2>3. PICK w \in Nat : w = Len(wire)
    BY <1>0
  <2>4. t + w = start[L + 1] - start[e + 1]
    BY <1>13, <2>1, <2>3
  <2>5. w = start[L + 1] - start[e + 2]
    BY <1>n, <1>13, <2>2, <2>4
  <2> QED  BY <2>1, <2>3, <2>5
<1>15. ASSUME NEW f \in e + 2..L, NEW k \in 1..Prefix + size[f]
       PROVE  ByteAt(start[f] - start[e + 2] + k)' = [frame |-> f, at |-> k]
  <2> DEFINE i == start[f] - start[e + 1] + k
             j == start[f] - start[e + 2] + k
  <2>1. /\ f \in e + 1..L /\ f \in 1..L /\ f \in 1..L + 1 /\ e + 2 <= f /\ f \in Nat
    BY <1>n
  <2>2. ByteAt(i) = [frame |-> f, at |-> k]
    BY <1>10, <1>11, <2>1 DEF Placed
  <2>3. start[e + 2] <= start[f] /\ start[f] \in Nat
    BY <1>10, <1>11, <1>12, <2>1 DEF Placed
  <2>4. k \in Nat /\ k >= 1
    <3>1. size[f] \in Nat
      BY <1>t, <1>11, <2>1, SizeOf
    <3> QED  BY <1>0, <3>1
  <2>5. ~(i <= t) /\ i - t = j /\ ~(j <= 0) /\ j - 0 = j
    <3>1. \A a, b, c, u, q \in Nat : b = a + u /\ b <= c /\ q >= 1 =>
             /\ ~(c - a + q <= u) /\ c - a + q - u = c - b + q
             /\ ~(c - b + q <= 0) /\ c - b + q - 0 = c - b + q
      OBVIOUS
    <3> QED  BY <1>n, <1>13, <2>3, <2>4, <3>1
  <2> HIDE DEF i
  <2>6. ByteAt(i) = wire[j]
    BY <1>11, <2>5 DEF ByteAt
  <2>7. ByteAt(j)' = wire[j]
    BY <1>12, <2>5 DEF ByteAt
  <2> QED  BY <2>2, <2>6, <2>7
<1>16. Placed(start)'
  <2>1. Len(delivered') + 1 = e + 2 /\ Len(size') = L
    BY <1>11, <1>12
  <2>2. /\ \A f \in 1..Len(size') : start[f + 1] = start[f] + Prefix + size'[f]
        /\ \A f, g \in 1..Len(size') + 1 : f <= g => start[f] <= start[g]
    BY <1>10, <1>12 DEF Placed
  <2>3. Ahead' = start[Len(size') + 1] - start[Len(delivered') + 1]
    BY <1>14, <2>1
  <2>4. (\A f \in Len(delivered) + 1..Len(size) : \A k \in 1..Prefix + size[f] :
            ByteAt(start[f] - start[Len(delivered) + 1] + k) = [frame |-> f, at |-> k])'
    <3> SUFFICES ASSUME NEW f \in e + 2..L, NEW k \in 1..Prefix + size[f]
                 PROVE  ByteAt(start[f] - start[Len(delivered) + 1] + k)' = [frame |-> f, at |-> k]
      BY <1>12, <2>1
    <3>1. ByteAt(start[f] - start[e + 2] + k)' = [frame |-> f, at |-> k]
      BY <1>15
    <3> QED  BY <2>1, <3>1 DEF ByteAt
  <2> QED  BY <1>10, <2>2, <2>3, <2>4 DEF Placed
<1> QED  BY <1>7, <1>8, <1>9, <1>16 DEF Whole

\* A frame the broker writes comes behind all that is ahead.
LEMMA SendKeeps ==
    ASSUME Whole, NEW n \in Sizes, BrokerSends(n)
    PROVE  Whole'
<1>t. FramingTypes
  BY DEF Whole
<1>p. Prefix \in Nat /\ n \in Nat
  BY TcpFramingAssumption
<1>1. PICK start \in [Nat -> Nat] : Placed(start)
  BY DEF Whole
<1>2. PICK e, L, t, w : /\ e \in Nat /\ e = Len(delivered) /\ L \in Nat /\ L = Len(size) /\ e <= L
                        /\ t \in Nat /\ t = Len(taken) /\ w \in Nat /\ w = Len(wire)
  BY <1>t, Numbers
<1>n. e \in Nat /\ L \in Nat /\ t \in Nat /\ w \in Nat /\ e <= L
  BY <1>2
<1>3. /\ size' = Append(size, n) /\ wire' = wire \o Bytes(L + 1, n)
      /\ UNCHANGED <<link, taken, want, delivered>>
  BY <1>2 DEF BrokerSends
<1>4. /\ size' \in Seq(Sizes) /\ Len(size') = L + 1 /\ size'[L + 1] = n
      /\ \A f \in 1..L : size'[f] = size[f]
  BY <1>t, <1>2, <1>3, AppendProperties DEF FramingTypes
<1>5. /\ Bytes(L + 1, n) \in Seq(Cells) /\ Len(Bytes(L + 1, n)) = Prefix + n
      /\ \A k \in 1..Prefix + n : Bytes(L + 1, n)[k] = [frame |-> L + 1, at |-> k]
  <2>1. L + 1 \in Nat
    BY <1>n
  <2> QED  BY <1>p, <2>1, FrameBytes
<1>6. /\ wire' \in Seq(Cells) /\ Len(wire') = w + (Prefix + n)
      /\ \A i \in 1..w + (Prefix + n) :
            wire'[i] = IF i <= w THEN wire[i] ELSE Bytes(L + 1, n)[i - w]
  <2>1. wire \in Seq(Cells)
    BY <1>t DEF FramingTypes
  <2> DEFINE b == Bytes(L + 1, n)
  <2>2. b \in Seq(Cells) /\ Len(b) = Prefix + n
    BY <1>5
  <2> HIDE DEF b
  <2>3. /\ wire \o b \in Seq(Cells) /\ Len(wire \o b) = Len(wire) + Len(b)
        /\ \A i \in 1..Len(wire) + Len(b) :
              (wire \o b)[i] = IF i <= Len(wire) THEN wire[i] ELSE b[i - Len(wire)]
    BY <2>1, <2>2, ConcatProperties
  <2>4. wire' = wire \o b /\ Len(wire) = w
    BY <1>2, <1>3 DEF b
  <2>5. /\ wire' \in Seq(Cells) /\ Len(wire') = w + (Prefix + n)
        /\ \A i \in 1..w + (Prefix + n) : wire'[i] = IF i <= w THEN wire[i] ELSE b[i - w]
    BY <2>2, <2>3, <2>4
  <2> QED  BY <2>5 DEF b
<1>7. FramingTypes' /\ CutRight' /\ link' = "live"
  <2>1. Len(delivered') <= Len(size')
    <3>1. \A a, b \in Nat : a <= b => a <= b + 1
      OBVIOUS
    <3> QED  BY <1>2, <1>3, <1>4, <3>1
  <2> QED  BY <1>t, <1>3, <1>4, <1>6, <2>1 DEF Whole, FramingTypes, CutRight
<1>8. Pending'
  <2>1. ASSUME want # 0 PROVE e < L + 1 /\ want = size'[e + 1]
    <3>1. e < L /\ want = size[e + 1]
      BY <1>2, <2>1 DEF Whole, Pending
    <3>2. e + 1 \in 1..L /\ e < L + 1
      BY <1>n, <3>1
    <3> QED  BY <1>4, <3>1, <3>2
  <2> QED  BY <1>2, <1>3, <1>4, <2>1 DEF Whole, Pending
<1> DEFINE new == [start EXCEPT ![L + 2] = start[L + 1] + Prefix + n]
<1>9. /\ new \in [Nat -> Nat] /\ new[L + 2] = start[L + 1] + Prefix + n
      /\ \A f \in 1..L + 1 : new[f] = start[f] /\ start[f] \in Nat
      /\ L + 1 \in 1..L + 1 /\ e + 1 \in 1..L + 1
  <2>1. L + 2 \in Nat /\ L + 1 \in 1..L + 1 /\ e + 1 \in 1..L + 1 /\ L + 1 \in Nat
    BY <1>n
  <2>2. start[L + 1] + Prefix + n \in Nat
    BY <1>p, <2>1
  <2>3. \A f \in 1..L + 1 : f \in Nat /\ f # L + 2
    BY <1>n
  <2> QED  BY <2>1, <2>2, <2>3
<1> HIDE DEF new
<1>10. ASSUME NEW f \in 1..L + 1 PROVE new[f + 1] = new[f] + Prefix + size'[f]
  <2>1. CASE f = L + 1
    <3>1. f + 1 = L + 2
      BY <1>n, <2>1
    <3> QED  BY <1>4, <1>9, <2>1, <3>1
  <2>2. CASE f # L + 1
    <3>1. f \in 1..L /\ f + 1 \in 1..L + 1
      BY <1>n, <2>2
    <3>2. start[f + 1] = start[f] + Prefix + size[f]
      BY <1>1, <1>2, <3>1 DEF Placed
    <3> QED  BY <1>4, <1>9, <3>1, <3>2
  <2> QED  BY <2>1, <2>2
<1>11. ASSUME NEW f \in 1..L + 2, NEW g \in 1..L + 2, f <= g PROVE new[f] <= new[g]
  <2>1. \A a, b \in 1..L + 1 : a <= b => start[a] <= start[b]
    BY <1>1, <1>2 DEF Placed
  <2>2. CASE g # L + 2
    <3>1. f \in 1..L + 1 /\ g \in 1..L + 1
      BY <1>n, <1>11, <2>2
    <3> QED  BY <1>9, <1>11, <2>1, <3>1
  <2>3. CASE g = L + 2 /\ f # L + 2
    <3>1. f \in 1..L + 1 /\ f <= L + 1
      BY <1>n, <2>3
    <3>2. start[f] <= start[L + 1] /\ start[f] \in Nat /\ start[L + 1] \in Nat
      BY <1>9, <2>1, <3>1
    <3>3. \A a, b, p, q \in Nat : a <= b => a <= b + p + q
      OBVIOUS
    <3>4. start[f] <= start[L + 1] + Prefix + n
      BY <1>p, <3>2, <3>3
    <3> QED  BY <1>9, <2>3, <3>1, <3>4
  <2>4. CASE g = L + 2 /\ f = L + 2
    <3>1. L + 2 \in Nat
      BY <1>n
    <3>2. new[L + 2] \in Nat
      BY <1>9, <3>1
    <3> QED  BY <2>4, <3>2
  <2> QED  BY <2>2, <2>3, <2>4
<1>12. start[L + 1] \in Nat /\ start[e + 1] \in Nat /\ t + w = start[L + 1] - start[e + 1]
  BY <1>1, <1>2, <1>9 DEF Placed, Ahead
<1>13. Ahead' = new[L + 2] - new[e + 1]
  <2>1. Ahead' = t + (w + (Prefix + n))
    BY <1>2, <1>3, <1>6 DEF Ahead
  <2>2. \A a, b, p, q, u, v \in Nat : u + v = b - a => u + (v + (p + q)) = (b + p + q) - a
    OBVIOUS
  <2>3. t + (w + (Prefix + n)) = (start[L + 1] + Prefix + n) - start[e + 1]
    BY <1>n, <1>p, <1>12, <2>2
  <2>4. new[L + 2] = start[L + 1] + Prefix + n /\ new[e + 1] = start[e + 1]
    BY <1>9
  <2> QED  BY <2>1, <2>3, <2>4
<1>14. ASSUME NEW f \in e + 1..L + 1, NEW k \in 1..Prefix + size'[f]
       PROVE  ByteAt(new[f] - new[e + 1] + k)' = [frame |-> f, at |-> k]
  <2>0. f \in 1..L + 1 /\ new[f] = start[f] /\ new[e + 1] = start[e + 1]
    <3>1. f \in 1..L + 1
      BY <1>n
    <3> QED  BY <1>9, <3>1
  <2> DEFINE i == start[f] - start[e + 1] + k
  <2>1. CASE f # L + 1
    <3>1. f \in 1..L /\ f \in e + 1..L
      BY <1>n, <2>1
    <3>2. size'[f] = size[f]
      BY <1>4, <3>1
    <3>3. ByteAt(i) = [frame |-> f, at |-> k]
      BY <1>1, <1>2, <3>1, <3>2 DEF Placed
    <3>4. i \in 1..Ahead
      BY <1>t, <1>1, <1>2, <3>1, <3>2, InRange
    <3>5. i \in 1..t + w
      BY <1>2, <3>4 DEF Ahead
    <3> HIDE DEF i
    <3>6. i <= t \/ (~(i <= t) /\ i - t \in 1..w + (Prefix + n) /\ i - t <= w)
      BY <1>n, <1>p, <3>5
    <3>7. ByteAt(i)' = ByteAt(i)
      <4>1. i' = i
        BY DEF i
      <4> QED  BY <1>2, <1>3, <1>6, <3>6, <4>1 DEF ByteAt
    <3> QED  BY <2>0, <3>3, <3>7 DEF i
  <2>2. CASE f = L + 1
    <3>1. k \in 1..Prefix + n
      BY <1>4, <2>2
    <3>2. i = t + w + k
      BY <1>12, <2>2
    <3> HIDE DEF i
    <3>3. /\ ~(i <= t) /\ i - t = w + k /\ w + k \in 1..w + (Prefix + n) /\ ~(w + k <= w)
          /\ (w + k) - w = k
      BY <1>n, <1>p, <3>1, <3>2
    <3>4. wire'[i - t] = [frame |-> L + 1, at |-> k]
      <4>1. wire'[w + k] = Bytes(L + 1, n)[(w + k) - w]
        BY <1>6, <3>3
      <4>2. Bytes(L + 1, n)[k] = [frame |-> L + 1, at |-> k]
        BY <1>5, <3>1
      <4> QED  BY <3>3, <4>1, <4>2
    <3>5. ByteAt(i)' = [frame |-> f, at |-> k]
      <4>1. i' = i
        BY DEF i
      <4> QED  BY <1>2, <1>3, <2>2, <3>3, <3>4, <4>1 DEF ByteAt
    <3> QED  BY <2>0, <3>5 DEF i
  <2> QED  BY <2>1, <2>2
<1>15. Placed(new)'
  <2>1. Len(delivered') + 1 = e + 1 /\ Len(size') = L + 1 /\ Len(size') + 1 = L + 2
    <3>1. \A a \in Nat : (a + 1) + 1 = a + 2
      OBVIOUS
    <3> QED  BY <1>2, <1>3, <1>4, <3>1
  <2>2. /\ \A f \in 1..Len(size') : new[f + 1] = new[f] + Prefix + size'[f]
        /\ \A f, g \in 1..Len(size') + 1 : f <= g => new[f] <= new[g]
    BY <1>10, <1>11, <2>1
  <2>3. Ahead' = new[Len(size') + 1] - new[Len(delivered') + 1]
    BY <1>13, <2>1
  <2>4. (\A f \in Len(delivered) + 1..Len(size) : \A k \in 1..Prefix + size[f] :
            ByteAt(new[f] - new[Len(delivered) + 1] + k) = [frame |-> f, at |-> k])'
    <3> SUFFICES ASSUME NEW f \in e + 1..L + 1, NEW k \in 1..Prefix + size'[f]
                 PROVE  ByteAt(new[f] - new[Len(delivered) + 1] + k)' = [frame |-> f, at |-> k]
      BY <2>1
    <3>1. ByteAt(new[f] - new[e + 1] + k)' = [frame |-> f, at |-> k]
      BY <1>14
    <3> QED  BY <2>1, <3>1 DEF ByteAt
  <2>5. new' = new
    BY DEF new
  <2> QED  BY <1>9, <2>2, <2>3, <2>4, <2>5 DEF Placed
<1> QED  BY <1>7, <1>8, <1>9, <1>15 DEF Whole

\* A branch of the select wins over a read that has taken nothing: it is begun again.
LEMMA InterruptKeeps ==
    ASSUME Whole, Interrupt, taken = <<>>
    PROVE  Whole'
<1>t. FramingTypes
  BY DEF Whole
<1>1. taken' = taken /\ want' = 0 /\ UNCHANGED <<link, size, wire, delivered>>
  BY DEF Interrupt
<1>2. FramingTypes' /\ CutRight' /\ link' = "live"
  BY <1>t, <1>1 DEF Whole, FramingTypes, CutRight
<1>3. Pending'
  <2>1. Len(taken') = 0 /\ Prefix \in Nat
    BY <1>t, <1>1, Numbers
  <2> QED  BY <1>1, <2>1 DEF Pending
<1>4. PICK start \in [Nat -> Nat] : Placed(start)
  BY DEF Whole
<1>5. Placed(start)'
  <2>1. Ahead' = Ahead /\ \A i \in 1..Ahead : ByteAt(i)' = ByteAt(i)
    BY <1>1 DEF Ahead, ByteAt
  <2> QED  BY <1>t, <1>1, <1>4, <2>1, SameAhead
<1> QED  BY <1>2, <1>3, <1>5 DEF Whole

\* Every step of a TCP session keeps the invariant.
LEMMA CutInvariant == FramingSpec => []CutInv
<1>1. FramingInit => CutInv
  <2> SUFFICES ASSUME FramingInit PROVE Whole
    BY DEF CutInv
  <2>1. /\ Len(size) = 0 /\ Len(wire) = 0 /\ Len(taken) = 0 /\ Len(delivered) = 0
        /\ link = "live" /\ want = 0
    BY DEF FramingInit
  <2>2. FramingTypes
    BY <2>1 DEF FramingInit, FramingTypes
  <2>3. CutRight
    BY <2>1 DEF FramingInit, CutRight
  <2>4. Pending
    BY <2>1, TcpFramingAssumption DEF Pending
  <2>5. [m \in Nat |-> 0] \in [Nat -> Nat]
    OBVIOUS
  <2>6. Placed([m \in Nat |-> 0])
    BY <2>1, <2>5 DEF Placed, Ahead
  <2> QED  BY <2>1, <2>2, <2>3, <2>4, <2>5, <2>6 DEF Whole
<1>2. CutInv /\ [FramingNext]_framingVars => CutInv'
  <2> SUFFICES ASSUME CutInv, [FramingNext]_framingVars, ~torn' PROVE Whole'
    BY DEF CutInv
  <2>1. CASE \E n \in Sizes : BrokerSends(n)
    <3>1. PICK n \in Sizes : BrokerSends(n)
      BY <2>1
    <3>2. Whole
      BY <3>1 DEF CutInv, BrokerSends
    <3> QED  BY <3>1, <3>2, SendKeeps
  <2>2. CASE Take
    <3>1. Whole
      BY <2>2 DEF CutInv, Take
    <3> QED  BY <2>2, <3>1, TakeByteKeeps
  <2>3. CASE ReadPrefix
    <3>1. Whole
      BY <2>3 DEF CutInv, ReadPrefix, EndSession
    <3> QED  BY <2>3, <3>1, PrefixKeeps
  <2>4. CASE Complete
    <3>1. Whole
      BY <2>4 DEF CutInv, Complete, EndSession
    <3> QED  BY <2>4, <3>1, CompleteKeeps
  <2>5. CASE Interrupt
    <3>1. taken = <<>> /\ ~torn
      BY <2>5 DEF Interrupt
    <3>2. Whole
      BY <3>1 DEF CutInv
    <3> QED  BY <2>5, <3>1, <3>2, InterruptKeeps
  <2>6. CASE UNCHANGED framingVars
    <3>1. Whole
      BY <2>6 DEF CutInv, framingVars
    <3>2. UNCHANGED <<link, size, wire, taken, want, delivered>>
      BY <2>6 DEF framingVars
    <3>3. PICK start \in [Nat -> Nat] : Placed(start)
      BY <3>1 DEF Whole
    <3>4. Ahead' = Ahead /\ \A i \in 1..Ahead : ByteAt(i)' = ByteAt(i)
      BY <3>2 DEF Ahead, ByteAt
    <3>5. Placed(start)'
      BY <3>1, <3>2, <3>3, <3>4, SameAhead DEF Whole
    <3> QED  BY <3>1, <3>2, <3>5 DEF Whole, FramingTypes, CutRight, Pending
  <2> QED  BY <2>1, <2>2, <2>3, <2>4, <2>5, <2>6 DEF FramingNext
<1> QED  BY <1>1, <1>2, PTL DEF FramingSpec

\* As long as no branch of run_io's select drops a read_tcp_frame that has taken bytes, the
\* frames are cut where the broker cut them: for every prefix and frame length, any number
\* of frames and commands, and any portions in which the bytes arrive.
THEOREM FramesCutRight == FramingSpec => []CutRightUnlessTorn
<1>1. CutInv => CutRightUnlessTorn
  <2> SUFFICES ASSUME Whole PROVE link = "live" /\ CutRight /\ (Drained => Len(delivered) = Len(size))
    BY DEF CutInv, CutRightUnlessTorn
  <2>1. ASSUME Drained PROVE Len(delivered) = Len(size)
    <3>1. Ahead = 0
      BY <2>1 DEF Drained, Ahead
    <3>2. /\ Len(delivered) \in Nat /\ Len(size) \in Nat /\ Len(delivered) <= Len(size)
          /\ Prefix \in Nat /\ Prefix > 0
      BY Numbers DEF Whole
    <3>3. ~(Len(delivered) < Len(size))
      <4> SUFFICES ASSUME Len(delivered) < Len(size) PROVE FALSE
        OBVIOUS
      <4>1. Ahead >= Prefix + size[Len(delivered) + 1] /\ size[Len(delivered) + 1] \in Nat
        BY NextFrame, TcpFramingAssumption
      <4> QED  BY <3>1, <3>2, <4>1
    <3> QED  BY <3>2, <3>3
  <2> QED  BY <2>1 DEF Whole
<1> QED  BY <1>1, CutInvariant, PTL

-----------------------------------------------------------------------------
(* Frames, before they are dispatched.  The grammar asks for a cut of the   *)
(* payload into fields; decode's loop finds it from left to right.  What    *)
(* the loop has read so far is part of every cut there can be: so when it   *)
(* refuses there is none, and when it ends it has found the only one.       *)

\* The cells of a payload are numbers.
Numbered(p) == Len(p) \in Nat /\ \A i \in 1..Len(p) : p[i] \in Nat

\* R is a cut into fields of the cells from place a up to place c.
PartCut(p, a, c, R) ==
    /\ R \in SUBSET (a..c)
    /\ a \in R \cup {c + 1}
    /\ \A s \in R : \E j \in R \cup {c + 1} :
          FieldAt(p, s, j) /\ ~\E t \in R : s < t /\ t < j

\* Every cut of the whole is R as far as place c, and has a field starting after it.
OnlyCut(p, a, c, R) ==
    \A starts \in SUBSET (a..Len(p)) : CutsInto(p, a, starts) =>
        R = {s \in starts : s <= c} /\ c + 1 \in starts \cup {Len(p) + 1}

\* decode's loop stands after place c.
CutAt(p, a, c, R) ==
    /\ a \in Nat \ {0} /\ c \in Nat /\ a <= c + 1 /\ c <= Len(p) /\ a <= Len(p)
    /\ PartCut(p, a, c, R) /\ OnlyCut(p, a, c, R)

\* The value of the field at s.
ValueAt(p, s) == SubSeq(p, s + 2, s + 1 + p[s + 1])

\* The lists of capabilities of a HELLO: whether there was one, only one, and well formed.
ListsIn(p, R, present) ==
    /\ present <=> \E s \in R : p[s] = 1
    /\ \A s, t \in R : p[s] = 1 /\ p[t] = 1 => s = t
    /\ \A s \in R : p[s] = 1 => ListOk(ValueAt(p, s))

\* The grammar's condition on a HELLO.
OneList(p, starts) ==
    /\ Cardinality({s \in starts : p[s] = 1}) = 1
    /\ \A s \in starts : p[s] = 1 => ListOk(ValueAt(p, s))

\* The envelope, in these words.
LEMMA EnvelopeIs ==
    ASSUME NEW p, NEW type
    PROVE  Envelope(p, type) <=>
              /\ Len(p) > 0 /\ 1 + p[1] < Len(p)
              /\ \E starts \in SUBSET ((2 + p[1])..Len(p)) :
                    CutsInto(p, 2 + p[1], starts) /\ (type = "HELLO" => OneList(p, starts))
BY DEF Envelope, OneList, ValueAt

\* Before the first field nothing is cut.
LEMMA NothingCut ==
    ASSUME NEW p, Numbered(p), NEW a \in Nat \ {0}, a <= Len(p)
    PROVE  CutAt(p, a, a - 1, {})
<1>0. Len(p) \in Nat /\ a - 1 \in Nat /\ (a - 1) + 1 = a
  BY DEF Numbered
<1>1. PartCut(p, a, a - 1, {})
  BY <1>0 DEF PartCut
<1>2. OnlyCut(p, a, a - 1, {})
  <2> SUFFICES ASSUME NEW starts \in SUBSET (a..Len(p)), CutsInto(p, a, starts)
               PROVE  {} = {s \in starts : s <= a - 1} /\ (a - 1) + 1 \in starts \cup {Len(p) + 1}
    BY DEF OnlyCut
  <2>1. a \in starts
    BY DEF CutsInto
  <2>2. \A s \in starts : ~(s <= a - 1)
    BY <1>0
  <2> QED  BY <1>0, <2>1, <2>2
<1> QED  BY <1>0, <1>1, <1>2 DEF CutAt

\* Where a field starts in every cut: it is whole.
LEMMA NextStart ==
    ASSUME NEW p, Numbered(p), NEW a, NEW c, NEW R, CutAt(p, a, c, R), c < Len(p),
           NEW starts \in SUBSET (a..Len(p)), CutsInto(p, a, starts)
    PROVE  /\ c + 1 \in starts /\ R = {s \in starts : s <= c}
           /\ c + 2 <= Len(p) /\ p[c + 1] # 0 /\ p[c + 2] \in Nat
           /\ (c + 2) + p[c + 2] <= Len(p)
           /\ ((c + 2) + p[c + 2]) + 1 \in starts \cup {Len(p) + 1}
           /\ ~\E t \in starts : c + 1 < t /\ t < ((c + 2) + p[c + 2]) + 1
<1>0. Len(p) \in Nat /\ a \in Nat /\ c \in Nat
  BY DEF Numbered, CutAt
<1>1. R = {s \in starts : s <= c} /\ c + 1 \in starts \cup {Len(p) + 1}
  BY DEF CutAt, OnlyCut
<1>2. c + 1 \in starts
  BY <1>0, <1>1
<1>3. PICK j \in starts \cup {Len(p) + 1} :
          FieldAt(p, c + 1, j) /\ ~\E t \in starts : c + 1 < t /\ t < j
  BY <1>2 DEF CutsInto
<1>4. (c + 1) + 1 = c + 2 /\ (c + 1) + 2 = c + 3
  BY <1>0
<1>5. c + 2 <= Len(p) /\ p[c + 1] # 0 /\ j = (c + 1) + 2 + p[c + 2]
  BY <1>3, <1>4 DEF FieldAt
<1>6. p[c + 2] \in Nat
  <2>1. c + 2 \in 1..Len(p)
    BY <1>0, <1>5
  <2> QED  BY <2>1 DEF Numbered
<1>7. j = ((c + 2) + p[c + 2]) + 1
  <2>1. \A x, y \in Nat : (x + 1) + 2 + y = ((x + 2) + y) + 1
    OBVIOUS
  <2> QED  BY <1>0, <1>5, <1>6, <2>1
<1>8. j \in Nat /\ j <= Len(p) + 1
  BY <1>0, <1>3
<1>9. (c + 2) + p[c + 2] <= Len(p)
  BY <1>0, <1>6, <1>7, <1>8
<1> QED  BY <1>1, <1>2, <1>3, <1>5, <1>6, <1>7, <1>9

\* A whole field is in every cut, and the loop goes on after it.
LEMMA FieldKeeps ==
    ASSUME NEW p, Numbered(p), NEW a, NEW c, NEW R, CutAt(p, a, c, R),
           c + 2 <= Len(p), p[c + 1] # 0, (c + 2) + p[c + 2] <= Len(p)
    PROVE  CutAt(p, a, (c + 2) + p[c + 2], R \cup {c + 1})
<1>0. /\ Len(p) \in Nat /\ a \in Nat \ {0} /\ c \in Nat /\ a <= c + 1 /\ a <= Len(p) /\ c < Len(p)
      /\ R \in SUBSET (a..c) /\ a \in R \cup {c + 1}
  BY DEF Numbered, CutAt, PartCut
<1>1. PICK v \in Nat : v = p[c + 2]
  <2>1. c + 2 \in 1..Len(p)
    BY <1>0
  <2> QED  BY <2>1 DEF Numbered
<1>2. PICK d \in Nat : d = (c + 2) + v
  BY <1>0
<1>3. d <= Len(p) /\ c + 1 <= d /\ c + 1 \in a..d /\ c + 1 < d + 1
  BY <1>0, <1>1, <1>2
<1>4. PartCut(p, a, d, R \cup {c + 1})
  <2>1. R \cup {c + 1} \in SUBSET (a..d)
    BY <1>0, <1>3
  <2>2. ASSUME NEW s \in R
        PROVE  \E j \in (R \cup {c + 1}) \cup {d + 1} :
                  FieldAt(p, s, j) /\ ~\E t \in R \cup {c + 1} : s < t /\ t < j
    <3>1. PICK j \in R \cup {c + 1} : FieldAt(p, s, j) /\ ~\E t \in R : s < t /\ t < j
      BY DEF CutAt, PartCut
    <3>2. ~(c + 1 < j)
      BY <1>0
    <3> QED  BY <3>1, <3>2
  <2>3. FieldAt(p, c + 1, d + 1)
    <3>1. (c + 1) + 1 = c + 2 /\ d + 1 = (c + 1) + 2 + v
      BY <1>0, <1>2
    <3> QED  BY <1>1, <3>1 DEF FieldAt
  <2>4. ~\E t \in R \cup {c + 1} : c + 1 < t /\ t < d + 1
    BY <1>0
  <2> QED  BY <1>0, <2>1, <2>2, <2>3, <2>4 DEF PartCut
<1>5. OnlyCut(p, a, d, R \cup {c + 1})
  <2> SUFFICES ASSUME NEW starts \in SUBSET (a..Len(p)), CutsInto(p, a, starts)
               PROVE  /\ R \cup {c + 1} = {s \in starts : s <= d}
                      /\ d + 1 \in starts \cup {Len(p) + 1}
    BY DEF OnlyCut
  <2>1. /\ c + 1 \in starts /\ R = {s \in starts : s <= c}
        /\ ((c + 2) + p[c + 2]) + 1 \in starts \cup {Len(p) + 1}
        /\ ~\E t \in starts : c + 1 < t /\ t < ((c + 2) + p[c + 2]) + 1
    BY <1>0, NextStart
  <2>2. d + 1 \in starts \cup {Len(p) + 1} /\ ~\E t \in starts : c + 1 < t /\ t < d + 1
    BY <1>1, <1>2, <2>1
  <2>3. ASSUME NEW s \in starts PROVE s <= d <=> s <= c \/ s = c + 1
    <3>1. s \in Nat
      BY <1>0
    <3>2. ~(c + 1 < s /\ s < d + 1)
      BY <2>2
    <3> QED  BY <1>0, <1>3, <3>1, <3>2
  <2> QED  BY <2>1, <2>2, <2>3
<1>6. CutAt(p, a, d, R \cup {c + 1})
  BY <1>0, <1>3, <1>4, <1>5 DEF CutAt
<1> QED  BY <1>1, <1>2, <1>6

\* A field that is not whole is in no cut.
LEMMA BrokenField ==
    ASSUME NEW p, Numbered(p), NEW a, NEW c, NEW R, CutAt(p, a, c, R), c < Len(p),
           ~(c + 2 <= Len(p) /\ p[c + 1] # 0 /\ p[c + 2] <= Len(p) - (c + 2)),
           NEW starts \in SUBSET (a..Len(p))
    PROVE  ~CutsInto(p, a, starts)
<1> SUFFICES ASSUME CutsInto(p, a, starts) PROVE FALSE
  OBVIOUS
<1>0. Len(p) \in Nat /\ c \in Nat
  BY DEF Numbered, CutAt
<1>1. c + 2 <= Len(p) /\ p[c + 1] # 0 /\ p[c + 2] \in Nat /\ (c + 2) + p[c + 2] <= Len(p)
  BY NextStart
<1>2. p[c + 2] <= Len(p) - (c + 2)
  BY <1>0, <1>1
<1> QED  BY <1>1, <1>2

\* After the last field there is one cut, and it is what was read.
LEMMA WholeCut ==
    ASSUME NEW p, Numbered(p), NEW a, NEW R, CutAt(p, a, Len(p), R)
    PROVE  /\ R \in SUBSET (a..Len(p)) /\ CutsInto(p, a, R)
           /\ \A starts \in SUBSET (a..Len(p)) : CutsInto(p, a, starts) => starts = R
<1>0. Len(p) \in Nat /\ a \in Nat /\ a <= Len(p) /\ R \in SUBSET (a..Len(p))
  BY DEF Numbered, CutAt, PartCut
<1>1. CutsInto(p, a, R)
  <2>1. a \in R
    BY <1>0 DEF CutAt, PartCut
  <2> QED  BY <2>1 DEF CutAt, PartCut, CutsInto
<1>2. ASSUME NEW starts \in SUBSET (a..Len(p)), CutsInto(p, a, starts) PROVE starts = R
  <2>1. R = {s \in starts : s <= Len(p)}
    BY <1>2 DEF CutAt, OnlyCut
  <2>2. \A s \in starts : s <= Len(p)
    BY <1>0
  <2> QED  BY <2>1, <2>2
<1> QED  BY <1>0, <1>1, <1>2

\* A second list, or a malformed one, is in no envelope of a HELLO.
LEMMA BrokenList ==
    ASSUME NEW p, Numbered(p), NEW a, NEW c, NEW R, CutAt(p, a, c, R), c < Len(p),
           p[c + 1] = 1, NEW present, ListsIn(p, R, present), present \/ ~ListOk(ValueAt(p, c + 1)),
           NEW starts \in SUBSET (a..Len(p)), CutsInto(p, a, starts)
    PROVE  ~OneList(p, starts)
<1> SUFFICES ASSUME OneList(p, starts) PROVE FALSE
  OBVIOUS
<1>0. c \in Nat /\ R \in SUBSET (a..c) /\ a \in Nat /\ Len(p) \in Nat
  BY DEF CutAt, PartCut, Numbered
<1>1. c + 1 \in starts /\ R = {s \in starts : s <= c}
  BY NextStart
<1>2. ListOk(ValueAt(p, c + 1))
  BY <1>1 DEF OneList
<1>3. PICK s \in R : p[s] = 1
  BY <1>2, Zenon DEF ListsIn
<1>4. s \in starts /\ s # c + 1
  BY <1>0, <1>1
<1> DEFINE L == {x \in starts : p[x] = 1}
<1>5. IsFiniteSet(L)
  <2>1. IsFiniteSet(a..Len(p))
    BY <1>0, FS_Interval
  <2>2. L \in SUBSET (a..Len(p))
    OBVIOUS
  <2> QED  BY <2>1, <2>2, FS_Subset
<1>6. s \in L /\ c + 1 \in L /\ Cardinality(L) = 1
  BY <1>1, <1>3, <1>4 DEF OneList
<1> HIDE DEF L
<1>7. \E x : L = {x}
  BY <1>5, <1>6, FS_Singleton
<1> QED  BY <1>4, <1>6, <1>7

\* One more field of a HELLO: a list that is the first and well formed, or another field.
LEMMA ListsKeep ==
    ASSUME NEW p, NEW R, NEW present, ListsIn(p, R, present), NEW s,
           p[s] = 1 => ~present /\ ListOk(ValueAt(p, s))
    PROVE  ListsIn(p, R \cup {s}, present \/ p[s] = 1)
<1>1. CASE p[s] = 1
  <2>1. ~\E t \in R : p[t] = 1
    BY <1>1, Zenon DEF ListsIn
  <2> QED  BY <1>1, <2>1 DEF ListsIn
<1>2. CASE p[s] # 1
  BY <1>2 DEF ListsIn
<1> QED  BY <1>1, <1>2

\* After the last field the envelope is well formed, unless it is that of a HELLO without
\* its list.
LEMMA EnvelopeDecided ==
    ASSUME NEW p, Numbered(p), Len(p) > 0, 1 + p[1] < Len(p), NEW R, NEW present, NEW type,
           CutAt(p, 2 + p[1], Len(p), R), type = "HELLO" => ListsIn(p, R, present)
    PROVE  Envelope(p, type) <=> (type = "HELLO" => present)
<1> DEFINE a == 2 + p[1]
<1>1. /\ R \in SUBSET (a..Len(p)) /\ CutsInto(p, a, R)
      /\ \A starts \in SUBSET (a..Len(p)) : CutsInto(p, a, starts) => starts = R
  BY WholeCut
<1>2. Envelope(p, type) <=> (type = "HELLO" => OneList(p, R))
  BY <1>1, EnvelopeIs
<1>3. ASSUME ListsIn(p, R, present) PROVE OneList(p, R) <=> present
  <2> DEFINE L == {s \in R : p[s] = 1}
  <2>1. present <=> L # {}
    BY <1>3 DEF ListsIn
  <2>2. \A s, t \in L : s = t
    BY <1>3 DEF ListsIn
  <2>3. OneList(p, R) <=> Cardinality(L) = 1
    BY <1>3 DEF ListsIn, OneList
  <2> HIDE DEF L
  <2>4. CASE L = {}
    BY <2>1, <2>3, <2>4, FS_EmptySet
  <2>5. CASE L # {}
    <3>0. PICK s \in L : TRUE
      BY <2>5
    <3>1. L = {s}
      BY <2>2, <3>0
    <3> QED  BY <2>1, <2>3, <3>1, FS_Singleton
  <2> QED  BY <2>4, <2>5
<1> QED  BY <1>2, <1>3

\* The headers there are.
LEMMA HeaderFacts ==
    ASSUME NEW h \in Enveloped \cup Others
    PROVE  /\ h.flags \subseteq {"ext", "final", "reserved"} /\ h.excess \in {0, 1}
           /\ h.type \in {"HELLO", "GOAWAY", "CONNECT_REJECTED", "OTHER"}
BY DEF Enveloped, Others, Header

\* What WellFormed says of the body, for a session that has or has not negotiated.
BodyRight(h, body, known) ==
    /\ h.type \in {"HELLO", "GOAWAY"} => ~h.correlated /\ "final" \notin h.flags
    /\ CASE h.type = "HELLO" -> "ext" \in h.flags /\ ~known
                                /\ Len(body) = 1 /\ body[1] # 0
         [] h.type = "GOAWAY" -> Len(body) >= 2 /\ Len(body) = 2 + body[2]
         [] OTHER -> h.type # "CONNECT_REJECTED"

\* And of the whole, for what the session knew when the frame arrived.
RightFor(h, p, knew) ==
    /\ Len(p) <= knew.limit /\ h.excess = 0 /\ "reserved" \notin h.flags
    /\ "ext" \in h.flags => Envelope(p, h.type)
    /\ BodyRight(h, IF "ext" \in h.flags THEN SubSeq(p, 2, 1 + p[1]) ELSE p, knew.negotiated)

\* apply_server_hello() and the GOAWAY branch check what they should.
LEMMA BodyExact ==
    ASSUME NEW h \in Enveloped \cup Others, "reserved" \notin h.flags, NEW body
    PROVE  BodyOk(h, body) <=> BodyRight(h, body, negotiated)
<1>0. h.flags \subseteq {"ext", "final", "reserved"}
  BY HeaderFacts
<1>1. h.flags = {"ext"} <=> "ext" \in h.flags /\ "final" \notin h.flags
  BY <1>0
<1>2. h.flags \subseteq {"ext"} <=> "final" \notin h.flags
  BY <1>0
<1>3. CASE h.type = "HELLO"
  BY <1>1, <1>3 DEF BodyOk, BodyRight
<1>4. CASE h.type = "GOAWAY"
  BY <1>2, <1>4 DEF BodyOk, BodyRight
<1>5. CASE h.type = "CONNECT_REJECTED"
  BY <1>5 DEF BodyOk, BodyRight
<1>6. CASE h.type = "OTHER"
  BY <1>6 DEF BodyOk, BodyRight
<1> QED  BY <1>3, <1>4, <1>5, <1>6, HeaderFacts

\* What decode's loop knows of the frame it reads.
FieldsInv ==
    /\ header \in Enveloped \cup Others
    /\ header.excess = 0 /\ "reserved" \notin header.flags /\ "ext" \in header.flags
    /\ payload \in Seq(0..MaxCell)
    /\ Len(payload) <= limit /\ Len(payload) > 0 /\ 1 + payload[1] < Len(payload)
    /\ core = SubSeq(payload, 2, 1 + payload[1])
    /\ before = [negotiated |-> negotiated, limit |-> limit]
    /\ \E R : /\ CutAt(payload, 2 + payload[1], cursor, R)
              /\ header.type = "HELLO" => ListsIn(payload, R, listed)

IncomingInv ==
    /\ limit \in Nat /\ limit <= MaxCells
    /\ reading \in {"none", "fields", "accepted", "refused"}
    /\ reading = "fields" => FieldsInv
    /\ AcceptedIsWellFormed

\* The cells of a payload that can arrive.
LEMMA PayloadFacts ==
    ASSUME NEW p \in Seq(0..MaxCell)
    PROVE  Numbered(p) /\ \A i \in 1..Len(p) : p[i] \in 0..MaxCell
<1>1. MaxCell \in Nat
  BY IncomingAssumption
<1>2. Len(p) \in Nat /\ \A i \in 1..Len(p) : p[i] \in 0..MaxCell
  BY LenProperties
<1>3. \A x \in 0..MaxCell : x \in Nat
  BY <1>1
<1> QED  BY <1>2, <1>3 DEF Numbered

\* Every payload that arrives is one.
LEMMA ArrivingFacts ==
    ASSUME limit \in Nat, NEW longest \in Nat, NEW p \in Arriving(longest)
    PROVE  p \in Seq(0..MaxCell) /\ reading = "none"
<1>1. reading = "none"
  BY DEF Arriving
<1>2. PICK n \in Nat : p \in Payloads(n)
  BY DEF Arriving
<1>3. PICK k \in 0..n : p \in [1..k -> 0..MaxCell]
  BY <1>2 DEF Payloads
<1>4. k \in Nat
  BY <1>2
<1>5. p \in Seq(0..MaxCell)
  BY <1>3, <1>4, SeqDef
<1> QED  BY <1>1, <1>5

\* Settling a frame with the right body: it is accepted exactly if the body is, and
\* leaves a limit that is one.
LEMMA SettleExact ==
    ASSUME IncomingInv, NEW h \in Enveloped \cup Others, "reserved" \notin h.flags,
           NEW body, h.type = "HELLO" => body \in Seq(0..MaxCell), Settle(h, body)
    PROVE  /\ reading' \in {"accepted", "refused"}
           /\ (reading' = "accepted" <=> BodyRight(h, body, negotiated))
           /\ limit' \in Nat /\ limit' <= MaxCells
<1>0. limit \in Nat /\ limit <= MaxCells /\ MaxCells \in Nat
  BY IncomingAssumption DEF IncomingInv
<1>1. BodyOk(h, body) <=> BodyRight(h, body, negotiated)
  BY BodyExact
<1>2. CASE ~BodyOk(h, body)
  BY <1>0, <1>1, <1>2 DEF Settle
<1>3. CASE BodyOk(h, body) /\ h.type # "HELLO"
  BY <1>0, <1>1, <1>3 DEF Settle, Handshake
<1>4. CASE BodyOk(h, body) /\ h.type = "HELLO"
  <2>1. body \in Seq(0..MaxCell) /\ Len(body) = 1
    BY <1>4 DEF BodyOk
  <2>2. body[1] \in Nat
    <3>1. 1 \in 1..Len(body)
      BY <2>1
    <3> QED  BY <2>1, <3>1, PayloadFacts DEF Numbered
  <2>3. reading' = "accepted" /\ limit' = IF body[1] < MaxCells THEN body[1] ELSE MaxCells
    BY <1>4 DEF Settle, Handshake
  <2> QED  BY <1>0, <1>1, <1>4, <2>2, <2>3
<1> QED  BY <1>2, <1>3, <1>4

\* A frame arrives.
LEMMA ArriveKeeps ==
    ASSUME IncomingInv, NEW h \in Enveloped \cup Others, NEW p \in Seq(0..MaxCell), Arrive(h, p)
    PROVE  IncomingInv'
<1> DEFINE knew == [negotiated |-> negotiated, limit |-> limit]
<1>0. /\ limit \in Nat /\ limit <= MaxCells /\ MaxCells \in Nat
      /\ Numbered(p) /\ Len(p) \in Nat /\ h.excess \in {0, 1}
  BY IncomingAssumption, PayloadFacts, HeaderFacts DEF IncomingInv, Numbered
<1>1. header' = h /\ payload' = p /\ before' = knew /\ (listed' = FALSE)
  BY DEF Arrive
<1>2. knew.limit = limit /\ knew.negotiated = negotiated
  OBVIOUS
<1> HIDE DEF knew
<1>3. HeaderOk(h, p) <=> Len(p) <= limit /\ h.excess = 0 /\ "reserved" \notin h.flags
  BY <1>0 DEF HeaderOk
<1>4. ASSUME reading' \in {"accepted", "refused"}, limit' \in Nat, limit' <= MaxCells,
             reading' = "accepted" <=> RightFor(h, p, knew)
      PROVE  IncomingInv'
  <2>1. WellFormed(header, payload)' <=> RightFor(header', payload', before')
    BY DEF WellFormed, RightFor, BodyRight
  <2>2. AcceptedIsWellFormed'
    BY <1>1, <1>4, <2>1 DEF AcceptedIsWellFormed
  <2> QED  BY <1>4, <2>2 DEF IncomingInv
<1>5. CASE ~HeaderOk(h, p) \/ (Handshake(h) /\ "ext" \notin h.flags)
  <2>1. reading' = "refused" /\ limit' = limit
    BY <1>5 DEF Arrive, Refuse
  <2>2. ~RightFor(h, p, knew)
    BY <1>2, <1>3, <1>5 DEF RightFor, BodyRight, Handshake
  <2> QED  BY <1>0, <1>4, <2>1, <2>2
<1>6. CASE HeaderOk(h, p) /\ "ext" \notin h.flags /\ ~Handshake(h)
  <2>1. Settle(h, p) /\ h.type # "HELLO"
    BY <1>6 DEF Arrive, Handshake
  <2>2. "reserved" \notin h.flags
    BY <1>3, <1>6
  <2>3. /\ reading' \in {"accepted", "refused"}
        /\ (reading' = "accepted" <=> BodyRight(h, p, negotiated))
        /\ limit' \in Nat /\ limit' <= MaxCells
    BY <2>1, <2>2, SettleExact
  <2>4. RightFor(h, p, knew) <=> BodyRight(h, p, negotiated)
    BY <1>2, <1>3, <1>6 DEF RightFor
  <2> QED  BY <1>4, <2>3, <2>4
<1>7. CASE HeaderOk(h, p) /\ "ext" \in h.flags /\ (Len(p) = 0 \/ 1 + p[1] >= Len(p))
  <2>1. reading' = "refused" /\ limit' = limit
    BY <1>7 DEF Arrive, Refuse
  <2>2. ~Envelope(p, h.type)
    <3>1. CASE Len(p) = 0
      BY <3>1 DEF Envelope
    <3>2. CASE Len(p) # 0 /\ 1 + p[1] >= Len(p)
      <4>1. p[1] \in Nat
        <5>1. 1 \in 1..Len(p)
          BY <1>0, <3>2
        <5> QED  BY <1>0, <5>1 DEF Numbered
      <4>2. ~(1 + p[1] < Len(p))
        BY <1>0, <3>2, <4>1
      <4> QED  BY <4>2 DEF Envelope
    <3> QED  BY <1>7, <3>1, <3>2
  <2>3. ~RightFor(h, p, knew)
    BY <1>7, <2>2 DEF RightFor
  <2> QED  BY <1>0, <1>4, <2>1, <2>3
<1>8. CASE HeaderOk(h, p) /\ "ext" \in h.flags /\ ~(Len(p) = 0 \/ 1 + p[1] >= Len(p))
  <2>0. PICK v \in Nat : v = p[1]
    <3>1. 1 \in 1..Len(p)
      BY <1>0, <1>8
    <3> QED  BY <1>0, <3>1 DEF Numbered
  <2>1. /\ reading' = "fields" /\ core' = SubSeq(p, 2, 1 + p[1]) /\ cursor' = 1 + p[1]
        /\ negotiated' = negotiated /\ limit' = limit
    BY <1>8 DEF Arrive
  <2>2. /\ Len(p) > 0 /\ 1 + v < Len(p)
        /\ 2 + v \in Nat \ {0} /\ 2 + v <= Len(p) /\ (2 + v) - 1 = 1 + v
    BY <1>0, <1>8, <2>0
  <2>3. CutAt(p, 2 + v, (2 + v) - 1, {})
    BY <1>0, <2>2, NothingCut
  <2>4. ListsIn(p, {}, FALSE)
    BY DEF ListsIn
  <2>5. CutAt(payload', 2 + payload'[1], cursor', {}) /\ ListsIn(payload', {}, listed')
    BY <1>1, <2>0, <2>1, <2>2, <2>3, <2>4
  <2>6. before' = [negotiated |-> negotiated', limit |-> limit']
    BY <1>1, <2>1 DEF knew
  <2>7. FieldsInv'
    BY <1>1, <1>3, <1>8, <2>0, <2>1, <2>2, <2>5, <2>6 DEF FieldsInv
  <2> QED  BY <1>0, <2>1, <2>7 DEF IncomingInv, AcceptedIsWellFormed
<1> QED  BY <1>5, <1>6, <1>7, <1>8

\* One turn of decode's loop.
LEMMA ReadKeeps ==
    ASSUME IncomingInv, ReadField
    PROVE  IncomingInv'
<1> DEFINE p == payload
           a == 2 + payload[1]
           list == Handshake(header) /\ payload[cursor + 1] = 1
           end == cursor + 2 + payload[cursor + 2]
<1>1. /\ reading = "fields" /\ cursor < Len(payload)
      /\ header' = header /\ payload' = payload /\ before' = before
  BY DEF ReadField
<1>2. FieldsInv /\ limit \in Nat /\ limit <= MaxCells
  BY <1>1 DEF IncomingInv
<1>3. Numbered(payload) /\ Len(payload) \in Nat
  BY <1>2, PayloadFacts DEF FieldsInv, Numbered
<1>4. PICK R : /\ CutAt(payload, a, cursor, R)
               /\ header.type = "HELLO" => ListsIn(payload, R, listed)
  BY <1>2 DEF FieldsInv
<1>5. cursor \in Nat
  BY <1>4 DEF CutAt
<1>6. CASE FieldOk(cursor) /\ (list => ~listed /\ ListOk(SubSeq(payload, cursor + 3, end)))
  <2>1. /\ cursor' = end /\ listed' = (listed \/ list) /\ reading' = reading /\ core' = core
        /\ negotiated' = negotiated /\ limit' = limit
    BY <1>6 DEF ReadField
  <2>2. cursor + 2 <= Len(payload) /\ payload[cursor + 1] # 0
        /\ payload[cursor + 2] <= Len(payload) - (cursor + 2)
    BY <1>6 DEF FieldOk
  <2>3. payload[cursor + 2] \in Nat
    <3>1. cursor + 2 \in 1..Len(payload)
      BY <1>3, <1>5, <2>2
    <3> QED  BY <1>3, <3>1 DEF Numbered
  <2>4. /\ (cursor + 2) + payload[cursor + 2] <= Len(payload)
        /\ end = (cursor + 2) + payload[cursor + 2]
    BY <1>3, <1>5, <2>2, <2>3
  <2>5. CutAt(payload, a, end, R \cup {cursor + 1})
    BY <1>3, <1>4, <2>2, <2>4, FieldKeeps
  <2>6. ASSUME header.type = "HELLO"
        PROVE  ListsIn(payload, R \cup {cursor + 1}, listed \/ payload[cursor + 1] = 1)
    <3>1. ValueAt(payload, cursor + 1) = SubSeq(payload, cursor + 3, end)
      <4>1. (cursor + 1) + 2 = cursor + 3 /\ (cursor + 1) + 1 = cursor + 2
            /\ (cursor + 1) + 1 + payload[cursor + 2] = end
        BY <1>5, <2>3
      <4> QED  BY <4>1 DEF ValueAt
    <3>2. payload[cursor + 1] = 1 => ~listed /\ ListOk(ValueAt(payload, cursor + 1))
      BY <1>6, <2>6, <3>1 DEF Handshake
    <3> QED  BY <1>4, <2>6, <3>2, ListsKeep
  <2>7. header.type = "HELLO" => ListsIn(payload, R \cup {cursor + 1}, listed')
    BY <2>1, <2>6 DEF Handshake
  <2>8. FieldsInv'
    BY <1>1, <1>2, <2>1, <2>5, <2>7 DEF FieldsInv
  <2> QED  BY <1>1, <1>2, <2>1, <2>8 DEF IncomingInv, AcceptedIsWellFormed
<1>7. CASE ~(FieldOk(cursor) /\ (list => ~listed /\ ListOk(SubSeq(payload, cursor + 3, end))))
  <2>1. reading' = "refused" /\ limit' = limit
    BY <1>7 DEF ReadField, Refuse
  <2>2. ~Envelope(payload, header.type)
    <3> SUFFICES ASSUME NEW starts \in SUBSET (a..Len(payload)), CutsInto(payload, a, starts),
                        header.type = "HELLO" => OneList(payload, starts)
                 PROVE  FALSE
      BY EnvelopeIs
    <3>1. FieldOk(cursor)
      BY <1>1, <1>3, <1>4, BrokenField DEF FieldOk
    <3>2. list /\ (listed \/ ~ListOk(SubSeq(payload, cursor + 3, end)))
      BY <1>7, <3>1
    <3>3. payload[cursor + 2] \in Nat
      BY <1>1, <1>3, <1>4, NextStart
    <3>4. ValueAt(payload, cursor + 1) = SubSeq(payload, cursor + 3, end)
      <4>1. (cursor + 1) + 2 = cursor + 3 /\ (cursor + 1) + 1 = cursor + 2
            /\ (cursor + 1) + 1 + payload[cursor + 2] = end
        BY <1>5, <3>3
      <4> QED  BY <4>1 DEF ValueAt
    <3>5. header.type = "HELLO" /\ payload[cursor + 1] = 1
          /\ (listed \/ ~ListOk(ValueAt(payload, cursor + 1)))
      BY <3>2, <3>4 DEF Handshake
    <3>6. ~OneList(payload, starts)
      BY <1>1, <1>3, <1>4, <3>5, BrokenList
    <3> QED  BY <3>5, <3>6
  <2>3. ~RightFor(header, payload, before)
    BY <1>2, <2>2 DEF RightFor, FieldsInv
  <2>4. WellFormed(header, payload)' <=> RightFor(header', payload', before')
    BY DEF WellFormed, RightFor, BodyRight
  <2>5. AcceptedIsWellFormed'
    BY <1>1, <2>1, <2>3, <2>4 DEF AcceptedIsWellFormed
  <2> QED  BY <1>2, <2>1, <2>5 DEF IncomingInv
<1> QED  BY <1>6, <1>7

\* After the last field.
LEMMA EndKeeps ==
    ASSUME IncomingInv, EndFields
    PROVE  IncomingInv'
<1>1. /\ reading = "fields" /\ cursor >= Len(payload)
      /\ header' = header /\ payload' = payload /\ before' = before
  BY DEF EndFields
<1>2. FieldsInv /\ limit \in Nat /\ limit <= MaxCells
  BY <1>1 DEF IncomingInv
<1>3. /\ Numbered(payload) /\ Len(payload) \in Nat /\ payload \in Seq(0..MaxCell)
      /\ header \in Enveloped \cup Others /\ "reserved" \notin header.flags
      /\ Len(payload) > 0 /\ 1 + payload[1] < Len(payload)
      /\ core = SubSeq(payload, 2, 1 + payload[1])
  BY <1>2, PayloadFacts DEF FieldsInv, Numbered
<1>4. PICK R : /\ CutAt(payload, 2 + payload[1], cursor, R)
               /\ header.type = "HELLO" => ListsIn(payload, R, listed)
  BY <1>2 DEF FieldsInv
<1>5. cursor = Len(payload)
  BY <1>1, <1>3, <1>4 DEF CutAt
<1>6. Envelope(payload, header.type) <=> (header.type = "HELLO" => listed)
  BY <1>3, <1>4, <1>5, EnvelopeDecided
<1>7. RightFor(header, payload, before)
         <=> (header.type = "HELLO" => listed) /\ BodyRight(header, core, negotiated)
  BY <1>2, <1>6 DEF RightFor, FieldsInv
<1>8. ASSUME reading' \in {"accepted", "refused"}, limit' \in Nat, limit' <= MaxCells,
             reading' = "accepted" <=> RightFor(header, payload, before)
      PROVE  IncomingInv'
  <2>1. WellFormed(header, payload)' <=> RightFor(header', payload', before')
    BY DEF WellFormed, RightFor, BodyRight
  <2>2. AcceptedIsWellFormed'
    BY <1>1, <1>8, <2>1 DEF AcceptedIsWellFormed
  <2> QED  BY <1>8, <2>2 DEF IncomingInv
<1>9. CASE header.type = "HELLO" /\ ~listed
  <2>1. reading' = "refused" /\ limit' = limit
    BY <1>9 DEF EndFields, Refuse, Handshake
  <2> QED  BY <1>2, <1>7, <1>8, <1>9, <2>1
<1>10. CASE ~(header.type = "HELLO" /\ ~listed)
  <2>1. Settle(header, core)
    BY <1>10 DEF EndFields, Handshake
  <2>2. core \in Seq(0..MaxCell)
    <3>1. PICK v \in Nat : v = payload[1]
      <4>1. 1 \in 1..Len(payload)
        BY <1>3
      <4> QED  BY <1>3, <4>1 DEF Numbered
    <3>2. \A i \in 2..1 + v : i \in 1..Len(payload)
      BY <1>3, <3>1
    <3>3. \A i \in 2..1 + v : payload[i] \in 0..MaxCell
      BY <1>3, <3>2, PayloadFacts
    <3>4. SubSeq(payload, 2, 1 + v) \in Seq(0..MaxCell)
      BY <3>3, SubSeqProperties
    <3> QED  BY <1>3, <3>1, <3>4
  <2>3. /\ reading' \in {"accepted", "refused"}
        /\ (reading' = "accepted" <=> BodyRight(header, core, negotiated))
        /\ limit' \in Nat /\ limit' <= MaxCells
    BY <1>3, <2>1, <2>2, SettleExact
  <2> QED  BY <1>7, <1>8, <1>10, <2>3
<1> QED  BY <1>9, <1>10

\* decode_incoming and wire3::decode accept exactly the frames of the grammar, whatever
\* the length of the payload and the numbers in it, and however many frames came before.
THEOREM FramesJudgedRight == IncomingSpec => []AcceptedIsWellFormed
<1>1. IncomingInit => IncomingInv
  BY IncomingAssumption DEF IncomingInit, IncomingInv, AcceptedIsWellFormed
<1>2. IncomingInv /\ [IncomingNext]_incomingVars => IncomingInv'
  <2> SUFFICES ASSUME IncomingInv, [IncomingNext]_incomingVars PROVE IncomingInv'
    OBVIOUS
  <2>0. limit \in Nat /\ MaxCells \in Nat /\ 3 \in Nat
    BY IncomingAssumption DEF IncomingInv
  <2>1. ASSUME NEW p \in Arriving(MaxCells), NEW h \in Enveloped, Arrive(h, p) PROVE IncomingInv'
    BY <2>0, <2>1, ArrivingFacts, ArriveKeeps
  <2>2. ASSUME NEW p \in Arriving(3), NEW h \in Others, Arrive(h, p) PROVE IncomingInv'
    BY <2>0, <2>2, ArrivingFacts, ArriveKeeps
  <2>3. CASE Proceed
    BY <2>3 DEF Proceed, IncomingInv, AcceptedIsWellFormed
  <2>4. CASE UNCHANGED incomingVars
    <3>1. WellFormed(header, payload)' <=> WellFormed(header, payload)
      BY <2>4 DEF incomingVars, WellFormed
    <3>2. FieldsInv => FieldsInv'
      BY <2>4 DEF incomingVars, FieldsInv
    <3> QED  BY <2>4, <3>1, <3>2 DEF incomingVars, IncomingInv, AcceptedIsWellFormed
  <2> QED  BY <2>1, <2>2, <2>3, <2>4, ReadKeeps, EndKeeps DEF IncomingNext
<1> QED  BY <1>1, <1>2, PTL DEF IncomingSpec, IncomingInv

-----------------------------------------------------------------------------
(* Routes and patterns.  The library's induction is over operators, which   *)
(* no backend instantiates; over a set of numbers it follows from the       *)
(* smallest number outside the set, and needs none.                         *)

\* A set of numbers with a member has a smallest one.
LEMMA Smallest ==
    ASSUME NEW T \in SUBSET Nat, T # {}
    PROVE  \E n \in T : \A m \in T : n <= m
<1> DEFINE R == OpToRel(<, Nat)
<1>1. IsWellFoundedOn(R, Nat)
  BY NatLessThanWellFounded
<1>3. \A x, y \in Nat : <<y, x>> \in R <=> y < x
  BY DEF OpToRel
<1> HIDE DEF R
<1>2. PICK n \in T : \A m \in T : ~(<<m, n>> \in R)
  BY <1>1, WFMin
<1>4. ASSUME NEW m \in T PROVE n <= m
  <2>1. m \in Nat /\ n \in Nat
    OBVIOUS
  <2>2. ~(m < n)
    BY <1>2, <1>3, <2>1
  <2> QED  BY <2>1, <2>2
<1> QED  BY <1>4

\* Induction, for the members of a set.
LEMMA SetInduction ==
    ASSUME NEW T \in SUBSET Nat, 0 \in T, \A n \in T : n + 1 \in T
    PROVE  \A n \in Nat : n \in T
<1> SUFFICES ASSUME Nat \ T # {} PROVE FALSE
  OBVIOUS
<1>1. PICK n \in Nat \ T : \A m \in Nat \ T : n <= m
  BY Smallest
<1>2. n # 0 /\ n - 1 \in Nat
  BY <1>1
<1>3. n - 1 \in T
  BY <1>1, <1>2
<1> QED  BY <1>1, <1>3

-----------------------------------------------------------------------------
(* The invariant of the loop, for the numbers i and j of segments that the  *)
(* cursors have passed, and the number e of those up to the last ** (-1 for *)
(* none) with what it has used so far, c.  Coming back to the last ** alone *)
(* loses nothing because the loop keeps to the left: no alignment has used  *)
(* less at the last **, and one that has used the same goes through the     *)
(* cursors; so a place where it is stuck excludes them all.                 *)

\* A pattern and a route: no segment of a route is spelled **.
Paired(p, r) ==
    /\ Len(p) \in Nat \ {0} /\ Len(r) \in Nat
    /\ \A j \in 1..Len(r) : r[j] # "**"

Uses(p, r) == [1..Len(p) -> 0..Len(r)]

Passing(p, r, i, j, e, c) ==
    /\ Paired(p, r)
    /\ i \in 0..Len(p) /\ j \in 0..Len(r)
    /\ e \in -1..i /\ e # 0 /\ c \in 0..j
    /\ e # -1 => p[e] = "**"

\* What was passed fits together, and the last ** could take more.
Reached(p, r, i, j, e, c) ==
    \E used \in Uses(p, r) :
        /\ \A k \in 1..i : Takes(p, r, used, k)
        /\ UsedBy(used, i) = j
        /\ e # -1 => UsedBy(used, e) = c

\* No alignment of the whole has used less, and the one that has used as little up to the
\* last ** goes through the place of the cursors.
Leftmost(p, r, i, j, e, c) ==
    \A used \in Uses(p, r) : Aligns(p, r, used) =>
        /\ UsedBy(used, i) >= j
        /\ e = -1 => UsedBy(used, i) = j
        /\ e # -1 => UsedBy(used, e) >= c /\ (UsedBy(used, e) = c => UsedBy(used, i) = j)

\* Numbers of segments used are numbers.
LEMMA UsedNumber ==
    ASSUME NEW p, NEW r, Paired(p, r), NEW used \in Uses(p, r), NEW i \in 0..Len(p)
    PROVE  UsedBy(used, i) \in Nat /\ UsedBy(used, i) <= Len(r)
           /\ (i # 0 => i \in 1..Len(p) /\ used[i] = UsedBy(used, i))
<1>1. CASE i = 0
  BY <1>1 DEF UsedBy, Paired
<1>2. CASE i # 0
  <2>1. i \in 1..Len(p)
    BY <1>2 DEF Paired
  <2>2. used[i] \in 0..Len(r)
    BY <2>1 DEF Uses
  <2> QED  BY <1>2, <2>1, <2>2 DEF UsedBy, Paired
<1> QED  BY <1>1, <1>2

\* MatchOne: the next segments of both take each other.
LEMMA OneKeeps ==
    ASSUME NEW p, NEW r, NEW i, NEW j, NEW e, NEW c, Passing(p, r, i, j, e, c),
           Reached(p, r, i, j, e, c), Leftmost(p, r, i, j, e, c),
           j < Len(r), i < Len(p), p[i + 1] \in {"*", r[j + 1]}
    PROVE  /\ Passing(p, r, i + 1, j + 1, e, c)
           /\ Reached(p, r, i + 1, j + 1, e, c) /\ Leftmost(p, r, i + 1, j + 1, e, c)
<1>0. /\ Len(p) \in Nat /\ Len(r) \in Nat /\ i \in Nat /\ j \in Nat /\ e \in -1..i /\ c \in 0..j
      /\ e # 0 /\ Paired(p, r)
  BY DEF Passing, Paired
<1>1. /\ i + 1 \in 1..Len(p) /\ i + 1 \in 0..Len(p) /\ j + 1 \in 1..Len(r) /\ j + 1 \in 0..Len(r)
      /\ i \in 0..Len(p) /\ (i + 1) - 1 = i /\ i + 1 # 0
      /\ e \in -1..i + 1 /\ c \in 0..j + 1 /\ e # i + 1
      /\ (e # -1 => e \in 1..Len(p) /\ e \in 0..Len(p))
  BY <1>0
<1>2. p[i + 1] # "**"
  BY <1>0, <1>1 DEF Paired
<1>3. Passing(p, r, i + 1, j + 1, e, c)
  BY <1>0, <1>1 DEF Passing
<1>4. Reached(p, r, i + 1, j + 1, e, c)
  <2>1. PICK used \in Uses(p, r) : /\ \A k \in 1..i : Takes(p, r, used, k)
                                   /\ UsedBy(used, i) = j
                                   /\ e # -1 => UsedBy(used, e) = c
    BY DEF Reached
  <2> DEFINE new == [used EXCEPT ![i + 1] = j + 1]
  <2>2. new \in Uses(p, r) /\ new[i + 1] = j + 1
    BY <1>1, <2>1 DEF Uses
  <2>3. \A k \in 1..Len(p) : k # i + 1 => new[k] = used[k]
    BY <2>1 DEF Uses
  <2> HIDE DEF new
  <2>4. \A k \in 0..i : UsedBy(new, k) = UsedBy(used, k)
    <3> SUFFICES ASSUME NEW k \in 0..i, k # 0 PROVE new[k] = used[k]
      BY DEF UsedBy
    <3>1. k \in 1..Len(p) /\ k # i + 1
      BY <1>0, <1>1
    <3> QED  BY <2>3, <3>1
  <2>5. \A k \in 1..i : Takes(p, r, new, k)
    <3> SUFFICES ASSUME NEW k \in 1..i PROVE Takes(p, r, new, k)
      OBVIOUS
    <3>1. k \in 1..Len(p) /\ k # i + 1 /\ k - 1 \in 0..i
      BY <1>0, <1>1
    <3>2. new[k] = used[k] /\ UsedBy(new, k - 1) = UsedBy(used, k - 1)
      BY <2>3, <2>4, <3>1
    <3>3. Takes(p, r, used, k)
      BY <2>1
    <3> QED  BY <3>2, <3>3 DEF Takes
  <2>6. Takes(p, r, new, i + 1)
    <3>1. UsedBy(new, i) = j
      BY <1>0, <2>1, <2>4
    <3> QED  BY <1>1, <1>2, <2>2, <3>1 DEF Takes
  <2>7. \A k \in 1..i + 1 : Takes(p, r, new, k)
    <3>1. \A k \in 1..i + 1 : k \in 1..i \/ k = i + 1
      BY <1>0
    <3> QED  BY <2>5, <2>6, <3>1
  <2>8. UsedBy(new, i + 1) = j + 1
    BY <1>1, <2>2 DEF UsedBy
  <2>9. e # -1 => UsedBy(new, e) = c
    <3>1. e # -1 => e \in 0..i
      BY <1>0
    <3> QED  BY <2>1, <2>4, <3>1
  <2> QED  BY <2>2, <2>7, <2>8, <2>9 DEF Reached
<1>5. Leftmost(p, r, i + 1, j + 1, e, c)
  <2> SUFFICES ASSUME NEW used \in Uses(p, r), Aligns(p, r, used)
               PROVE  /\ UsedBy(used, i + 1) >= j + 1
                      /\ e = -1 => UsedBy(used, i + 1) = j + 1
                      /\ e # -1 => UsedBy(used, e) >= c
                                   /\ (UsedBy(used, e) = c => UsedBy(used, i + 1) = j + 1)
    BY DEF Leftmost
  <2>1. Takes(p, r, used, i + 1)
    BY <1>1 DEF Aligns
  <2>2. UsedBy(used, i + 1) = UsedBy(used, i) + 1
    BY <1>1, <1>2, <2>1 DEF Takes, UsedBy
  <2>3. UsedBy(used, i) \in Nat
    BY <1>0, <1>1, UsedNumber
  <2>4. /\ UsedBy(used, i) >= j
        /\ e = -1 => UsedBy(used, i) = j
        /\ e # -1 => UsedBy(used, e) >= c /\ (UsedBy(used, e) = c => UsedBy(used, i) = j)
    BY DEF Leftmost
  <2>5. \A a, b \in Nat : a >= b => a + 1 >= b + 1
    OBVIOUS
  <2> QED  BY <1>0, <2>2, <2>3, <2>4, <2>5
<1> QED  BY <1>3, <1>4, <1>5

\* MatchDouble: the ** takes nothing at first.
LEMMA DoubleKeeps ==
    ASSUME NEW p, NEW r, NEW i, NEW j, NEW e, NEW c, Passing(p, r, i, j, e, c),
           Reached(p, r, i, j, e, c), Leftmost(p, r, i, j, e, c),
           i < Len(p), p[i + 1] = "**"
    PROVE  /\ Passing(p, r, i + 1, j, i + 1, j)
           /\ Reached(p, r, i + 1, j, i + 1, j) /\ Leftmost(p, r, i + 1, j, i + 1, j)
<1>0. /\ Len(p) \in Nat /\ Len(r) \in Nat /\ i \in Nat /\ j \in Nat /\ j \in 0..Len(r)
      /\ Paired(p, r)
  BY DEF Passing, Paired
<1>1. /\ i + 1 \in 1..Len(p) /\ i + 1 \in 0..Len(p) /\ i \in 0..Len(p) /\ (i + 1) - 1 = i
      /\ i + 1 # 0 /\ i + 1 \in -1..i + 1 /\ i + 1 # -1 /\ j \in 0..j
  BY <1>0
<1>3. Passing(p, r, i + 1, j, i + 1, j)
  BY <1>0, <1>1 DEF Passing
<1>4. Reached(p, r, i + 1, j, i + 1, j)
  <2>1. PICK used \in Uses(p, r) : /\ \A k \in 1..i : Takes(p, r, used, k)
                                   /\ UsedBy(used, i) = j
    BY DEF Reached
  <2> DEFINE new == [used EXCEPT ![i + 1] = j]
  <2>2. new \in Uses(p, r) /\ new[i + 1] = j
    BY <1>0, <1>1, <2>1 DEF Uses
  <2>3. \A k \in 1..Len(p) : k # i + 1 => new[k] = used[k]
    BY <2>1 DEF Uses
  <2> HIDE DEF new
  <2>4. \A k \in 0..i : UsedBy(new, k) = UsedBy(used, k)
    <3> SUFFICES ASSUME NEW k \in 0..i, k # 0 PROVE new[k] = used[k]
      BY DEF UsedBy
    <3>1. k \in 1..Len(p) /\ k # i + 1
      BY <1>0, <1>1
    <3> QED  BY <2>3, <3>1
  <2>5. \A k \in 1..i : Takes(p, r, new, k)
    <3> SUFFICES ASSUME NEW k \in 1..i PROVE Takes(p, r, new, k)
      OBVIOUS
    <3>1. k \in 1..Len(p) /\ k # i + 1 /\ k - 1 \in 0..i
      BY <1>0, <1>1
    <3>2. new[k] = used[k] /\ UsedBy(new, k - 1) = UsedBy(used, k - 1)
      BY <2>3, <2>4, <3>1
    <3>3. Takes(p, r, used, k)
      BY <2>1
    <3> QED  BY <3>2, <3>3 DEF Takes
  <2>6. Takes(p, r, new, i + 1)
    <3>1. UsedBy(new, i) = j
      BY <1>0, <2>1, <2>4
    <3> QED  BY <1>0, <1>1, <2>2, <3>1 DEF Takes
  <2>7. \A k \in 1..i + 1 : Takes(p, r, new, k)
    <3>1. \A k \in 1..i + 1 : k \in 1..i \/ k = i + 1
      BY <1>0
    <3> QED  BY <2>5, <2>6, <3>1
  <2>8. UsedBy(new, i + 1) = j
    BY <1>1, <2>2 DEF UsedBy
  <2> QED  BY <2>2, <2>7, <2>8 DEF Reached
<1>5. Leftmost(p, r, i + 1, j, i + 1, j)
  <2> SUFFICES ASSUME NEW used \in Uses(p, r), Aligns(p, r, used)
               PROVE  UsedBy(used, i + 1) >= j
    BY <1>1 DEF Leftmost
  <2>1. Takes(p, r, used, i + 1)
    BY <1>1 DEF Aligns
  <2>2. UsedBy(used, i) <= UsedBy(used, i + 1)
    BY <1>1, <2>1 DEF Takes, UsedBy
  <2>3. UsedBy(used, i) \in Nat /\ UsedBy(used, i + 1) \in Nat
    BY <1>0, <1>1, UsedNumber
  <2>4. UsedBy(used, i) >= j
    BY DEF Leftmost
  <2> QED  BY <1>0, <2>2, <2>3, <2>4
<1> QED  BY <1>3, <1>4, <1>5

\* An alignment does not go through a place where the loop is stuck.
LEMMA StuckNowhere ==
    ASSUME NEW p, NEW r, NEW i, NEW j, Paired(p, r), i \in 0..Len(p), j \in 0..Len(r),
           j < Len(r), i < Len(p) => p[i + 1] \notin {"**", "*", r[j + 1]},
           NEW used \in Uses(p, r), Aligns(p, r, used)
    PROVE  UsedBy(used, i) # j
<1> SUFFICES ASSUME UsedBy(used, i) = j PROVE FALSE
  OBVIOUS
<1>0. Len(p) \in Nat \ {0} /\ Len(r) \in Nat /\ i \in Nat /\ j \in Nat
  BY DEF Paired
<1>1. CASE i = Len(p)
  <2>1. UsedBy(used, i) = used[Len(p)]
    BY <1>0, <1>1 DEF UsedBy
  <2>2. used[Len(p)] = Len(r)
    BY DEF Aligns
  <2> QED  BY <1>0, <2>1, <2>2
<1>2. CASE i < Len(p)
  <2>1. i + 1 \in 1..Len(p) /\ (i + 1) - 1 = i
    BY <1>0, <1>2
  <2>2. Takes(p, r, used, i + 1)
    BY <2>1 DEF Aligns
  <2>3. used[i + 1] = j + 1 /\ p[i + 1] \in {"*", r[used[i + 1]]}
    BY <1>2, <2>1, <2>2 DEF Takes
  <2> QED  BY <1>2, <2>3
<1> QED  BY <1>0, <1>1, <1>2

\* Backtrack: the last ** takes one more.
LEMMA BacktrackKeeps ==
    ASSUME NEW p, NEW r, NEW i, NEW j, NEW e, NEW c, Passing(p, r, i, j, e, c),
           Reached(p, r, i, j, e, c), Leftmost(p, r, i, j, e, c),
           j < Len(r), e # -1, i < Len(p) => p[i + 1] \notin {"**", "*", r[j + 1]}
    PROVE  /\ Passing(p, r, e, c + 1, e, c + 1)
           /\ Reached(p, r, e, c + 1, e, c + 1) /\ Leftmost(p, r, e, c + 1, e, c + 1)
<1>0. /\ Len(p) \in Nat /\ Len(r) \in Nat /\ i \in Nat /\ j \in Nat /\ e \in Nat \ {0} /\ c \in Nat
      /\ i \in 0..Len(p) /\ j \in 0..Len(r) /\ e <= i /\ c <= j /\ p[e] = "**" /\ Paired(p, r)
  BY DEF Passing, Paired
<1>1. /\ e \in 1..Len(p) /\ e \in 0..Len(p) /\ c + 1 \in 0..Len(r) /\ e \in -1..e
      /\ e - 1 \in 0..Len(p) /\ c + 1 \in 0..c + 1
  BY <1>0
<1>3. Passing(p, r, e, c + 1, e, c + 1)
  BY <1>0, <1>1 DEF Passing
<1>4. Reached(p, r, e, c + 1, e, c + 1)
  <2>1. PICK used \in Uses(p, r) : /\ \A k \in 1..i : Takes(p, r, used, k)
                                   /\ UsedBy(used, e) = c
    BY DEF Reached
  <2> DEFINE new == [used EXCEPT ![e] = c + 1]
  <2>2. new \in Uses(p, r) /\ new[e] = c + 1
    BY <1>1, <2>1 DEF Uses
  <2>3. \A k \in 1..Len(p) : k # e => new[k] = used[k]
    BY <2>1 DEF Uses
  <2> HIDE DEF new
  <2>4. \A k \in 0..e - 1 : UsedBy(new, k) = UsedBy(used, k)
    <3> SUFFICES ASSUME NEW k \in 0..e - 1, k # 0 PROVE new[k] = used[k]
      BY DEF UsedBy
    <3>1. k \in 1..Len(p) /\ k # e
      BY <1>0, <1>1
    <3> QED  BY <2>3, <3>1
  <2>5. \A k \in 1..e - 1 : Takes(p, r, new, k)
    <3> SUFFICES ASSUME NEW k \in 1..e - 1 PROVE Takes(p, r, new, k)
      OBVIOUS
    <3>1. k \in 1..Len(p) /\ k # e /\ k - 1 \in 0..e - 1 /\ k \in 1..i
      BY <1>0, <1>1
    <3>2. new[k] = used[k] /\ UsedBy(new, k - 1) = UsedBy(used, k - 1)
      BY <2>3, <2>4, <3>1
    <3>3. Takes(p, r, used, k)
      BY <2>1, <3>1
    <3> QED  BY <3>2, <3>3 DEF Takes
  <2>6. Takes(p, r, new, e)
    <3>1. Takes(p, r, used, e) /\ used[e] = c
      BY <1>0, <2>1 DEF UsedBy
    <3>2. UsedBy(used, e - 1) <= c
      BY <1>0, <3>1 DEF Takes
    <3>3. UsedBy(used, e - 1) \in Nat
      BY <1>0, <1>1, UsedNumber
    <3>4. UsedBy(new, e - 1) = UsedBy(used, e - 1)
      BY <1>0, <2>4
    <3>5. UsedBy(new, e - 1) <= c + 1
      BY <1>0, <3>2, <3>3, <3>4
    <3> QED  BY <1>0, <2>2, <3>5 DEF Takes
  <2>7. \A k \in 1..e : Takes(p, r, new, k)
    <3>1. \A k \in 1..e : k \in 1..e - 1 \/ k = e
      BY <1>0
    <3> QED  BY <2>5, <2>6, <3>1
  <2>8. UsedBy(new, e) = c + 1
    BY <1>0, <2>2 DEF UsedBy
  <2> QED  BY <2>2, <2>7, <2>8 DEF Reached
<1>5. Leftmost(p, r, e, c + 1, e, c + 1)
  <2> SUFFICES ASSUME NEW used \in Uses(p, r), Aligns(p, r, used)
               PROVE  UsedBy(used, e) >= c + 1
    BY DEF Leftmost
  <2>1. UsedBy(used, e) >= c /\ (UsedBy(used, e) = c => UsedBy(used, i) = j)
    BY DEF Leftmost
  <2>2. UsedBy(used, i) # j
    BY <1>0, StuckNowhere
  <2>3. UsedBy(used, e) \in Nat
    BY <1>0, <1>1, UsedNumber
  <2> QED  BY <1>0, <2>1, <2>2, <2>3
<1> QED  BY <1>3, <1>4, <1>5

\* Without a ** to come back to, the loop has shown that there is no alignment.
LEMMA StuckDiffers ==
    ASSUME NEW p, NEW r, NEW i, NEW j, NEW c, Passing(p, r, i, j, -1, c),
           Leftmost(p, r, i, j, -1, c),
           j < Len(r), i < Len(p) => p[i + 1] \notin {"**", "*", r[j + 1]}
    PROVE  ~Covers(p, r)
<1> SUFFICES ASSUME NEW used \in Uses(p, r), Aligns(p, r, used) PROVE FALSE
  BY DEF Covers, Uses
<1>1. UsedBy(used, i) = j
  BY DEF Leftmost
<1>2. Paired(p, r) /\ i \in 0..Len(p) /\ j \in 0..Len(r)
  BY DEF Passing
<1> QED  BY <1>1, <1>2, StuckNowhere

\* The numbers of an alignment, whatever the segments of the route: ** may add any number
\* and every other segment adds one.
Climbs(p, used) ==
    \A i \in 1..Len(p) : IF p[i] = "**" THEN UsedBy(used, i - 1) <= used[i]
                                        ELSE used[i] = UsedBy(used, i - 1) + 1

\* An alignment climbs.
LEMMA AlignedClimbs ==
    ASSUME NEW p, NEW r, NEW used, Aligns(p, r, used)
    PROVE  Climbs(p, used)
BY DEF Aligns, Takes, Climbs

\* What is used only grows.
LEMMA Grows ==
    ASSUME NEW p, NEW r, Paired(p, r), NEW used \in Uses(p, r), Climbs(p, used),
           NEW i \in 0..Len(p), NEW k \in i..Len(p)
    PROVE  UsedBy(used, i) <= UsedBy(used, k)
<1>0. Len(p) \in Nat /\ i \in Nat /\ k \in Nat /\ k - i \in Nat
  BY DEF Paired
<1> DEFINE T == {n \in Nat : i + n <= Len(p) => UsedBy(used, i) <= UsedBy(used, i + n)}
<1>1. 0 \in T
  <2>1. UsedBy(used, i) \in Nat
    BY <1>0, UsedNumber
  <2> QED  BY <1>0, <2>1
<1>2. ASSUME NEW n \in T PROVE n + 1 \in T
  <2> SUFFICES ASSUME i + (n + 1) <= Len(p)
               PROVE  UsedBy(used, i) <= UsedBy(used, i + (n + 1))
    OBVIOUS
  <2>0. n \in Nat
    OBVIOUS
  <2> DEFINE m == i + n
  <2>1. /\ m \in Nat /\ m + 1 = i + (n + 1) /\ m <= Len(p) /\ m \in 0..Len(p)
        /\ m + 1 \in 1..Len(p) /\ m + 1 \in 0..Len(p) /\ (m + 1) - 1 = m
    BY <1>0, <2>0
  <2>2. UsedBy(used, i) <= UsedBy(used, m)
    BY <2>1
  <2> HIDE DEF m, T
  <2>3. IF p[m + 1] = "**" THEN UsedBy(used, m) <= used[m + 1]
                             ELSE used[m + 1] = UsedBy(used, m) + 1
    BY <2>1 DEF Climbs
  <2>4. UsedBy(used, m + 1) = used[m + 1]
    BY <2>1 DEF UsedBy
  <2>5. UsedBy(used, i) \in Nat /\ UsedBy(used, m) \in Nat /\ UsedBy(used, m + 1) \in Nat
    BY <1>0, <2>1, UsedNumber
  <2>6. UsedBy(used, m) <= UsedBy(used, m + 1)
    BY <2>1, <2>3, <2>4, <2>5
  <2> QED  BY <2>1, <2>2, <2>5, <2>6
<1>3. T \in SUBSET Nat
  OBVIOUS
<1> HIDE DEF T
<1>4. k - i \in T
  BY <1>0, <1>1, <1>2, <1>3, SetInduction
<1>5. i + (k - i) = k /\ k <= Len(p)
  BY <1>0
<1> QED  BY <1>4, <1>5 DEF T

\* FinishMatch: with the route used up, what is left of the pattern can only take nothing.
LEMMA FinishExact ==
    ASSUME NEW p, NEW r, NEW i, NEW e, NEW c, Passing(p, r, i, Len(r), e, c),
           Reached(p, r, i, Len(r), e, c), Leftmost(p, r, i, Len(r), e, c)
    PROVE  (\A k \in i + 1..Len(p) : p[k] = "**") <=> Covers(p, r)
<1>0. Len(p) \in Nat \ {0} /\ Len(r) \in Nat /\ i \in Nat /\ i <= Len(p) /\ i \in 0..Len(p)
      /\ Paired(p, r)
  BY DEF Passing, Paired
<1>1. ASSUME \A k \in i + 1..Len(p) : p[k] = "**" PROVE Covers(p, r)
  <2>1. PICK used \in Uses(p, r) : /\ \A k \in 1..i : Takes(p, r, used, k)
                                   /\ UsedBy(used, i) = Len(r)
    BY DEF Reached
  <2> DEFINE new == [k \in 1..Len(p) |-> IF k <= i THEN used[k] ELSE Len(r)]
  <2>2. new \in Uses(p, r)
    BY <1>0, <2>1 DEF Uses
  <2>3. \A k \in 1..Len(p) : new[k] = IF k <= i THEN used[k] ELSE Len(r)
    OBVIOUS
  <2> HIDE DEF new
  <2>4. new[Len(p)] = Len(r)
    <3>1. i = Len(p) => used[Len(p)] = Len(r)
      BY <1>0, <2>1 DEF UsedBy
    <3> QED  BY <1>0, <2>3, <3>1
  <2>5. ASSUME NEW k \in 1..Len(p) PROVE Takes(p, r, new, k)
    <3>1. CASE k <= i
      <4>1. k \in 1..i /\ new[k] = used[k]
        BY <1>0, <2>3, <3>1
      <4>2. UsedBy(new, k - 1) = UsedBy(used, k - 1)
        <5>1. k # 1 => k - 1 \in 1..Len(p) /\ k - 1 <= i
          BY <1>0, <3>1
        <5>2. k = 1 => k - 1 = 0
          OBVIOUS
        <5> QED  BY <2>3, <5>1, <5>2 DEF UsedBy
      <4>3. Takes(p, r, used, k)
        BY <2>1, <4>1
      <4> QED  BY <4>1, <4>2, <4>3 DEF Takes
    <3>2. CASE ~(k <= i)
      <4>1. k \in i + 1..Len(p) /\ k - 1 \in 0..Len(p)
        BY <1>0, <3>2
      <4>2. p[k] = "**" /\ new[k] = Len(r)
        BY <1>1, <2>3, <3>2, <4>1
      <4>3. UsedBy(new, k - 1) <= Len(r)
        BY <1>0, <2>2, <4>1, UsedNumber
      <4> QED  BY <4>2, <4>3 DEF Takes
    <3> QED  BY <3>1, <3>2
  <2> QED  BY <2>2, <2>4, <2>5 DEF Covers, Uses, Aligns
<1>2. ASSUME Covers(p, r), NEW k \in i + 1..Len(p) PROVE p[k] = "**"
  <2>1. PICK used \in Uses(p, r) : Aligns(p, r, used)
    BY <1>2 DEF Covers, Uses
  <2>2. k \in 1..Len(p) /\ k - 1 \in i..Len(p) /\ k - 1 \in 0..Len(p)
    BY <1>0
  <2>3. UsedBy(used, i) >= Len(r)
    BY <2>1 DEF Leftmost
  <2>4. UsedBy(used, i) <= UsedBy(used, k - 1)
    BY <1>0, <2>1, <2>2, Grows, AlignedClimbs
  <2>5. UsedBy(used, i) \in Nat /\ UsedBy(used, k - 1) \in Nat
    BY <1>0, <2>1, <2>2, UsedNumber
  <2>6. used[k] \in 0..Len(r)
    BY <2>1, <2>2 DEF Uses
  <2>7. Takes(p, r, used, k)
    BY <2>1, <2>2 DEF Aligns
  <2>8. used[k] # UsedBy(used, k - 1) + 1
    BY <1>0, <2>3, <2>4, <2>5, <2>6
  <2> QED  BY <2>7, <2>8 DEF Takes
<1> QED  BY <1>1, <1>2

\* A path is a sequence of at least one of its segments.
LEMMA PathFacts ==
    ASSUME NEW S, NEW p \in Paths(S)
    PROVE  /\ p \in Seq(S) /\ Len(p) \in Nat \ {0} /\ DOMAIN p = 1..Len(p)
           /\ \A k \in 1..Len(p) : p[k] \in S
<1>1. PICK n \in 1..MaxSegments : p \in [1..n -> S]
  BY DEF Paths
<1>0. MaxSegments \in Nat
  BY RoutesAssumption
<1>2. n \in Nat \ {0}
  BY <1>0
<1>3. p \in Seq(S) /\ Len(p) = n
  BY <1>1, <1>2, SeqDef
<1> QED  BY <1>1, <1>2, <1>3

\* The loop starts with a pattern and a route that no ** is in.
LEMMA StartPairs ==
    ASSUME NEW p \in Patterns, NEW r \in BrokerRoutes
    PROVE  Paired(p, Visible(r))
<1>1. Len(p) \in Nat \ {0}
  BY PathFacts DEF Patterns
<1>2. /\ r \in Seq(Literals \cup {""}) /\ Len(r) \in Nat \ {0}
      /\ \A k \in 1..Len(r) : r[k] \in Literals \cup {""}
  BY PathFacts DEF BrokerRoutes
<1>3. \A k \in 1..Len(r) : r[k] # "**"
  BY <1>2, RoutesAssumption
<1>4. CASE r[Len(r)] = ""
  <2>1. PICK n \in Nat \ {0} : n = Len(r)
    BY <1>2
  <2>2. n - 1 \in Nat /\ n - 1 <= n
    OBVIOUS
  <2> DEFINE v == SubSeq(r, 1, n - 1)
  <2>3. Visible(r) = v
    BY <1>4, <2>1 DEF Visible
  <2>4. Len(v) = n - 1 /\ \A k \in 1..n - 1 : v[k] = r[k]
    <3> DEFINE S == Literals \cup {""}
    <3>0. \A k \in 1..n - 1 : k \in 1..n
      OBVIOUS
    <3>1. \A k \in 1..n - 1 : r[k] \in S
      BY <1>2, <2>1, <3>0, Zenon
    <3> HIDE DEF S
    <3>2. /\ Len(v) = IF 1 <= n - 1 THEN (n - 1) - 1 + 1 ELSE 0
          /\ \A k \in 1..(n - 1) - 1 + 1 : v[k] = r[1 + k - 1]
      BY <2>2, <3>1, SubSeqProperties
    <3> QED  BY <2>2, <3>2
  <2> HIDE DEF v
  <2>5. \A k \in 1..Len(v) : k \in 1..n - 1 /\ k \in 1..Len(r)
    BY <2>1, <2>2, <2>4
  <2>6. \A k \in 1..Len(v) : v[k] # "**"
    BY <1>3, <2>4, <2>5
  <2> QED  BY <1>1, <2>2, <2>3, <2>4, <2>6 DEF Paired
<1>5. CASE r[Len(r)] # ""
  BY <1>1, <1>2, <1>3, <1>5 DEF Visible, Paired
<1> QED  BY <1>4, <1>5

\* Where the loop stands: what it has passed is the leftmost way to pass it.
LoopAt(p, r, i, j, e, c) ==
    Passing(p, r, i, j, e, c) /\ Reached(p, r, i, j, e, c) /\ Leftmost(p, r, i, j, e, c)

\* Nothing is passed at the start.
LEMMA StartsLeftmost ==
    ASSUME NEW p, NEW r, Paired(p, r)
    PROVE  LoopAt(p, r, 0, 0, -1, 0)
<1>0. Len(p) \in Nat /\ Len(r) \in Nat
  BY DEF Paired
<1>1. Passing(p, r, 0, 0, -1, 0)
  BY <1>0 DEF Passing
<1>2. Reached(p, r, 0, 0, -1, 0)
  <2> DEFINE used == [k \in 1..Len(p) |-> 0]
  <2>1. used \in Uses(p, r)
    BY <1>0 DEF Uses
  <2>2. UsedBy(used, 0) = 0
    BY DEF UsedBy
  <2>3. \A k \in 1..0 : Takes(p, r, used, k)
    OBVIOUS
  <2> QED  BY <2>1, <2>2, <2>3 DEF Reached
<1>3. Leftmost(p, r, 0, 0, -1, 0)
  BY DEF Leftmost, UsedBy
<1> QED  BY <1>1, <1>2, <1>3 DEF LoopAt

\* The cursors and what they stand for, one less for a place that counts from 1.
Cursors == atRoute \in Nat /\ atPattern \in Nat /\ afterDouble \in Nat /\ doubleMatch \in Nat

Fresh == verdict = "none" /\ atRoute = 1 /\ atPattern = 1 /\ afterDouble = 0 /\ doubleMatch = 1

InPlace == LoopAt(pattern, route, atPattern - 1, atRoute - 1, afterDouble - 1, doubleMatch - 1)

MatchInv ==
    /\ Cursors
    /\ checking = "idle" => Fresh
    /\ checking = "match" /\ verdict = "none" => InPlace
    /\ MatchIsExact

\* The cursors of the loop, one by one.
LEMMA PlaceFacts ==
    ASSUME Cursors, InPlace
    PROVE  /\ Len(pattern) \in Nat /\ Len(route) \in Nat
           /\ atPattern - 1 \in 0..Len(pattern) /\ atRoute - 1 \in 0..Len(route)
           /\ (afterDouble = 0 <=> afterDouble - 1 = -1)
           /\ (atRoute - 1) + 1 = atRoute /\ (atPattern - 1) + 1 = atPattern
           /\ (doubleMatch - 1) + 1 = doubleMatch /\ (doubleMatch + 1) - 1 = doubleMatch
           /\ (atRoute + 1) - 1 = atRoute /\ (atPattern + 1) - 1 = atPattern
           /\ (atRoute <= Len(route) <=> atRoute - 1 < Len(route))
           /\ (atPattern <= Len(pattern) <=> atPattern - 1 < Len(pattern))
<1>1. /\ Len(pattern) \in Nat /\ Len(route) \in Nat
      /\ atPattern - 1 \in 0..Len(pattern) /\ atRoute - 1 \in 0..Len(route)
  BY DEF InPlace, LoopAt, Passing, Paired
<1>2. atRoute \in Nat /\ atPattern \in Nat /\ afterDouble \in Nat /\ doubleMatch \in Nat
  BY DEF Cursors
<1> QED  BY <1>1, <1>2

\* Every step of the loop stays leftmost, and its verdict is right.
LEMMA LoopStep ==
    ASSUME MatchInv, MatchOne \/ MatchDouble \/ Backtrack \/ FinishMatch
    PROVE  MatchInv'
<1>1. checking = "match" /\ verdict = "none" /\ checking' = "match"
      /\ pattern' = pattern /\ route' = route
  BY DEF MatchOne, MatchDouble, Backtrack, FinishMatch, InLoop
<1>2. Cursors /\ InPlace
  BY <1>1 DEF MatchInv
<1>3. /\ Len(pattern) \in Nat /\ Len(route) \in Nat
      /\ atPattern - 1 \in 0..Len(pattern) /\ atRoute - 1 \in 0..Len(route)
      /\ (afterDouble = 0 <=> afterDouble - 1 = -1)
      /\ (atRoute - 1) + 1 = atRoute /\ (atPattern - 1) + 1 = atPattern
      /\ (doubleMatch - 1) + 1 = doubleMatch /\ (doubleMatch + 1) - 1 = doubleMatch
      /\ (atRoute + 1) - 1 = atRoute /\ (atPattern + 1) - 1 = atPattern
      /\ (atRoute <= Len(route) <=> atRoute - 1 < Len(route))
      /\ (atPattern <= Len(pattern) <=> atPattern - 1 < Len(pattern))
  BY <1>2, PlaceFacts
<1>4. /\ Passing(pattern, route, atPattern - 1, atRoute - 1, afterDouble - 1, doubleMatch - 1)
      /\ Reached(pattern, route, atPattern - 1, atRoute - 1, afterDouble - 1, doubleMatch - 1)
      /\ Leftmost(pattern, route, atPattern - 1, atRoute - 1, afterDouble - 1, doubleMatch - 1)
  BY <1>2 DEF InPlace, LoopAt
<1>5. CASE MatchOne
  <2>1. atRoute <= Len(route) /\ atPattern <= Len(pattern)
        /\ pattern[atPattern] \in {"*", route[atRoute]}
    BY <1>5 DEF MatchOne, InLoop, Same
  <2>2. LoopAt(pattern, route, (atPattern - 1) + 1, (atRoute - 1) + 1,
               afterDouble - 1, doubleMatch - 1)
    BY <1>3, <1>4, <2>1, OneKeeps DEF LoopAt
  <2>3. atRoute' = atRoute + 1 /\ atPattern' = atPattern + 1 /\ verdict' = "none"
        /\ afterDouble' = afterDouble /\ doubleMatch' = doubleMatch
    BY <1>1, <1>5 DEF MatchOne
  <2>4. InPlace'
    BY <1>1, <1>3, <2>2, <2>3 DEF InPlace
  <2>5. Cursors'
    BY <1>2, <2>3 DEF Cursors
  <2> QED  BY <1>1, <2>3, <2>4, <2>5 DEF MatchInv, MatchIsExact
<1>6. CASE MatchDouble
  <2>1. atPattern <= Len(pattern) /\ pattern[atPattern] = "**"
    BY <1>6 DEF MatchDouble, Double
  <2>2. LoopAt(pattern, route, (atPattern - 1) + 1, atRoute - 1, (atPattern - 1) + 1, atRoute - 1)
    BY <1>3, <1>4, <2>1, DoubleKeeps DEF LoopAt
  <2>3. atRoute' = atRoute /\ atPattern' = atPattern + 1 /\ verdict' = "none"
        /\ afterDouble' = atPattern + 1 /\ doubleMatch' = atRoute
    BY <1>1, <1>6 DEF MatchDouble
  <2>4. InPlace'
    BY <1>1, <1>3, <2>2, <2>3 DEF InPlace
  <2>5. Cursors'
    BY <1>2, <2>3 DEF Cursors
  <2> QED  BY <1>1, <2>3, <2>4, <2>5 DEF MatchInv, MatchIsExact
<1>7. CASE Backtrack
  <2>1. /\ atRoute <= Len(route)
        /\ (atPattern <= Len(pattern) => pattern[atPattern] \notin {"**", "*", route[atRoute]})
    BY <1>7 DEF Backtrack, InLoop, Same, Double
  <2>2. /\ atRoute - 1 < Len(route)
        /\ (atPattern - 1 < Len(pattern)
              => pattern[(atPattern - 1) + 1] \notin {"**", "*", route[(atRoute - 1) + 1]})
    BY <1>3, <2>1
  <2>3. CASE afterDouble = 0
    <3>1. verdict' = "differs" /\ UNCHANGED cursors
      BY <1>7, <2>3 DEF Backtrack
    <3>2. ~Covers(pattern, route)
      <4>1. afterDouble - 1 = -1
        BY <1>3, <2>3
      <4>2. /\ Passing(pattern, route, atPattern - 1, atRoute - 1, -1, doubleMatch - 1)
            /\ Leftmost(pattern, route, atPattern - 1, atRoute - 1, -1, doubleMatch - 1)
        BY <1>4, <4>1
      <4> QED  BY <2>2, <4>2, StuckDiffers
    <3>3. Cursors'
      BY <1>2, <3>1 DEF Cursors, cursors
    <3>4. MatchIsExact'
      BY <1>1, <3>1, <3>2 DEF MatchIsExact
    <3> QED  BY <1>1, <3>1, <3>3, <3>4 DEF MatchInv
  <2>4. CASE afterDouble # 0
    <3>1. /\ doubleMatch' = doubleMatch + 1 /\ atRoute' = doubleMatch + 1
          /\ atPattern' = afterDouble /\ verdict' = "none" /\ afterDouble' = afterDouble
      BY <1>1, <1>7, <2>4 DEF Backtrack
    <3>2. LoopAt(pattern, route, afterDouble - 1, (doubleMatch - 1) + 1,
                 afterDouble - 1, (doubleMatch - 1) + 1)
      BY <1>3, <1>4, <2>2, <2>4, BacktrackKeeps DEF LoopAt
    <3>3. InPlace'
      BY <1>1, <1>3, <3>1, <3>2 DEF InPlace
    <3>4. Cursors'
      BY <1>2, <3>1 DEF Cursors
    <3> QED  BY <1>1, <3>1, <3>3, <3>4 DEF MatchInv, MatchIsExact
  <2> QED  BY <2>3, <2>4
<1>8. CASE FinishMatch
  <2>1. /\ atRoute > Len(route) /\ UNCHANGED cursors
        /\ verdict' = IF \A i \in atPattern..Len(pattern) : pattern[i] = "**"
                      THEN "matches" ELSE "differs"
    BY <1>8 DEF FinishMatch
  <2>2. atRoute - 1 = Len(route)
    BY <1>2, <1>3, <2>1 DEF Cursors
  <2>3. (\A k \in (atPattern - 1) + 1..Len(pattern) : pattern[k] = "**") <=> Covers(pattern, route)
    BY <1>4, <2>2, FinishExact
  <2>4. MatchIsExact'
    BY <1>1, <1>3, <2>1, <2>3 DEF MatchIsExact
  <2>5. Cursors' /\ verdict' # "none"
    BY <1>2, <2>1 DEF Cursors, cursors
  <2> QED  BY <1>1, <2>4, <2>5 DEF MatchInv
<1> QED  BY <1>5, <1>6, <1>7, <1>8

\* route_matches_pattern answers with exactly what a pattern means, for routes and
\* patterns of every length and any segments.
THEOREM MatchingIsExact == RoutesSpec => []MatchIsExact
<1>1. RoutesInit => MatchInv
  BY DEF RoutesInit, MatchInv, Cursors, Fresh, MatchIsExact
<1>2. MatchInv /\ [RoutesNext]_routesVars => MatchInv'
  <2> SUFFICES ASSUME MatchInv, [RoutesNext]_routesVars PROVE MatchInv'
    OBVIOUS
  <2>1. ASSUME NEW p \in Unchecked, NEW n \in Depths, ValidatePattern(p, n) PROVE MatchInv'
    <3>1. checking' = "pattern" /\ UNCHANGED cursors
      BY <2>1 DEF ValidatePattern, BeginCheck
    <3> QED  BY <3>1 DEF MatchInv, Cursors, cursors, MatchIsExact
  <2>2. ASSUME NEW p \in Unchecked, ValidateSelector(p) PROVE MatchInv'
    <3>1. checking' = "selector" /\ UNCHANGED cursors
      BY <2>2 DEF ValidateSelector, BeginCheck
    <3> QED  BY <3>1 DEF MatchInv, Cursors, cursors, MatchIsExact
  <2>3. ASSUME NEW p \in Matchable, NEW r \in BrokerRoutes, StartMatch(r, p) PROVE MatchInv'
    <3>1. /\ checking = "idle" /\ checking' = "match" /\ pattern' = p /\ route' = Visible(r)
          /\ verdict' = verdict /\ UNCHANGED cursors
      BY <2>3 DEF StartMatch
    <3>2. p \in Patterns
      BY <3>1 DEF Matchable, Unchecked
    <3>3. LoopAt(p, Visible(r), 0, 0, -1, 0)
      BY <3>2, StartPairs, StartsLeftmost
    <3>4. Fresh /\ Cursors
      BY <3>1 DEF MatchInv
    <3>5. /\ atRoute' = 1 /\ atPattern' = 1 /\ afterDouble' = 0 /\ doubleMatch' = 1
          /\ verdict' = "none"
      BY <3>1, <3>4 DEF Fresh, cursors
    <3>6. 1 - 1 = 0 /\ 0 - 1 = -1
      OBVIOUS
    <3>7. InPlace'
      BY <3>1, <3>3, <3>5, <3>6 DEF InPlace
    <3>8. Cursors'
      BY <3>5 DEF Cursors
    <3> QED  BY <3>1, <3>5, <3>7, <3>8 DEF MatchInv, MatchIsExact
  <2>4. CASE UNCHANGED routesVars
    BY <2>4 DEF routesVars, MatchInv, Cursors, Fresh, InPlace, MatchIsExact
  <2> QED  BY <2>1, <2>2, <2>3, <2>4, LoopStep DEF RoutesNext
<1> QED  BY <1>1, <1>2, PTL DEF RoutesSpec, MatchInv

-----------------------------------------------------------------------------
(* Validation: a pattern fits a depth if and only if it covers a route of it. *)

\* Two segments that take one each take different ones.
LEMMA PlainDiffer ==
    ASSUME NEW p, NEW r, Paired(p, r), NEW used \in Uses(p, r), Climbs(p, used),
           NEW i \in 1..Len(p), NEW k \in 1..Len(p), i < k, p[k] # "**"
    PROVE  used[i] < used[k]
<1>0. Len(p) \in Nat /\ i \in Nat \ {0} /\ k \in Nat \ {0}
  BY DEF Paired
<1>1. i \in 0..Len(p) /\ k - 1 \in i..Len(p) /\ k - 1 \in 0..Len(p) /\ i # 0
  BY <1>0
<1>2. UsedBy(used, i) <= UsedBy(used, k - 1)
  BY <1>1, Grows
<1>3. UsedBy(used, i) \in Nat /\ UsedBy(used, k - 1) \in Nat /\ used[i] = UsedBy(used, i)
  BY <1>1, UsedNumber
<1>4. used[k] = UsedBy(used, k - 1) + 1
  BY DEF Climbs
<1> QED  BY <1>2, <1>3, <1>4

\* The segments that take one, and how many there are up to a place.
Plain(p) == {i \in 1..Len(p) : p[i] # "**"}
Rank(p, i) == Cardinality(Plain(p) \cap (1..i))

\* Counting them place by place.
LEMMA RankFacts ==
    ASSUME NEW p, Len(p) \in Nat
    PROVE  /\ IsFiniteSet(Plain(p)) /\ Cardinality(Plain(p)) \in Nat
           /\ Rank(p, 0) = 0 /\ Rank(p, Len(p)) = Cardinality(Plain(p))
           /\ \A i \in 0..Len(p) : Rank(p, i) \in Nat /\ Rank(p, i) <= Cardinality(Plain(p))
           /\ \A i \in 1..Len(p) :
                 Rank(p, i) = IF i \in Plain(p) THEN Rank(p, i - 1) + 1 ELSE Rank(p, i - 1)
<1>1. IsFiniteSet(1..Len(p))
  BY FS_Interval
<1>2. Plain(p) \in SUBSET (1..Len(p))
  BY DEF Plain
<1>3. IsFiniteSet(Plain(p)) /\ Cardinality(Plain(p)) \in Nat
  BY <1>1, <1>2, FS_Subset, FS_CardinalityType
<1>4. ASSUME NEW i
      PROVE  /\ IsFiniteSet(Plain(p) \cap (1..i)) /\ Rank(p, i) \in Nat
             /\ Rank(p, i) <= Cardinality(Plain(p))
  <2>1. Plain(p) \cap (1..i) \in SUBSET Plain(p)
    OBVIOUS
  <2> QED  BY <1>3, <2>1, FS_Subset, FS_CardinalityType DEF Rank
<1>5. Rank(p, 0) = 0
  <2>1. Plain(p) \cap (1..0) = {}
    OBVIOUS
  <2> QED  BY <2>1, FS_EmptySet DEF Rank
<1>6. Rank(p, Len(p)) = Cardinality(Plain(p))
  <2>1. Plain(p) \cap (1..Len(p)) = Plain(p)
    BY <1>2
  <2> QED  BY <2>1 DEF Rank
<1>7. ASSUME NEW i \in 1..Len(p)
      PROVE  Rank(p, i) = IF i \in Plain(p) THEN Rank(p, i - 1) + 1 ELSE Rank(p, i - 1)
  <2> DEFINE A == Plain(p) \cap (1..i - 1)
  <2>1. i \in Nat \ {0} /\ i \notin 1..i - 1
    OBVIOUS
  <2>2. \A k \in Nat : k \in 1..i <=> k \in 1..i - 1 \/ k = i
    BY <2>1
  <2>3. \A k \in Plain(p) : k \in Nat
    BY <1>2
  <2>4. CASE i \in Plain(p)
    <3>1. Plain(p) \cap (1..i) = A \cup {i}
      BY <2>2, <2>3, <2>4
    <3>2. IsFiniteSet(A) /\ i \notin A
      BY <1>4, <2>1
    <3> HIDE DEF A
    <3>3. Cardinality(A \cup {i}) = Cardinality(A) + 1
      BY <3>2, FS_AddElement
    <3> QED  BY <2>4, <3>1, <3>3 DEF Rank, A
  <2>5. CASE i \notin Plain(p)
    <3>1. Plain(p) \cap (1..i) = A
      BY <2>2, <2>3, <2>5
    <3> QED  BY <2>5, <3>1 DEF Rank
  <2> QED  BY <2>4, <2>5
<1> QED  BY <1>3, <1>4, <1>5, <1>6, <1>7

\* Every segment is a ** or takes one.
LEMMA PlainCount ==
    ASSUME NEW p, Len(p) \in Nat, DOMAIN p = 1..Len(p)
    PROVE  /\ Cardinality(DoubleWildcards(p)) \in Nat
           /\ Cardinality(Plain(p)) = Len(p) - Cardinality(DoubleWildcards(p))
           /\ (DoubleWildcards(p) = {} => Cardinality(DoubleWildcards(p)) = 0)
<1> DEFINE A == 1..Len(p)
           D == DoubleWildcards(p)
<1>1. IsFiniteSet(A) /\ Cardinality(A) = Len(p)
  <2>1. PICK l \in Nat : l = Len(p)
    OBVIOUS
  <2>2. IsFiniteSet(1..l) /\ Cardinality(1..l) = IF 1 > l THEN 0 ELSE l - 1 + 1
    BY FS_Interval
  <2>3. Cardinality(1..l) = l
    BY <2>2
  <2> QED  BY <2>1, <2>2, <2>3
<1>2. D \in SUBSET A /\ A \cap D = D /\ Plain(p) = A \ D
  BY DEF DoubleWildcards, Plain
<1> HIDE DEF A, D
<1>3. Cardinality(A \ D) = Cardinality(A) - Cardinality(A \cap D)
  BY <1>1, FS_Difference
<1>4. Cardinality(D) \in Nat
  BY <1>1, <1>2, FS_Subset, FS_CardinalityType
<1>5. D = {} => Cardinality(D) = 0
  BY FS_EmptySet
<1> QED  BY <1>1, <1>2, <1>3, <1>4, <1>5 DEF D

\* A pattern that passed the scan, and a depth that a domain requires.
Scanned(p, n) ==
    /\ Len(p) \in Nat \ {0} /\ DOMAIN p = 1..Len(p) /\ n \in Nat \ {0}
    /\ \A i \in 1..Len(p) : p[i] \in Literals \cup {"*", "**"}

\* Routes of a depth, to be matched.
LEMMA RouteOfDepth ==
    ASSUME NEW p, NEW n, Scanned(p, n), NEW r \in [1..n -> Literals]
    PROVE  Len(r) = n /\ Paired(p, r)
<1>1. n \in Nat
  BY DEF Scanned
<1>2. Len(r) = n
  BY <1>1
<1>3. \A k \in 1..n : r[k] # "**"
  BY RoutesAssumption
<1> QED  BY <1>1, <1>2, <1>3 DEF Paired, Scanned

\* A pattern without ** uses as many segments as it has.
LEMMA CountsItself ==
    ASSUME NEW p, NEW r, Paired(p, r), NEW used \in Uses(p, r), Climbs(p, used),
           \A i \in 1..Len(p) : p[i] # "**"
    PROVE  used[Len(p)] = Len(p)
<1>0. Len(p) \in Nat \ {0}
  BY DEF Paired
<1> DEFINE T == {m \in Nat : m <= Len(p) => UsedBy(used, m) = m}
<1>1. 0 \in T
  BY DEF UsedBy
<1>2. ASSUME NEW m \in T PROVE m + 1 \in T
  <2> SUFFICES ASSUME m + 1 <= Len(p) PROVE UsedBy(used, m + 1) = m + 1
    OBVIOUS
  <2>1. m \in Nat /\ m + 1 \in 1..Len(p) /\ (m + 1) - 1 = m /\ m <= Len(p)
    BY <1>0
  <2>2. UsedBy(used, m) = m
    BY <2>1
  <2> HIDE DEF T
  <2>3. used[m + 1] = m + 1
    BY <2>1, <2>2 DEF Climbs
  <2> QED  BY <2>1, <2>3 DEF UsedBy
<1>3. T \in SUBSET Nat
  OBVIOUS
<1> HIDE DEF T
<1>4. Len(p) \in T
  BY <1>0, <1>1, <1>2, <1>3, SetInduction
<1>5. UsedBy(used, Len(p)) = Len(p)
  BY <1>0, <1>4 DEF T
<1> QED  BY <1>0, <1>5 DEF UsedBy

\* A pattern that covers a route of the depth fits it.
LEMMA CoversFits ==
    ASSUME NEW p, NEW n, Scanned(p, n), NEW r \in [1..n -> Literals], Covers(p, r)
    PROVE  Fits(p, n)
<1>0. /\ Len(p) \in Nat \ {0} /\ n \in Nat /\ Len(r) = n /\ Paired(p, r) /\ DOMAIN p = 1..Len(p)
  BY RouteOfDepth DEF Scanned
<1>1. PICK used \in Uses(p, r) : Aligns(p, r, used)
  BY DEF Covers, Uses
<1>2. Climbs(p, used) /\ used[Len(p)] = n
  BY <1>0, <1>1, AlignedClimbs DEF Aligns
<1>3. CASE DoubleWildcards(p) = {}
  <2>1. \A i \in 1..Len(p) : p[i] # "**"
    BY <1>0, <1>3 DEF DoubleWildcards
  <2>2. used[Len(p)] = Len(p)
    BY <1>0, <1>1, <1>2, <2>1, CountsItself
  <2> QED  BY <1>2, <1>3, <2>2 DEF Fits
<1>4. CASE DoubleWildcards(p) # {}
  <2> DEFINE f == [i \in Plain(p) |-> used[i]]
  <2>1. ASSUME NEW i \in Plain(p) PROVE used[i] \in 1..n
    <3>1. i \in 1..Len(p) /\ p[i] # "**" /\ i - 1 \in 0..Len(p)
      BY <1>0 DEF Plain
    <3>2. used[i] = UsedBy(used, i - 1) + 1 /\ used[i] \in 0..n
      BY <1>0, <1>1, <1>2, <3>1 DEF Climbs, Uses
    <3>3. UsedBy(used, i - 1) \in Nat
      BY <1>0, <1>1, <3>1, UsedNumber
    <3> QED  BY <1>0, <3>2, <3>3
  <2>2. ASSUME NEW i \in Plain(p), NEW k \in Plain(p), used[i] = used[k] PROVE i = k
    <3>1. /\ i \in 1..Len(p) /\ k \in 1..Len(p) /\ p[i] # "**" /\ p[k] # "**"
          /\ i \in Nat /\ k \in Nat /\ used[i] \in Nat /\ used[k] \in Nat
      BY <1>0, <2>1 DEF Plain
    <3>2. i < k => used[i] < used[k]
      BY <1>0, <1>1, <1>2, <3>1, PlainDiffer
    <3>3. k < i => used[k] < used[i]
      BY <1>0, <1>1, <1>2, <3>1, PlainDiffer
    <3> QED  BY <2>2, <3>1, <3>2, <3>3
  <2>3. f \in Injection(Plain(p), 1..n)
    BY <2>1, <2>2 DEF Injection, IsInjective
  <2>4. IsFiniteSet(1..n) /\ Cardinality(1..n) = n
    <3>1. IsFiniteSet(1..n) /\ Cardinality(1..n) = IF 1 > n THEN 0 ELSE n - 1 + 1
      BY <1>0, FS_Interval
    <3> QED  BY <1>0, <3>1
  <2> HIDE DEF f
  <2>5. Cardinality(Plain(p)) <= n
    BY <2>3, <2>4, FS_Injection
  <2>6. Cardinality(Plain(p)) = Len(p) - Cardinality(DoubleWildcards(p))
    BY <1>0, PlainCount
  <2> QED  BY <1>4, <2>5, <2>6 DEF Fits
<1> QED  BY <1>3, <1>4

\* A pattern that fits a depth covers a route of it: one ** takes all there is too much,
\* every other takes nothing.
LEMMA FitsCovers ==
    ASSUME NEW p, NEW n, Scanned(p, n), Fits(p, n)
    PROVE  \E r \in [1..n -> Literals] : Covers(p, r)
<1>0. Len(p) \in Nat \ {0} /\ n \in Nat \ {0} /\ DOMAIN p = 1..Len(p)
  BY DEF Scanned
<1>1. PICK a \in Literals : TRUE
  BY RoutesAssumption
<1>2. PICK m \in Nat : m = Cardinality(Plain(p))
  BY <1>0, RankFacts
<1>3. m <= n /\ (DoubleWildcards(p) = {} => m = n)
  <2>1. /\ m = Len(p) - Cardinality(DoubleWildcards(p)) /\ Cardinality(DoubleWildcards(p)) \in Nat
        /\ (DoubleWildcards(p) = {} => Cardinality(DoubleWildcards(p)) = 0)
    BY <1>0, <1>2, PlainCount
  <2>2. CASE DoubleWildcards(p) = {}
    BY <1>0, <2>1, <2>2 DEF Fits
  <2>3. CASE DoubleWildcards(p) # {}
    BY <1>0, <2>1, <2>3 DEF Fits
  <2> QED  BY <2>2, <2>3
<1>4. PICK d \in 1..Len(p) : p[d] = "**" \/ m = n
  <2>1. CASE DoubleWildcards(p) = {}
    BY <1>0, <1>3, <2>1
  <2>2. CASE DoubleWildcards(p) # {}
    BY <1>0, <2>2 DEF DoubleWildcards
  <2> QED  BY <2>1, <2>2
<1> DEFINE more(i) == IF d <= i THEN n - m ELSE 0
           used == [i \in 1..Len(p) |-> Rank(p, i) + more(i)]
           first == [k \in 1..n |-> a]
<1>5. /\ Rank(p, 0) = 0 /\ Rank(p, Len(p)) = m
      /\ \A i \in 0..Len(p) : Rank(p, i) \in Nat /\ Rank(p, i) <= m
      /\ \A i \in 1..Len(p) :
            Rank(p, i) = IF i \in Plain(p) THEN Rank(p, i - 1) + 1 ELSE Rank(p, i - 1)
  BY <1>0, <1>2, RankFacts
<1>6. \A i \in 1..Len(p) : used[i] \in 0..n
  <2> SUFFICES ASSUME NEW i \in 1..Len(p) PROVE Rank(p, i) + more(i) \in 0..n
    OBVIOUS
  <2>1. Rank(p, i) \in Nat /\ Rank(p, i) <= m
    BY <1>0, <1>5
  <2>2. \A x \in Nat : x <= m => x + (n - m) \in 0..n /\ x + 0 \in 0..n
    BY <1>0, <1>3
  <2> QED  BY <2>1, <2>2
<1>7. \A i \in 0..Len(p) : UsedBy(used, i) = Rank(p, i) + more(i)
  <2>1. d \in Nat \ {0}
    OBVIOUS
  <2>2. Rank(p, 0) + more(0) = 0
    BY <1>5, <2>1
  <2>3. \A i \in 0..Len(p) : i # 0 => i \in 1..Len(p)
    BY <1>0
  <2> QED  BY <2>2, <2>3 DEF UsedBy
<1>8. ASSUME NEW i \in 1..Len(p)
      PROVE  IF p[i] = "**" THEN UsedBy(used, i - 1) <= used[i]
                            ELSE used[i] = UsedBy(used, i - 1) + 1
  <2>1. i - 1 \in 0..Len(p) /\ i \in 0..Len(p) /\ i \in Nat /\ d \in Nat
    BY <1>0
  <2>2. UsedBy(used, i - 1) = Rank(p, i - 1) + more(i - 1) /\ used[i] = Rank(p, i) + more(i)
    BY <1>7, <2>1
  <2>3. Rank(p, i - 1) \in Nat /\ Rank(p, i) \in Nat
    BY <1>5, <2>1
  <2>4. more(i - 1) \in Nat /\ more(i) \in Nat /\ more(i - 1) <= more(i)
    BY <1>0, <1>3, <2>1
  <2>5. CASE p[i] = "**"
    <3>1. Rank(p, i) = Rank(p, i - 1)
      BY <1>5, <2>5 DEF Plain
    <3> HIDE DEF more, used
    <3> QED  BY <2>2, <2>3, <2>4, <2>5, <3>1
  <2>6. CASE p[i] # "**"
    <3>1. Rank(p, i) = Rank(p, i - 1) + 1
      BY <1>5, <2>6 DEF Plain
    <3>2. more(i) = more(i - 1)
      <4>1. i # d \/ n - m = 0
        BY <1>0, <1>4, <2>6
      <4> QED  BY <2>1, <4>1
    <3> HIDE DEF more, used
    <3> QED  BY <2>2, <2>3, <2>4, <2>6, <3>1, <3>2
  <2> QED  BY <2>5, <2>6
<1>9. used[Len(p)] = n
  <2>1. Len(p) \in 1..Len(p) /\ d <= Len(p)
    BY <1>0
  <2>2. used[Len(p)] = m + (n - m)
    BY <1>5, <2>1
  <2> QED  BY <1>0, <2>2
<1>10. first \in [1..n -> Literals]
  BY <1>1
<1>11. Len(first) = n /\ Paired(p, first)
  BY <1>10, RouteOfDepth
<1> DEFINE lit(k, i) == i \in 1..Len(p) /\ used[i] = k /\ p[i] \in Literals
           r == [k \in 1..n |-> IF \E i : lit(k, i) THEN p[CHOOSE i : lit(k, i)] ELSE a]
<1>12. used \in Uses(p, first)
  BY <1>6, <1>11 DEF Uses
<1>13. Climbs(p, used)
  BY <1>8 DEF Climbs
<1> HIDE DEF used, first, more
<1>14. r \in [1..n -> Literals]
  <2>1. ASSUME NEW k, \E i : lit(k, i) PROVE p[CHOOSE i : lit(k, i)] \in Literals
    <3>1. lit(k, CHOOSE i : lit(k, i))
      BY <2>1
    <3> QED  BY <3>1
  <2> QED  BY <1>1, <2>1
<1>15. ASSUME NEW i \in 1..Len(p), p[i] \in Literals PROVE r[used[i]] = p[i]
  <2>0. p[i] # "**"
    BY <1>15, RoutesAssumption
  <2>1. p[i] # "**" /\ i - 1 \in 0..Len(p)
    BY <1>0, <2>0
  <2>2. used[i] \in 1..n
    <3>1. used[i] = UsedBy(used, i - 1) + 1 /\ used[i] \in 0..n
      BY <1>6, <1>8, <2>1
    <3>2. UsedBy(used, i - 1) \in Nat
      BY <1>11, <1>12, <2>1, UsedNumber
    <3> QED  BY <1>0, <3>1, <3>2
  <2>3. lit(used[i], i)
    BY <1>15
  <2>4. ASSUME NEW k, lit(used[i], k) PROVE k = i
    <3>1. k \in 1..Len(p) /\ used[k] = used[i] /\ p[k] # "**"
      BY <2>4, RoutesAssumption
    <3>2. i \in Nat /\ k \in Nat /\ used[i] \in Nat /\ used[k] \in Nat
      BY <1>0, <1>6, <3>1
    <3>3. i < k => used[i] < used[k]
      BY <1>11, <1>12, <1>13, <2>1, <3>1, PlainDiffer
    <3>4. k < i => used[k] < used[i]
      BY <1>11, <1>12, <1>13, <2>1, <3>1, PlainDiffer
    <3> QED  BY <3>1, <3>2, <3>3, <3>4
  <2>5. (CHOOSE k : lit(used[i], k)) = i
    BY <2>3, <2>4, Zenon
  <2>6. \E k : lit(used[i], k)
    BY <2>3
  <2> HIDE DEF lit
  <2> QED  BY <2>2, <2>5, <2>6
<1> HIDE DEF r
<1>16. Len(r) = n /\ Paired(p, r)
  BY <1>14, RouteOfDepth
<1>17. used \in [1..Len(p) -> 0..Len(r)]
  BY <1>11, <1>12, <1>16 DEF Uses
<1>18. ASSUME NEW i \in 1..Len(p) PROVE Takes(p, r, used, i)
  <2>1. p[i] \in Literals \cup {"*", "**"}
    BY DEF Scanned
  <2> QED  BY <1>8, <1>15, <2>1 DEF Takes
<1>19. Covers(p, r)
  BY <1>9, <1>16, <1>17, <1>18 DEF Covers, Aligns
<1> QED  BY <1>14, <1>19

\* Selectors.

\* The streams a selector covers differ in one of their first n segments.
Several(p, n) == \E q, r \in Extent(p, 3) : \E i \in 1..n : q[i] # r[i]

\* The scope they need.
ScopeOf(p) ==
    CASE Several(p, 1) -> "global"
      [] ~Several(p, 1) /\ Several(p, 2) -> "realm"
      [] ~Several(p, 2) /\ Several(p, 3) -> "area"
      [] OTHER -> "resource"

\* More segments can only differ more.
LEMMA SeveralGrow ==
    ASSUME NEW p
    PROVE  (Several(p, 1) => Several(p, 2)) /\ (Several(p, 2) => Several(p, 3))
<1>1. (\A i \in 1..1 : i \in 1..2) /\ (\A i \in 1..2 : i \in 1..3)
  OBVIOUS
<1> QED  BY <1>1, Zenon DEF Several

\* The scope, case by case.
LEMMA ScopeCases ==
    ASSUME NEW p
    PROVE  /\ Several(p, 1) => ScopeOf(p) = "global"
           /\ ~Several(p, 1) /\ Several(p, 2) => ScopeOf(p) = "realm"
           /\ ~Several(p, 2) /\ Several(p, 3) => ScopeOf(p) = "area"
           /\ ~Several(p, 3) => ScopeOf(p) = "resource"
BY SeveralGrow DEF ScopeOf

\* The routes of three segments.
LEMMA Streams ==
    ASSUME NEW p, Len(p) \in Nat \ {0}, NEW r \in [1..3 -> Literals]
    PROVE  Len(r) = 3 /\ Paired(p, r) /\ Uses(p, r) = [1..Len(p) -> 0..3]
<1>1. Len(r) = 3
  OBVIOUS
<1>2. \A k \in 1..3 : r[k] # "**"
  BY RoutesAssumption
<1> QED  BY <1>1, <1>2 DEF Paired, Uses

\* The selector ** covers every stream.
LEMMA AllCovered ==
    ASSUME NEW r \in [1..3 -> Literals]
    PROVE  Covers(<<"**">>, r)
<1> DEFINE p == <<"**">>
           used == [i \in 1..1 |-> 3]
<1>1. Len(p) = 1 /\ p[1] = "**" /\ Len(r) = 3
  OBVIOUS
<1>2. used \in [1..1 -> 0..3] /\ used[1] = 3
  OBVIOUS
<1> HIDE DEF p, used
<1>3. Takes(p, r, used, 1)
  BY <1>1, <1>2 DEF Takes, UsedBy
<1>4. \A i \in 1..1 : i = 1
  OBVIOUS
<1>5. Aligns(p, r, used)
  BY <1>1, <1>2, <1>3, <1>4 DEF Aligns
<1> QED  BY <1>1, <1>2, <1>5 DEF Covers, p

\* A literal and ** cover the streams of that realm.
LEMMA RealmCovered ==
    ASSUME NEW p, Len(p) = 2, p[1] \in Literals, p[2] = "**", NEW r \in [1..3 -> Literals]
    PROVE  Covers(p, r) <=> r[1] = p[1]
<1>0. Len(r) = 3 /\ p[1] # "**" /\ p[1] # "*"
  <2>1. Len(r) = 3
    OBVIOUS
  <2> QED  BY <2>1, RoutesAssumption
<1>1. ASSUME Covers(p, r) PROVE r[1] = p[1]
  <2>1. PICK used \in [1..2 -> 0..3] : Aligns(p, r, used)
    BY <1>0, <1>1 DEF Covers
  <2>2. Takes(p, r, used, 1)
    BY <2>1 DEF Aligns
  <2>3. used[1] = 1 /\ p[1] \in {"*", r[used[1]]}
    BY <1>0, <2>2 DEF Takes, UsedBy
  <2> QED  BY <1>0, <2>3
<1>2. ASSUME r[1] = p[1] PROVE Covers(p, r)
  <2> DEFINE used == [i \in 1..2 |-> IF i = 1 THEN 1 ELSE 3]
  <2>1. used \in [1..2 -> 0..3] /\ used[1] = 1 /\ used[2] = 3
    OBVIOUS
  <2> HIDE DEF used
  <2>2. Takes(p, r, used, 1)
    BY <1>0, <1>2, <2>1 DEF Takes, UsedBy
  <2>3. Takes(p, r, used, 2)
    BY <2>1 DEF Takes, UsedBy
  <2>4. \A i \in 1..2 : i = 1 \/ i = 2
    OBVIOUS
  <2>5. Aligns(p, r, used)
    BY <1>0, <2>1, <2>2, <2>3, <2>4 DEF Aligns
  <2> QED  BY <1>0, <2>1, <2>5 DEF Covers
<1> QED  BY <1>1, <1>2

\* Three plain segments cover the streams that agree with them one by one.
LEMMA PlainCovered ==
    ASSUME NEW p, Len(p) = 3, \A i \in 1..3 : p[i] \in Literals \cup {"*"},
           NEW r \in [1..3 -> Literals]
    PROVE  Covers(p, r) <=> \A i \in 1..3 : p[i] \in {"*", r[i]}
<1>0. Len(r) = 3
  OBVIOUS
<1>p. \A i \in 1..3 : p[i] # "**"
  BY RoutesAssumption
<1>3. 1 \in 1..3 /\ 2 \in 1..3 /\ 3 \in 1..3 /\ \A i \in 1..3 : i = 1 \/ i = 2 \/ i = 3
  OBVIOUS
<1>1. ASSUME Covers(p, r) PROVE \A i \in 1..3 : p[i] \in {"*", r[i]}
  <2>1. PICK used \in [1..3 -> 0..3] : Aligns(p, r, used)
    BY <1>0, <1>1 DEF Covers
  <2>2. Takes(p, r, used, 1) /\ Takes(p, r, used, 2) /\ Takes(p, r, used, 3)
    BY <1>3, <2>1 DEF Aligns
  <2>3. used[1] = 1 /\ p[1] \in {"*", r[used[1]]}
    BY <1>p, <1>3, <2>2 DEF Takes, UsedBy
  <2>4. used[2] = 2 /\ p[2] \in {"*", r[used[2]]}
    BY <1>p, <1>3, <2>2, <2>3 DEF Takes, UsedBy
  <2>5. used[3] = 3 /\ p[3] \in {"*", r[used[3]]}
    BY <1>p, <1>3, <2>2, <2>4 DEF Takes, UsedBy
  <2> QED  BY <1>3, <2>3, <2>4, <2>5
<1>2. ASSUME \A i \in 1..3 : p[i] \in {"*", r[i]} PROVE Covers(p, r)
  <2> DEFINE used == [i \in 1..3 |-> i]
  <2>1. used \in [1..3 -> 0..3] /\ \A i \in 1..3 : used[i] = i
    OBVIOUS
  <2> HIDE DEF used
  <2>2. ASSUME NEW i \in 1..3 PROVE UsedBy(used, i - 1) + 1 = i
    <3>1. i - 1 = 0 \/ i - 1 \in 1..3
      OBVIOUS
    <3> QED  BY <2>1, <3>1 DEF UsedBy
  <2>3. \A i \in 1..3 : Takes(p, r, used, i)
    BY <1>p, <1>2, <2>1, <2>2 DEF Takes
  <2>4. Aligns(p, r, used)
    BY <1>0, <1>3, <2>1, <2>3 DEF Aligns
  <2> QED  BY <1>0, <2>1, <2>4 DEF Covers
<1> QED  BY <1>1, <1>2

\* So they cover streams that differ in a segment if and only if it is a *.
LEMMA PlainSeveral ==
    ASSUME NEW p, Len(p) = 3, \A i \in 1..3 : p[i] \in Literals \cup {"*"}, NEW n \in 1..3
    PROVE  Several(p, n) <=> \E i \in 1..n : p[i] = "*"
<1>0. \A i \in 1..n : i \in 1..3
  OBVIOUS
<1>1. PICK a, b \in Literals : a # b
  BY RoutesAssumption
<1>2. \A r \in [1..3 -> Literals] : Covers(p, r) <=> \A i \in 1..3 : p[i] \in {"*", r[i]}
  BY PlainCovered
<1>3. ASSUME Several(p, n) PROVE \E i \in 1..n : p[i] = "*"
  <2>1. PICK q, r \in [1..3 -> Literals] :
            Covers(p, q) /\ Covers(p, r) /\ \E i \in 1..n : q[i] # r[i]
    BY <1>3 DEF Several, Extent
  <2>2. PICK i \in 1..n : q[i] # r[i]
    BY <2>1
  <2>3. p[i] \in {"*", q[i]} /\ p[i] \in {"*", r[i]}
    BY <1>0, <1>2, <2>1
  <2> QED  BY <2>2, <2>3
<1>4. ASSUME NEW i \in 1..n, p[i] = "*" PROVE Several(p, n)
  <2> DEFINE with(x) == [k \in 1..3 |-> IF p[k] = "*" THEN x ELSE p[k]]
  <2>1. \A x \in Literals : with(x) \in [1..3 -> Literals]
    OBVIOUS
  <2>2. \A x \in Literals : \A k \in 1..3 : p[k] \in {"*", with(x)[k]}
    OBVIOUS
  <2>3. with(a)[i] # with(b)[i]
    BY <1>0, <1>1, <1>4
  <2> HIDE DEF with
  <2>4. with(a) \in Extent(p, 3) /\ with(b) \in Extent(p, 3)
    BY <1>1, <1>2, <2>1, <2>2 DEF Extent
  <2> QED  BY <2>3, <2>4 DEF Several
<1> QED  BY <1>3, <1>4

\* classify_stream_selector() gives every selector it accepts the scope it needs.
LEMMA ClassifyExact ==
    ASSUME NEW p \in Patterns, Classify(p) # "refused"
    PROVE  Classify(p) = ScopeOf(p)
<1>1. PICK a, b \in Literals : a # b
  BY RoutesAssumption
<1>2. CASE p = <<"**">>
  <2>1. Classify(p) = "global"
    BY <1>2 DEF Classify
  <2> DEFINE all(x) == [k \in 1..3 |-> x]
  <2>2. \A x \in Literals : all(x) \in [1..3 -> Literals] /\ all(x)[1] = x
    OBVIOUS
  <2> HIDE DEF all
  <2>3. all(a) \in Extent(p, 3) /\ all(b) \in Extent(p, 3)
    BY <1>1, <1>2, <2>2, AllCovered DEF Extent
  <2>4. all(a)[1] # all(b)[1] /\ 1 \in 1..1
    BY <1>1, <2>2
  <2>5. Several(p, 1)
    BY <2>3, <2>4 DEF Several
  <2> QED  BY <2>1, <2>5, ScopeCases
<1>3. CASE p # <<"**">> /\ Len(p) = 2 /\ p[2] = "**" /\ p[1] \in Literals
  <2>1. Classify(p) = "realm"
    BY <1>3 DEF Classify
  <2>2. \A r \in [1..3 -> Literals] : Covers(p, r) <=> r[1] = p[1]
    BY <1>3, RealmCovered
  <2>3. ~Several(p, 1)
    <3>1. \A i \in 1..1 : i = 1
      OBVIOUS
    <3> QED  BY <2>2, <3>1 DEF Several, Extent
  <2> DEFINE all(x) == [k \in 1..3 |-> IF k = 1 THEN p[1] ELSE x]
  <2>4. \A x \in Literals : all(x) \in [1..3 -> Literals] /\ all(x)[1] = p[1] /\ all(x)[2] = x
    BY <1>3
  <2> HIDE DEF all
  <2>5. all(a) \in Extent(p, 3) /\ all(b) \in Extent(p, 3)
    BY <1>1, <2>2, <2>4 DEF Extent
  <2>6. all(a)[2] # all(b)[2] /\ 2 \in 1..2
    BY <1>1, <2>4
  <2>7. Several(p, 2)
    BY <2>5, <2>6 DEF Several
  <2> QED  BY <2>1, <2>3, <2>7, ScopeCases
<1>4. CASE p # <<"**">> /\ ~(Len(p) = 2 /\ p[2] = "**" /\ p[1] \in Literals)
  <2>1. /\ Len(p) = 3 /\ \A i \in 1..3 : p[i] \in Literals \cup {"*"}
        /\ Classify(p) = IF p[1] = "*" THEN "global"
                         ELSE IF p[2] = "*" THEN "realm"
                         ELSE IF p[3] = "*" THEN "area"
                         ELSE "resource"
    BY <1>4 DEF Classify
  <2>2. /\ Several(p, 1) <=> \E i \in 1..1 : p[i] = "*"
        /\ Several(p, 2) <=> \E i \in 1..2 : p[i] = "*"
        /\ Several(p, 3) <=> \E i \in 1..3 : p[i] = "*"
    BY <2>1, PlainSeveral
  <2>3. /\ Several(p, 1) <=> p[1] = "*"
        /\ Several(p, 2) <=> p[1] = "*" \/ p[2] = "*"
        /\ Several(p, 3) <=> p[1] = "*" \/ p[2] = "*" \/ p[3] = "*"
    <3>1. /\ \A i \in 1..1 : i = 1
          /\ \A i \in 1..2 : i = 1 \/ i = 2
          /\ \A i \in 1..3 : i = 1 \/ i = 2 \/ i = 3
          /\ 1 \in 1..1 /\ 1 \in 1..2 /\ 2 \in 1..2 /\ 1 \in 1..3 /\ 2 \in 1..3 /\ 3 \in 1..3
      OBVIOUS
    <3> QED  BY <2>2, <3>1
  <2> QED  BY <2>1, <2>3, ScopeCases
<1> QED  BY <1>2, <1>3, <1>4

\* What validation has recorded.
ValidationInv ==
    /\ checking = "pattern" =>
          /\ pattern \in Patterns /\ depth \in Depths
          /\ verdict = IF Scans(pattern) /\ (depth = 0 \/ Fits(pattern, depth))
                       THEN "accepted" ELSE "refused"
    /\ checking = "selector" => pattern \in Patterns /\ verdict = Classify(pattern)

\* A pattern that passes the scan fits a depth if and only if some route of it matches.
LEMMA FitsExact ==
    ASSUME NEW p \in Patterns, Scans(p), NEW n \in Nat \ {0}
    PROVE  Fits(p, n) <=> Extent(p, n) # {}
<1>1. /\ Len(p) \in Nat \ {0} /\ DOMAIN p = 1..Len(p)
      /\ \A k \in 1..Len(p) : p[k] \in Literals \cup {"*", "**", "", "partly*"}
  BY PathFacts DEF Patterns
<1>2. Scanned(p, n)
  BY <1>1 DEF Scans, Scanned
<1> QED  BY <1>2, FitsCovers, CoversFits DEF Extent

\* What was recorded is right.
LEMMA ValidationImplies == ValidationInv => ValidationIsExact
<1> SUFFICES ASSUME ValidationInv PROVE ValidationIsExact
  OBVIOUS
<1>1. ASSUME checking = "pattern"
      PROVE  verdict = "accepted" <=>
                Scans(pattern) /\ (depth = 0 \/ Extent(pattern, depth) # {})
  <2>1. /\ pattern \in Patterns /\ depth \in Nat
        /\ verdict = IF Scans(pattern) /\ (depth = 0 \/ Fits(pattern, depth))
                     THEN "accepted" ELSE "refused"
    BY <1>1, RoutesAssumption DEF ValidationInv
  <2>2. Scans(pattern) /\ depth # 0 => (Fits(pattern, depth) <=> Extent(pattern, depth) # {})
    BY <2>1, FitsExact
  <2> QED  BY <2>1, <2>2
<1>2. ASSUME checking = "selector", verdict # "refused" PROVE verdict = ScopeOf(pattern)
  BY <1>2, ClassifyExact DEF ValidationInv
<1>3. AcceptedCanMatch
  BY <1>1 DEF AcceptedCanMatch
<1>4. ScopeIsExtent
  BY <1>2 DEF ScopeIsExtent, ScopeOf, Several
<1> QED  BY <1>3, <1>4 DEF ValidationIsExact

\* Registration patterns are accepted exactly if a route of the depth of their domain can
\* match them, and stream selectors get the scope of the streams they cover, for
\* patterns of every length, any depths and any segments.
THEOREM ValidationIsRight == RoutesSpec => []ValidationIsExact
<1>1. RoutesInit => ValidationInv
  BY DEF RoutesInit, ValidationInv
<1>2. ValidationInv /\ [RoutesNext]_routesVars => ValidationInv'
  <2> SUFFICES ASSUME ValidationInv, [RoutesNext]_routesVars PROVE ValidationInv'
    OBVIOUS
  <2>1. ASSUME NEW p \in Unchecked, NEW n \in Depths, ValidatePattern(p, n) PROVE ValidationInv'
    <3>1. p \in Patterns
      BY DEF Unchecked
    <3> QED  BY <2>1, <3>1 DEF ValidatePattern, BeginCheck, ValidationInv
  <2>2. ASSUME NEW p \in Unchecked, ValidateSelector(p) PROVE ValidationInv'
    <3>1. p \in Patterns
      BY DEF Unchecked
    <3> QED  BY <2>2, <3>1 DEF ValidateSelector, BeginCheck, ValidationInv
  <2>3. ASSUME NEW p \in Matchable, NEW r \in BrokerRoutes, StartMatch(r, p) PROVE ValidationInv'
    BY <2>3 DEF StartMatch, ValidationInv
  <2>4. CASE MatchOne \/ MatchDouble \/ Backtrack \/ FinishMatch
    BY <2>4 DEF MatchOne, MatchDouble, Backtrack, FinishMatch, InLoop, ValidationInv
  <2>5. CASE UNCHANGED routesVars
    BY <2>5 DEF routesVars, ValidationInv
  <2> QED  BY <2>1, <2>2, <2>3, <2>4, <2>5 DEF RoutesNext
<1> QED  BY <1>1, <1>2, ValidationImplies, PTL DEF RoutesSpec
================================================================================
