-------------------------------- MODULE Heartbeat --------------------------------
(***************************************************************************)
(* The heartbeat of a WebSocket session (run_websocket): one timer and one *)
(* flag, awaiting_pong, moved by every branch of the select loop.  Time is *)
(* counted in ticks and the runtime is prompt: a timer that is due fires   *)
(* before time goes on, unless the loop itself is suspended in a write     *)
(* that the peer does not read.  The peer is external: it may answer, send *)
(* frames of its own, go silent, or stop reading.                          *)
(*                                                                         *)
(* A definition X_Y stated before X is a faulty variant of X: it is what   *)
(* the properties are tried against, and no specification uses it.         *)
(***************************************************************************)
EXTENDS Integers

CONSTANTS
    Idle,      \* HeartbeatOptions::idle_interval, in ticks
    Timeout    \* HeartbeatOptions::timeout, in ticks

ASSUME HeartbeatAssumption == Idle \in Nat \ {0} /\ Timeout \in Nat \ {0}

VARIABLES
    loop,      \* "select", "writing" (suspended in a write), "lost" or "heartbeat":
               \* how the session ended
    next,      \* what the write in progress leads to
    timer,     \* ticks until the heartbeat branch is due
    awaiting,  \* awaiting_pong
    \* history
    quiet,     \* ticks since the last inbound frame or accepted request
    pinged,    \* ticks since the last ping while nothing has answered it, else -1
    stalled    \* a write took time since the last inbound frame or accepted request

heartbeatVars == <<loop, next, timer, awaiting, quiet, pinged, stalled>>

Cap == Idle + Timeout + 1
Older(n) == IF n = -1 THEN -1 ELSE IF n < Cap THEN n + 1 ELSE Cap

HeartbeatInit ==
    /\ loop = "select" /\ next = "none"
    /\ timer = Idle
    /\ awaiting = FALSE
    /\ quiet = 0 /\ pinged = -1 /\ stalled = FALSE

\* Something was heard or asked: the idle interval starts again.
Restart ==
    /\ timer' = Idle
    /\ quiet' = 0 /\ stalled' = FALSE

Answers_StillAwaiting == Restart /\ pinged' = -1 /\ UNCHANGED awaiting

\* ... and it counts as an answer to the ping.
Answers ==
    /\ Restart
    /\ awaiting' = FALSE /\ pinged' = -1

\* A branch of the select loop starts a write; it may have to wait for the peer.
StartWrite(what) ==
    /\ loop = "select"
    /\ loop' = "writing" /\ next' = what
    /\ UNCHANGED <<timer, awaiting, quiet, pinged, stalled>>

\* Command::Request, fresh and within the broker's limits, or Command::Send.  A
\* refused command touches neither the timer nor the flag.
TakeCommand == StartWrite("request") \/ StartWrite("send")

\* Message::Ping is answered before the timer is set.
PeerPings == StartWrite("pong")

\* Message::Binary that decodes, and Message::Pong.
PeerAnswers == loop = "select" /\ Answers /\ UNCHANGED <<loop, next>>

\* Any other frame: it sets the timer and leaves awaiting_pong.
PeerSendsOther == loop = "select" /\ Restart /\ UNCHANGED <<loop, next, awaiting, pinged>>

\* The stream ended, a frame did not decode, or Command::Close was taken.
SessionEnds ==
    /\ loop = "select"
    /\ loop' = "lost"
    /\ UNCHANGED <<next, timer, awaiting, quiet, pinged, stalled>>

\* The heartbeat branch: a ping still unanswered ends the session, otherwise the
\* next ping is written.
Fire ==
    /\ loop = "select"
    /\ timer = 0
    /\ IF awaiting
       THEN /\ loop' = "heartbeat"
            /\ UNCHANGED <<next, timer, awaiting, quiet, pinged, stalled>>
       ELSE StartWrite("ping")

\* The write is done, and the rest of its branch runs.
Written ==
    /\ loop = "writing"
    /\ loop' = "select" /\ next' = "none"
    /\ CASE next = "request" -> Answers
         [] next = "send" -> UNCHANGED <<timer, awaiting, quiet, pinged, stalled>>
         [] next = "pong" -> Restart /\ UNCHANGED <<awaiting, pinged>>
         [] next = "ping" -> /\ awaiting' = TRUE /\ timer' = Timeout /\ pinged' = 0
                             /\ UNCHANGED <<quiet, stalled>>

\* The write fails: every pending request fails and the session is over.  A failed
\* Command::Send only reports its error.
WriteFails ==
    /\ loop = "writing"
    /\ loop' = IF next = "send" THEN "select" ELSE "lost"
    /\ next' = "none"
    /\ UNCHANGED <<timer, awaiting, quiet, pinged, stalled>>

Tick ==
    /\ loop = "writing" \/ (loop = "select" /\ timer > 0)
    /\ timer' = IF timer > 0 THEN timer - 1 ELSE 0
    /\ quiet' = Older(quiet) /\ pinged' = Older(pinged)
    /\ stalled' = (stalled \/ loop = "writing")
    /\ UNCHANGED <<loop, next, awaiting>>

HeartbeatNext ==
    \/ TakeCommand \/ PeerPings \/ PeerAnswers \/ PeerSendsOther \/ SessionEnds
    \/ Fire \/ Written \/ WriteFails \/ Tick

HeartbeatSpec == HeartbeatInit /\ [][HeartbeatNext]_heartbeatVars

-----------------------------------------------------------------------------
\* The heartbeat ends a session only over a ping that nothing has answered, neither a
\* pong, a frame nor a new request, for one of its two intervals.
Shorter == IF Idle < Timeout THEN Idle ELSE Timeout
NoFalseAlarm == loop = "heartbeat" => pinged >= Shorter

\* A session in which nothing is heard or asked is over after both intervals, for
\* every order of frames, commands and timers, unless the loop itself was held up
\* by a write the peer did not read: no timer runs during a write.
SilenceBounded == loop = "select" /\ ~stalled => quiet <= Idle + Timeout

\* The heartbeat ends the sessions that are silent, and no others.
HeartbeatExact == NoFalseAlarm /\ SilenceBounded
================================================================================
