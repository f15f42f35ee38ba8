------------------------------ MODULE Registrations ------------------------------
(***************************************************************************)
(* Restorable subscriptions and the routing of their notifications, as the *)
(* KV client uses them: subscribe() opens a broadcast receiver, asks the   *)
(* broker, and registers what it learned; after a reconnect the supervisor *)
(* asks again for every registration, one round trip at a time, before the *)
(* session is served; a handle picks its notifications out of the shared   *)
(* broadcast by comparing wire ids.  The broker is external: it numbers    *)
(* the registrations of each session afresh, may reject or be slow.        *)
(*                                                                         *)
(* A definition X_Y stated before X is a faulty variant of X: it is what   *)
(* the properties are tried against, and no specification uses it.         *)
(***************************************************************************)
EXTENDS Integers, Sequences, FiniteSets

CONSTANTS
    Subs,         \* subscriptions, each with its own pattern
    Nobody,       \* not a subscription
    WireIds,      \* ids a broker may give out
    Capacity,     \* of a broadcast receiver (64 in the code)
    MaxGeneration,  \* bound on lost sessions
    MaxNotices      \* bound on notifications

ASSUME RegistrationsAssumption ==
    /\ Nobody \notin Subs
    /\ WireIds \subseteq Nat \ {0}
    /\ Capacity \in Nat \ {0}
    /\ MaxGeneration \in Nat
    /\ MaxNotices \in Nat

VARIABLES
    phase,       \* "down", "restoring" or "live"
    generation,  \* number of the session
    registry,    \* AsyncConnection::registrations
    wire,        \* wire_id of each handle, 0 before it has one
    pc,          \* progress of each subscription
    buf,         \* its broadcast receiver
    lagged,      \* that receiver has overflowed since it was polled
    todo,        \* registrations the running restore has still to do
    current,     \* the one it is waiting for
    first,       \* the subscription whose request has id 1 in this session
    \* the broker
    issued,      \* external: the id each subscription has in this session
    replies,     \* external: answers to restore requests still in transit
    notices,     \* external: notifications sent so far
    \* history
    wireGen,     \* the session that assigned wire
    got,         \* the notice a handle yielded last: the subscription and session
                 \* it was sent for, and the session of the id it matched
    strayed,     \* sessions in which a restore round trip ran into its timeout
    snapshot,    \* the registrations the last restore set out with
    failed       \* those of them whose restore did not succeed

connVars == <<phase, generation, registry, todo, current, first>>
subVars == <<wire, pc, buf, lagged>>
brokerVars == <<issued, replies, notices>>
history == <<wireGen, got, strayed, snapshot, failed>>
vars == <<connVars, subVars, brokerVars, history>>

Notice == [id : WireIds, sub : Subs, gen : 0..MaxGeneration]
Yielded == [sub : Subs \cup {Nobody}, gen : -1..MaxGeneration, by : -1..MaxGeneration]
NoNotice == [sub |-> Nobody, gen |-> -1, by |-> -1]
ReplyMsg == [sub : Subs, id : WireIds \cup {0}]

TypeOK ==
    /\ phase \in {"down", "restoring", "live"}
    /\ generation \in 0..MaxGeneration
    /\ registry \subseteq Subs
    /\ wire \in [Subs -> WireIds \cup {0}]
    /\ pc \in [Subs -> {"new", "asked", "answered", "open", "closed"}]
    /\ buf \in [Subs -> Seq(Notice)]
    /\ \A s \in Subs : Len(buf[s]) <= Capacity
    /\ lagged \in [Subs -> BOOLEAN]
    /\ todo \subseteq Subs
    /\ current \in Subs \cup {Nobody}
    /\ first \in Subs \cup {Nobody}
    /\ issued \in [Subs -> WireIds \cup {0}]
    /\ replies \in Seq(ReplyMsg)
    /\ notices \in 0..MaxNotices
    /\ wireGen \in [Subs -> -1..MaxGeneration]
    /\ got \in [Subs -> Yielded]
    /\ strayed \subseteq 0..MaxGeneration
    /\ snapshot \subseteq Subs
    /\ failed \subseteq Subs

Init ==
    /\ phase = "down"
    /\ generation = 0
    /\ registry = {}
    /\ wire = [s \in Subs |-> 0]
    /\ pc = [s \in Subs |-> "new"]
    /\ buf = [s \in Subs |-> <<>>]
    /\ lagged = [s \in Subs |-> FALSE]
    /\ todo = {}
    /\ current = Nobody
    /\ first = Nobody
    /\ issued = [s \in Subs |-> 0]
    /\ replies = <<>>
    /\ notices = 0
    /\ wireGen = [s \in Subs |-> -1]
    /\ got = [s \in Subs |-> NoNotice]
    /\ strayed = {}
    /\ snapshot = {}
    /\ failed = {}

\* Ids the broker has not given out in this session.
FreshIds == WireIds \ {issued[s] : s \in Subs}

-----------------------------------------------------------------------------
(* The handle: subscribe(), the stream, unsubscribe() and drop. *)

\* subscribe() opens its receiver and the broker registers the pattern.  The
\* first request after the session's reset of next_request_id carries id 1.
Ask(s) ==
    /\ phase = "live"
    /\ pc[s] = "new"
    /\ \E i \in FreshIds : issued' = [issued EXCEPT ![s] = i]
    /\ pc' = [pc EXCEPT ![s] = "asked"]
    /\ first' = IF first = Nobody THEN s ELSE first
    /\ UNCHANGED <<phase, generation, registry, todo, current, wire, buf, lagged,
                   replies, notices, history>>

\* The response reaches the caller, in the session that carried the request.
Answered(s) ==
    /\ phase = "live"
    /\ pc[s] = "asked"
    /\ issued[s] # 0
    /\ pc' = [pc EXCEPT ![s] = "answered"]
    /\ wire' = [wire EXCEPT ![s] = issued[s]]
    /\ wireGen' = [wireGen EXCEPT ![s] = generation]
    /\ UNCHANGED <<connVars, buf, lagged, brokerVars, got, strayed, snapshot, failed>>

\* The subscribe request fails: rejected, timed out or disconnected.
AskFails(s) ==
    /\ pc[s] = "asked"
    /\ pc' = [pc EXCEPT ![s] = "closed"]
    /\ buf' = [buf EXCEPT ![s] = <<>>]
    /\ UNCHANGED <<connVars, wire, lagged, brokerVars, history>>

\* register_restorable(): only now is the subscription known to a restore.
Register(s) ==
    /\ pc[s] = "answered"
    /\ pc' = [pc EXCEPT ![s] = "open"]
    /\ registry' = registry \cup {s}
    /\ UNCHANGED <<phase, generation, todo, current, first, wire, buf, lagged,
                   brokerVars, history>>

Poll_Unfiltered(s) ==
    /\ pc[s] = "open"
    /\ buf[s] # <<>>
    /\ buf' = [buf EXCEPT ![s] = Tail(@)]
    /\ got' = [got EXCEPT ![s] = [sub |-> Head(buf[s]).sub, gen |-> Head(buf[s]).gen, by |-> wireGen[s]]]
    /\ UNCHANGED <<connVars, wire, pc, lagged, brokerVars, wireGen, strayed, snapshot, failed>>

\* poll_next(): a lagging receiver reports backpressure, a notification with
\* another wire id is skipped, the rest is yielded.
Poll(s) ==
    /\ pc[s] = "open"
    /\ \/ /\ lagged[s]
          /\ lagged' = [lagged EXCEPT ![s] = FALSE]
          /\ UNCHANGED <<buf, got>>
       \/ /\ ~lagged[s]
          /\ buf[s] # <<>>
          /\ buf' = [buf EXCEPT ![s] = Tail(@)]
          /\ IF Head(buf[s]).id = wire[s]
             THEN got' = [got EXCEPT ![s] = [sub |-> Head(buf[s]).sub,
                                             gen |-> Head(buf[s]).gen,
                                             by |-> wireGen[s]]]
             ELSE UNCHANGED got
          /\ UNCHANGED lagged
    /\ UNCHANGED <<connVars, wire, pc, brokerVars, wireGen, strayed, snapshot, failed>>

\* unsubscribe() deactivates the registration and tells the broker; dropping
\* the handle only deactivates.
Leave(s) ==
    /\ pc[s] = "open"
    /\ pc' = [pc EXCEPT ![s] = "closed"]
    /\ registry' = registry \ {s}
    /\ buf' = [buf EXCEPT ![s] = <<>>]
    /\ \/ phase = "live" /\ issued' = [issued EXCEPT ![s] = 0]
       \/ UNCHANGED issued
    /\ UNCHANGED <<phase, generation, todo, current, first, wire, lagged,
                   replies, notices, history>>

-----------------------------------------------------------------------------
(* Notifications. *)

\* publish_notification(): every open receiver of the message type gets the
\* payload; a full receiver loses its oldest entry.
Publish(n) ==
    LET listening == {s \in Subs : pc[s] \in {"asked", "answered", "open"}} IN
    /\ buf' = [s \in Subs |->
                  IF s \notin listening THEN buf[s]
                  ELSE IF Len(buf[s]) < Capacity THEN Append(buf[s], n)
                  ELSE Append(Tail(buf[s]), n)]
    /\ lagged' = [s \in Subs |->
                  lagged[s] \/ (s \in listening /\ Len(buf[s]) >= Capacity)]

\* The broker notifies a subscription; the session, or a restore waiting for
\* a frame of another type, publishes it.
Notify(s) ==
    /\ phase = "live" \/ current # Nobody
    /\ issued[s] # 0
    /\ notices < MaxNotices
    /\ notices' = notices + 1
    /\ Publish([id |-> issued[s], sub |-> s, gen |-> generation])
    /\ UNCHANGED <<connVars, wire, pc, issued, replies, history>>

-----------------------------------------------------------------------------
(* Sessions. *)

\* A session is authenticated: the registrations are snapshot for restoring.
StartRestore ==
    /\ phase = "down"
    /\ phase' = "restoring"
    /\ todo' = registry
    /\ snapshot' = registry
    /\ failed' = {}
    /\ UNCHANGED <<generation, registry, current, first, subVars, brokerVars,
                   wireGen, got, strayed>>

\* round_trip_session() writes the next registration, under correlation 1; the
\* broker registers it under a fresh id, rejects it or never answers.
RestoreNext(s) ==
    /\ phase = "restoring"
    /\ current = Nobody
    /\ s \in todo
    /\ current' = s
    /\ todo' = todo \ {s}
    /\ \/ \E i \in FreshIds \cup {0} :
             /\ issued' = [issued EXCEPT ![s] = i]
             /\ replies' = Append(replies, [sub |-> s, id |-> i])
       \/ UNCHANGED <<issued, replies>>
    /\ UNCHANGED <<phase, generation, registry, first, subVars, notices, history>>

\* The loop takes the next frame of the registration's message type for its
\* answer; a decoded id replaces the handle's, an error leaves the old one.
RestoreReply ==
    /\ phase = "restoring"
    /\ current # Nobody
    /\ replies # <<>>
    /\ replies' = Tail(replies)
    /\ current' = Nobody
    /\ IF Head(replies).id # 0
       THEN /\ wire' = [wire EXCEPT ![current] = Head(replies).id]
            /\ wireGen' = [wireGen EXCEPT ![current] = generation]
            /\ UNCHANGED failed
       ELSE /\ failed' = failed \cup {current}
            /\ UNCHANGED <<wire, wireGen>>
    /\ UNCHANGED <<phase, generation, registry, todo, first, pc, buf, lagged,
                   issued, notices, got, strayed, snapshot>>

RestoreTimesOut_Abandons ==
    /\ phase = "restoring"
    /\ current # Nobody
    /\ current' = Nobody
    /\ todo' = {}
    /\ failed' = failed \cup {current}
    /\ strayed' = strayed \cup {generation}
    /\ UNCHANGED <<phase, generation, registry, first, subVars, brokerVars, wireGen, got, snapshot>>

\* The round trip times out; the restore goes on with the next registration.
RestoreTimesOut ==
    /\ phase = "restoring"
    /\ current # Nobody
    /\ current' = Nobody
    /\ failed' = failed \cup {current}
    /\ strayed' = strayed \cup {generation}
    /\ UNCHANGED <<phase, generation, registry, todo, first, subVars, brokerVars,
                   wireGen, got, snapshot>>

\* Every registration was tried: the session is served.
ServeSession ==
    /\ phase = "restoring"
    /\ current = Nobody
    /\ todo = {}
    /\ phase' = "live"
    /\ UNCHANGED <<generation, registry, todo, current, first, subVars, brokerVars, history>>

\* A restore answer that comes after its timeout carries correlation 1 and is
\* the response to the session's first request if that still waits.
LateReply ==
    /\ phase = "live"
    /\ replies # <<>>
    /\ first # Nobody
    /\ pc[first] = "asked"
    /\ replies' = Tail(replies)
    /\ IF Head(replies).id # 0
       THEN /\ pc' = [pc EXCEPT ![first] = "answered"]
            /\ wire' = [wire EXCEPT ![first] = Head(replies).id]
            /\ wireGen' = [wireGen EXCEPT ![first] = generation]
            /\ UNCHANGED buf
       ELSE /\ pc' = [pc EXCEPT ![first] = "closed"]
            /\ buf' = [buf EXCEPT ![first] = <<>>]
            /\ UNCHANGED <<wire, wireGen>>
    /\ UNCHANGED <<connVars, lagged, issued, notices, got, strayed, snapshot, failed>>

LoseSession_KeepsReplies ==
    /\ phase = "live"
    /\ generation < MaxGeneration
    /\ phase' = "down"
    /\ generation' = generation + 1
    /\ first' = Nobody
    /\ issued' = [s \in Subs |-> 0]
    /\ UNCHANGED <<registry, todo, current, replies, subVars, notices, history>>

\* The transport fails, or an answer without a waiting request disconnects.
LoseSession ==
    /\ phase = "live"
    /\ generation < MaxGeneration
    /\ phase' = "down"
    /\ generation' = generation + 1
    /\ first' = Nobody
    /\ issued' = [s \in Subs |-> 0]
    /\ replies' = <<>>
    /\ UNCHANGED <<registry, todo, current, subVars, notices, history>>

-----------------------------------------------------------------------------
RestoreStep == StartRestore \/ RestoreReply \/ RestoreTimesOut \/ ServeSession
                 \/ \E s \in Subs : RestoreNext(s)

Next ==
    \/ \E s \in Subs :
          \/ Ask(s) \/ Answered(s) \/ AskFails(s) \/ Register(s) \/ Poll(s) \/ Leave(s)
          \/ Notify(s)
    \/ RestoreStep \/ LateReply \/ LoseSession

Spec == Init /\ [][Next]_vars

-----------------------------------------------------------------------------
\* Unless a restore round trip of this session timed out, a handle whose id
\* was assigned in this session holds the id the broker gave its own pattern,
\* however restored answers and new subscriptions interleave.
OwnWireId ==
    \A s \in Subs :
        (/\ phase = "live"
         /\ pc[s] = "open"
         /\ wireGen[s] = generation
         /\ generation \notin strayed) => wire[s] = issued[s]

\* Every registration present when a restore began is, once the session is
\* served, current again or known to have failed: one failed round trip does
\* not cost the others theirs.
RegistrationsRestored ==
    phase = "live" => \A s \in snapshot : wireGen[s] = generation \/ s \in failed

\* A handle yields a notice meant for another subscription only by matching an
\* id of one session with an id of another, or in a session where a restore
\* answer strayed: inside one orderly session ids route exactly.
SameSessionRouting ==
    \A s \in Subs : got[s].sub # Nobody =>
        got[s].sub = s \/ got[s].gen # got[s].by \/ got[s].gen \in strayed

=============================================================================
