-------------------------- MODULE SharedSubscriptions --------------------------
(***************************************************************************)
(* The subscriptions that Notice, Stream and Schedule handles share.  Each *)
(* client keeps, under a fair mutex that it holds across the broker's      *)
(* answer, a map from patterns to one registration and the number of       *)
(* handles that refer to it.  Client::notice() returns one cached client,  *)
(* which subscribes by pattern and unsubscribes by wire id, and has        *)
(* unsubscribe_all() and an active flag that ends its streams.  Every      *)
(* Client::stream() or schedule() is a client of its own, which subscribes *)
(* and unsubscribes by pattern.                                            *)
(*                                                                         *)
(* A place is where a registration is kept: one pattern of the Notice      *)
(* client's map, or the pattern of interest in the map of one Stream or    *)
(* Schedule client.  Notice has several places under one mutex, the others *)
(* one mutex each.                                                         *)
(*                                                                         *)
(* A registration is named by the handle that created it.  The broker is   *)
(* external: it knows a registration by the id it gave it in this session, *)
(* and a request whose caller has given up may still reach it.             *)
(*                                                                         *)
(* A definition X_Y stated before X is a faulty variant of X: it is what   *)
(* the properties are tried against, and no specification uses it.         *)
(***************************************************************************)
EXTENDS Integers, Sequences

CONSTANTS
    Sharers,    \* calls of subscribe() and the handles they return
    Clears,     \* calls of unsubscribe_all()
    Places,     \* patterns of the Notice client, or clients with the same pattern
    Main,       \* one of them, whose mutex is the Notice client's
    BrokerIds,  \* ids that the broker gives to registrations
    NoTask, NoEntry, NoId,
    MaxLosses   \* bound on lost sessions

ASSUME SharedAssumption ==
    /\ Main \in Places
    /\ NoId \notin BrokerIds
    /\ NoTask \notin Sharers \cup Clears
    /\ NoEntry \notin [refs : Nat, reg : Sharers]
    /\ Sharers \cap Clears = {}
    /\ MaxLosses \in Nat

VARIABLES
    family,   \* "notice" or "pattern" (Stream, Schedule)
    session,  \* number of the session and whether it is served
    step,     \* progress of each call
    owner,    \* the place it is about
    reg,      \* the registration of a handle
    stored,   \* RestorableRegistration::wire_id
    line,     \* calls that wait for each mutex
    holder,   \* the call that holds it across an await
    entry,    \* SharedNoticeSubscription and its kin
    enabled,  \* RestorableRegistration::active
    ended,    \* registrations whose Notice flag is false
    reply,    \* response of the request a call waits for
    sentIn,   \* session it was stamped for
    pending,  \* external: requests the broker may still take
    served,   \* external: registrations it serves in this session
    given,    \* external: the id it gave to each, last
    \* history
    excused,     \* registrations the broker may not serve, and why it is known:
                 \* an unanswered or late UNSUBSCRIBE, a restore that failed or was
                 \* answered for another, an answer that crossed a reconnect, an
                 \* UNSUBSCRIBE of another client, or one that names its id while
                 \* its own registration has another since the last restore
    miscounted,  \* registrations met by an unsubscribe() overtaken by unsubscribe_all()
    cleared,     \* registrations that unsubscribe_all() ended
    tainted      \* places with a dropped handle, an unanswered request, a miscount or an
                 \* UNSUBSCRIBE that did not name the id of its registration

lockVars == <<line, holder>>
handleVars == <<owner, reg, stored>>
regVars == <<entry, enabled, ended>>
wireVars == <<reply, sentIn, pending>>
servedVars == <<served, given>>
sharedHistory == <<excused, miscounted, cleared, tainted>>
sharedVars == <<family, session, step, handleVars, lockVars, regVars, wireVars, servedVars,
                sharedHistory>>

SharedTasks == Sharers \cup Clears

SharedInit ==
    /\ family \in {"notice", "pattern"}
    /\ session = [number |-> 0, up |-> TRUE]
    /\ step = [t \in SharedTasks |-> "new"]
    /\ owner = [t \in SharedTasks |-> Main]
    /\ reg = [h \in Sharers |-> NoTask]
    /\ stored = [h \in Sharers |-> NoId]
    /\ line = [k \in Places |-> <<>>]
    /\ holder = [k \in Places |-> NoTask]
    /\ entry = [k \in Places |-> NoEntry]
    /\ enabled = {}
    /\ ended = {}
    /\ reply = [t \in SharedTasks |-> "none"]
    /\ sentIn = [t \in SharedTasks |-> 0]
    /\ pending = {}
    /\ served = {}
    /\ given = [h \in Sharers |-> NoId]
    /\ excused = {}
    /\ miscounted = {}
    /\ cleared = {}
    /\ tainted = {}

-----------------------------------------------------------------------------
(* The mutex and the requests made under it. *)

\* The mutex of a place.
Mutex(k) == IF family = "notice" THEN Main ELSE k

\* lock().await: calls wait in order.
Wait(t, k, next) ==
    /\ step' = [step EXCEPT ![t] = next]
    /\ line' = [line EXCEPT ![Mutex(k)] = Append(@, t)]

\* t has the mutex of place k.
Turn(t, k) ==
    /\ holder[Mutex(k)] = NoTask
    /\ line[Mutex(k)] # <<>>
    /\ Head(line[Mutex(k)]) = t
    /\ line' = [line EXCEPT ![Mutex(k)] = Tail(@)]

\* A request is queued, with the wire id that Notice UNSUBSCRIBE names, and the
\* mutex kept until it is answered.
AskHolding(t, k, what, id, next) ==
    /\ step' = [step EXCEPT ![t] = next]
    /\ holder' = [holder EXCEPT ![Mutex(k)] = t]
    /\ sentIn' = [sentIn EXCEPT ![t] = session.number]
    /\ reply' = [reply EXCEPT ![t] = "none"]
    /\ pending' = pending \cup {[task |-> t, what |-> what, id |-> id]}

\* The call that holds the mutex returns, and its response is read.
Finish(t, next) ==
    /\ step' = [step EXCEPT ![t] = next]
    /\ reply' = [reply EXCEPT ![t] = "none"]
    /\ sentIn' = [sentIn EXCEPT ![t] = 0]
    /\ holder' = [holder EXCEPT ![Mutex(owner[t])] = NoTask]

\* The future is dropped while it waits; the reference of a closed handle stays.
DropWaiting(t) ==
    /\ step[t] \in {"joining", "leaving", "clearing"}
    /\ step' = [step EXCEPT ![t] = "gone"]
    /\ line' = [line EXCEPT ![Mutex(owner[t])] = SelectSeq(@, LAMBDA u : u # t)]
    /\ tainted' = IF step[t] = "leaving" THEN tainted \cup {owner[t]} ELSE tainted
    /\ UNCHANGED <<family, session, handleVars, holder, regVars, wireVars, servedVars,
                   excused, miscounted, cleared>>

\* The session of its request is not the one that is served now.
Crossed(t) == sentIn[t] # session.number

-----------------------------------------------------------------------------
(* subscribe(). *)

\* The receiver is opened and the call queues for the mutex.
Subscribe(h, k) ==
    /\ step[h] = "new"
    /\ owner' = [owner EXCEPT ![h] = k]
    /\ Wait(h, k, "joining")
    /\ UNCHANGED <<family, session, reg, stored, holder, regVars, wireVars, servedVars,
                   sharedHistory>>

Share_Uncounted(k) == entry

\* references += 1
Share(k) == [entry EXCEPT ![k].refs = @ + 1]

\* A known pattern is shared at once, an unknown one is asked for.
Join(h) ==
    LET k == owner[h] IN
    /\ step[h] = "joining"
    /\ Turn(h, k)
    /\ \/ /\ entry[k] # NoEntry
          /\ entry' = Share(k)
          /\ reg' = [reg EXCEPT ![h] = entry[k].reg]
          /\ step' = [step EXCEPT ![h] = "open"]
          /\ UNCHANGED <<holder, wireVars>>
       \/ /\ entry[k] = NoEntry
          /\ AskHolding(h, k, "subscribe", NoId, "asking")
          /\ UNCHANGED <<entry, reg>>
    /\ UNCHANGED <<family, session, owner, stored, enabled, ended, servedVars, sharedHistory>>

\* The answer is decoded: register_restorable and the first reference.
Joined(h) ==
    /\ step[h] = "asking"
    /\ reply[h] = "ok"
    /\ Finish(h, "open")
    /\ reg' = [reg EXCEPT ![h] = h]
    /\ stored' = [stored EXCEPT ![h] = given[h]]
    /\ entry' = [entry EXCEPT ![owner[h]] = [refs |-> 1, reg |-> h]]
    /\ enabled' = enabled \cup {h}
    /\ excused' = IF Crossed(h) THEN excused \cup {h} ELSE excused
    /\ UNCHANGED <<family, session, owner, line, ended, pending, servedVars,
                   miscounted, cleared, tainted>>

\* Rejected; or timed out, lost or dropped, and perhaps subscribed all the same.
JoinFails(h) ==
    /\ step[h] = "asking"
    /\ Finish(h, "gone")
    /\ tainted' = IF reply[h] = "error" THEN tainted ELSE tainted \cup {owner[h]}
    /\ UNCHANGED <<family, session, handleVars, line, regVars, pending, servedVars,
                   excused, miscounted, cleared>>

-----------------------------------------------------------------------------
(* unsubscribe() and drop. *)

\* The handle is closed.  Notice looks at its flag before it waits.
Unsubscribe(h) ==
    /\ step[h] = "open"
    /\ IF reg[h] \in ended
       THEN step' = [step EXCEPT ![h] = "gone"] /\ UNCHANGED line
       ELSE Wait(h, owner[h], "leaving")
    /\ UNCHANGED <<family, session, handleVars, holder, regVars, wireVars, servedVars,
                   sharedHistory>>

\* What the pattern maps to is not what this handle subscribed.
Astray(h) == entry[owner[h]].reg # reg[h]

\* No entry, one reference less, or the last one asks the broker to stop.
Release(h) ==
    LET k == owner[h] IN
    /\ step[h] = "leaving"
    /\ Turn(h, k)
    /\ \/ /\ entry[k] = NoEntry
          /\ step' = [step EXCEPT ![h] = "gone"]
          /\ UNCHANGED <<holder, entry, wireVars, miscounted, tainted>>
       \/ /\ entry[k] # NoEntry
          /\ miscounted' = IF Astray(h) THEN miscounted \cup {entry[k].reg} ELSE miscounted
          /\ tainted' = IF Astray(h) THEN tainted \cup {k} ELSE tainted
          /\ \/ /\ entry[k].refs > 1
                /\ entry' = [entry EXCEPT ![k].refs = @ - 1]
                /\ step' = [step EXCEPT ![h] = "gone"]
                /\ UNCHANGED <<holder, wireVars>>
             \/ /\ entry[k].refs = 1
                /\ AskHolding(h, k, "unsubscribe", stored[reg[h]], "ending")
                /\ UNCHANGED entry
    /\ UNCHANGED <<family, session, handleVars, enabled, ended, servedVars, excused, cleared>>

Released_KeepsRegistration(h) ==
    /\ step[h] = "ending"
    /\ reply[h] = "ok"
    /\ Finish(h, "gone")
    /\ ended' = IF family = "notice" THEN ended \cup {reg[h]} ELSE ended
    /\ entry' = [entry EXCEPT ![owner[h]] = NoEntry]
    /\ tainted' = IF Crossed(h) THEN tainted \cup {owner[h]} ELSE tainted
    /\ UNCHANGED <<family, session, handleVars, line, enabled, pending, servedVars,
                   excused, miscounted, cleared>>

\* Acknowledged: the registration is deactivated and the entry removed.
Released(h) ==
    /\ step[h] = "ending"
    /\ reply[h] = "ok"
    /\ Finish(h, "gone")
    /\ enabled' = enabled \ {reg[h]}
    /\ ended' = IF family = "notice" THEN ended \cup {reg[h]} ELSE ended
    /\ entry' = [entry EXCEPT ![owner[h]] = NoEntry]
    /\ tainted' = IF Crossed(h) THEN tainted \cup {owner[h]} ELSE tainted
    /\ UNCHANGED <<family, session, handleVars, line, pending, servedVars,
                   excused, miscounted, cleared>>

\* Any error leaves the entry with its one reference and no handle.
ReleaseFails(h) ==
    /\ step[h] = "ending"
    /\ Finish(h, "gone")
    /\ excused' = excused \cup {reg[h]}
    /\ tainted' = tainted \cup {owner[h]}
    /\ UNCHANGED <<family, session, handleVars, line, regVars, pending, servedVars,
                   miscounted, cleared>>

\* A handle dropped without unsubscribe() keeps its reference counted.
DropHandle(h) ==
    /\ step[h] = "open"
    /\ step' = [step EXCEPT ![h] = "gone"]
    /\ tainted' = tainted \cup {owner[h]}
    /\ UNCHANGED <<family, session, handleVars, lockVars, regVars, wireVars, servedVars,
                   excused, miscounted, cleared>>

-----------------------------------------------------------------------------
(* NoticeClient::unsubscribe_all(). *)

ClearAll(t) ==
    /\ family = "notice"
    /\ \/ /\ step[t] = "new"
          /\ Wait(t, Main, "clearing")
          /\ UNCHANGED <<holder, wireVars>>
       \/ /\ step[t] = "clearing"
          /\ Turn(t, Main)
          /\ AskHolding(t, Main, "unsubscribe_all", NoId, "ending")
    /\ UNCHANGED <<family, session, handleVars, regVars, servedVars, sharedHistory>>

\* The registrations in the maps.
Mapped == {entry[k].reg : k \in {j \in Places : entry[j] # NoEntry}}

\* Acknowledged: every shared registration is deactivated and its streams end.
Cleared(t) ==
    /\ step[t] = "ending"
    /\ reply[t] = "ok"
    /\ Finish(t, "gone")
    /\ enabled' = enabled \ Mapped
    /\ ended' = ended \cup Mapped
    /\ entry' = [k \in Places |-> NoEntry]
    /\ cleared' = cleared \cup Mapped
    /\ tainted' = IF Crossed(t) THEN Places ELSE tainted
    /\ UNCHANGED <<family, session, handleVars, line, pending, servedVars, excused, miscounted>>

\* Any error leaves the handles as they were.
ClearFails(t) ==
    /\ step[t] = "ending"
    /\ Finish(t, "gone")
    /\ excused' = excused \cup Mapped
    /\ tainted' = Places
    /\ UNCHANGED <<family, session, handleVars, line, regVars, pending, servedVars,
                   miscounted, cleared>>

-----------------------------------------------------------------------------
(* The broker and the sessions. *)

Waiting(t) == step[t] \in {"asking", "ending"} /\ reply[t] = "none"

Answer(p, a) ==
    /\ session.up
    /\ pending' = pending \ {p}
    /\ reply' = IF Waiting(p.task) THEN [reply EXCEPT ![p.task] = a] ELSE reply
    /\ UNCHANGED <<family, session, step, handleVars, lockVars, regVars, sentIn,
                   miscounted, cleared>>

\* A new registration gets an id that no other has in this session.
TakeSubscribe(p) ==
    /\ p.what = "subscribe"
    /\ Answer(p, "ok")
    /\ served' = served \cup {p.task}
    /\ \E i \in BrokerIds \ {given[r] : r \in served} : given' = [given EXCEPT ![p.task] = i]
    /\ UNCHANGED <<excused, tainted>>

\* Notice names the id to end; the others name a pattern, whoever subscribed it.
Stopped(p) ==
    IF p.what = "unsubscribe" /\ family = "notice"
    THEN {r \in served : given[r] = p.id}
    ELSE served

\* What is stopped elsewhere by an unsubscribe().
Strangers(p) ==
    {r \in Stopped(p) : p.what = "unsubscribe" /\ owner[r] # owner[p.task]}

\* The registration is served by another id than the one that was named.
Missed(p) == p.what = "unsubscribe" /\ reg[p.task] \in served \ Stopped(p)

TakeEnd(p) ==
    /\ p.what # "subscribe"
    /\ Answer(p, "ok")
    /\ served' = served \ Stopped(p)
    /\ excused' = excused \cup (IF Waiting(p.task) THEN Strangers(p) ELSE Stopped(p))
    /\ tainted' = IF Missed(p) THEN tainted \cup {owner[p.task]} ELSE tainted
    /\ UNCHANGED given

RefuseRequest(p) == Answer(p, "error") /\ UNCHANGED <<servedVars, excused, tainted>>

LoseServed ==
    /\ session.up
    /\ session.number < MaxLosses
    /\ session' = [number |-> session.number + 1, up |-> FALSE]
    /\ served' = {}
    /\ pending' = {}
    /\ UNCHANGED <<family, step, handleVars, lockVars, regVars, reply, sentIn, given,
                   sharedHistory>>

\* What a restore asks for again: an active registration that the map or a
\* handle still refers to (the last reference deactivates it).
Restorable ==
    {r \in enabled :
        \/ r \in Mapped
        \/ \E h \in Sharers : reg[h] = r /\ step[h] \in {"open", "leaving", "ending"}}

\* restore_registrations: the broker serves S under new ids; T are answered in time,
\* each with its own id or with the late answer to another, and the rest keep the id
\* of an earlier session.
RestoreShared ==
    /\ ~session.up
    /\ session' = [session EXCEPT !.up = TRUE]
    /\ \E S, T \in SUBSET Restorable :
       \E new \in [S -> BrokerIds], got \in [T -> S] :
          /\ \A r, u \in S : r # u => new[r] # new[u]
          /\ served' = S
          /\ given' = [r \in Sharers |-> IF r \in S THEN new[r] ELSE given[r]]
          /\ stored' = [r \in Sharers |-> IF r \in T THEN new[got[r]] ELSE stored[r]]
          /\ excused' = (excused \cup Restorable) \ {r \in S \cap T : got[r] = r}
    /\ UNCHANGED <<family, step, owner, reg, lockVars, regVars, wireVars,
                   miscounted, cleared, tainted>>

SharedNext ==
    \/ \E h \in Sharers :
          \/ \E k \in Places : Subscribe(h, k)
          \/ Join(h) \/ Joined(h) \/ JoinFails(h)
          \/ Unsubscribe(h) \/ Release(h) \/ Released(h) \/ ReleaseFails(h) \/ DropHandle(h)
    \/ \E t \in Clears : ClearAll(t) \/ Cleared(t) \/ ClearFails(t)
    \/ \E t \in SharedTasks : DropWaiting(t)
    \/ \E p \in pending : TakeSubscribe(p) \/ TakeEnd(p) \/ RefuseRequest(p)
    \/ LoseServed \/ RestoreShared

-----------------------------------------------------------------------------
(* Properties. *)

\* An open handle is served, under the id it listens for: whatever handles come and
\* go, the broker is told to stop, and a Notice stream ends, only with the last of
\* them.  The exceptions are the ones named with excused, an unsubscribe_all(), and a
\* count that one spoiled.
StillServed ==
    session.up =>
        \A h \in Sharers : step[h] = "open" /\ holder[Mutex(owner[h])] = NoTask =>
            \/ reg[h] \in served \ ended /\ stored[reg[h]] = given[reg[h]]
            \/ reg[h] \in excused \cup cleared \cup miscounted

\* When all handles of a place were closed and every request answered in the
\* session it was made in, nothing of them is left: no entry, nothing a later
\* restore would subscribe, nothing the broker serves.
NothingLeftBehind ==
    \A k \in Places \ tainted :
        (\A t \in SharedTasks : owner[t] = k => step[t] \in {"new", "gone"}) =>
            /\ entry[k] = NoEntry
            /\ \A h \in Sharers : owner[h] = k => h \notin enabled \cup served
=============================================================================
