--------------------------------- MODULE Incoming ---------------------------------
(***************************************************************************)
(* What a session makes of a frame before dispatching it: decode_incoming, *)
(* decode_frame_header and the Wire-3 extension envelope (wire3.rs).       *)
(* A payload is a sequence of cells; each integer of the format, whatever  *)
(* its width, takes one cell, and a byte of data takes one too.  The body  *)
(* of a HELLO is one cell, the message limit it advertises (0 for values   *)
(* that are refused), that of a GOAWAY a code and a string.                *)
(*                                                                         *)
(* A definition X_Y stated before X is a faulty variant of X: it is what   *)
(* the properties are tried against, and no specification uses it.         *)
(***************************************************************************)
EXTENDS Integers, Sequences, FiniteSets

CONSTANTS
    MaxCell,     \* bound on the value of a cell
    MaxCells     \* bound on the length of a payload (the code's MAX_MESSAGE_SIZE)

ASSUME IncomingAssumption == MaxCell \in Nat /\ MaxCells \in Nat

\* The header: type, flags, whether the correlation is 0, and how far the length
\* field is off.
Header(type, flags, correlated, excess) ==
    [type |-> type, flags |-> flags, correlated |-> correlated, excess |-> excess]

\* Headers that come with every payload, and others.
Enveloped == {Header("HELLO", {"ext"}, FALSE, 0), Header("GOAWAY", {"ext"}, FALSE, 0),
              Header("OTHER", {"ext", "final"}, TRUE, 0)}
Others == {Header("HELLO", {}, FALSE, 0), Header("HELLO", {"ext", "final"}, FALSE, 0),
           Header("HELLO", {"ext"}, TRUE, 0), Header("GOAWAY", {}, FALSE, 0),
           Header("GOAWAY", {"final"}, FALSE, 0), Header("GOAWAY", {}, TRUE, 0),
           Header("CONNECT_REJECTED", {}, FALSE, 0), Header("OTHER", {}, FALSE, 0),
           Header("OTHER", {"reserved"}, TRUE, 0), Header("OTHER", {"final"}, TRUE, 1)}

Payloads(n) == UNION {[1..k -> 0..MaxCell] : k \in 0..n}

VARIABLES
    reading,     \* "none", "fields" in decode's loop, "accepted" or "refused"
    header, payload,
    cursor,      \* of decode's loop: the cells it has used
    core,        \* what the frame carries besides its extensions
    listed,      \* capabilities_seen
    negotiated,  \* capabilities # 0: a HELLO was applied in this session
    limit,       \* max_message_bytes, in cells of payload
    before       \* history: negotiated and limit when the frame arrived

incomingVars == <<reading, header, payload, cursor, core, listed, negotiated,
                  limit, before>>

IncomingInit ==
    /\ reading = "none"
    /\ header = Header("OTHER", {}, FALSE, 0) /\ payload = <<>>
    /\ cursor = 0 /\ core = <<>> /\ listed = FALSE
    /\ negotiated = FALSE /\ limit = MaxCells
    /\ before = [negotiated |-> FALSE, limit |-> MaxCells]

Handshake(h) == h.type = "HELLO"

\* decode_incoming's length check and decode_frame_header().
HeaderOk(h, p) ==
    /\ Len(p) <= limit
    /\ "reserved" \notin h.flags
    /\ Len(p) + h.excess <= MaxCells /\ h.excess = 0

\* apply_server_hello() and the GOAWAY branch of decode_incoming, by message type.
BodyOk(h, body) ==
    CASE h.type = "HELLO" -> /\ h.flags = {"ext"} /\ ~h.correlated
                             /\ ~negotiated
                             /\ Len(body) = 1 /\ body[1] # 0
      [] h.type = "GOAWAY" -> /\ h.flags \subseteq {"ext"} /\ ~h.correlated
                              /\ Len(body) >= 2 /\ Len(body) = 2 + body[2]
      [] h.type = "CONNECT_REJECTED" -> FALSE
      [] OTHER -> TRUE

\* The frame is handed on, and a HELLO applied, or the session ends.
Settle(h, body) ==
    /\ core' = body
    /\ IF BodyOk(h, body)
       THEN /\ reading' = "accepted"
            /\ IF Handshake(h)
               THEN /\ negotiated' = TRUE
                    /\ limit' = IF body[1] < MaxCells THEN body[1] ELSE MaxCells
               ELSE UNCHANGED <<negotiated, limit>>
       ELSE reading' = "refused" /\ UNCHANGED <<negotiated, limit>>

Refuse == reading' = "refused" /\ UNCHANGED <<core, negotiated, limit>>

\* The frame up to decode's loop: without extensions the payload is the core, with
\* them it starts with the length of the core, which must leave room for a field.
Arrive(h, p) ==
    /\ reading = "none"
    /\ header' = h /\ payload' = p
    /\ before' = [negotiated |-> negotiated, limit |-> limit]
    /\ listed' = FALSE
    /\ IF ~HeaderOk(h, p) \/ (Handshake(h) /\ "ext" \notin h.flags)
       THEN Refuse /\ cursor' = 0
       ELSE IF "ext" \notin h.flags
       THEN Settle(h, p) /\ cursor' = 0
       ELSE IF Len(p) = 0 \/ 1 + p[1] >= Len(p)
       THEN Refuse /\ cursor' = 0
       ELSE /\ reading' = "fields"
            /\ core' = SubSeq(p, 2, 1 + p[1])
            /\ cursor' = 1 + p[1]
            /\ UNCHANGED <<negotiated, limit>>

\* The capability list of a HELLO: as many entries as it says, strictly increasing.
ListOk(value) ==
    /\ Len(value) >= 1
    /\ Len(value) = 1 + value[1]
    /\ \A i \in 2..Len(value) : value[i] > IF i = 2 THEN 0 ELSE value[i - 1]

FieldOk_Unbounded(at) == at + 2 <= Len(payload) /\ payload[at + 1] # 0

\* The next field has its id and length, and the payload holds its value.
FieldOk(at) ==
    /\ at + 2 <= Len(payload)
    /\ payload[at + 1] # 0
    /\ payload[at + 2] <= Len(payload) - (at + 2)

\* One turn of the loop: an id, a length and a value, which is skipped unless it is
\* the capability list of a HELLO.
ReadField ==
    LET list == Handshake(header) /\ payload[cursor + 1] = 1
        end == cursor + 2 + payload[cursor + 2]
    IN
    /\ reading = "fields" /\ cursor < Len(payload)
    /\ IF /\ FieldOk(cursor)
          /\ list => ~listed /\ ListOk(SubSeq(payload, cursor + 3, end))
       THEN /\ cursor' = end
            /\ listed' = (listed \/ list)
            /\ UNCHANGED <<reading, core, negotiated, limit>>
       ELSE Refuse /\ UNCHANGED <<cursor, listed>>
    /\ UNCHANGED <<header, payload, before>>

\* After the last field; a HELLO must have had its list.
EndFields ==
    /\ reading = "fields" /\ cursor >= Len(payload)
    /\ IF Handshake(header) /\ ~listed THEN Refuse ELSE Settle(header, core)
    /\ UNCHANGED <<header, payload, cursor, listed, before>>

\* The session goes on with the next frame.
Proceed ==
    /\ reading = "accepted"
    /\ reading' = "none"
    /\ header' = Header("OTHER", {}, FALSE, 0) /\ payload' = <<>>
    /\ cursor' = 0 /\ core' = <<>> /\ listed' = FALSE
    /\ before' = [negotiated |-> FALSE, limit |-> MaxCells]
    /\ UNCHANGED <<negotiated, limit>>

\* Payloads that do and do not fit the limit.
Arriving(longest) ==
    IF reading # "none" THEN {}
    ELSE Payloads(IF limit + 1 < longest THEN limit + 1 ELSE longest)

IncomingNext ==
    \/ \E p \in Arriving(MaxCells), h \in Enveloped : Arrive(h, p)
    \/ \E p \in Arriving(3), h \in Others : Arrive(h, p)
    \/ ReadField \/ EndFields \/ Proceed

IncomingSpec == IncomingInit /\ [][IncomingNext]_incomingVars

-----------------------------------------------------------------------------
(* The grammar of WIRE3_MIGRATION.md, and how encode() writes it. *)

\* The places where a field may start and the one after its end.
FieldAt(p, i, j) == i + 1 <= Len(p) /\ p[i] # 0 /\ j = i + 2 + p[i + 1]

\* Starts is a cut of p, from place i on, into fields.
CutsInto(p, i, starts) ==
    /\ i \in starts
    /\ \A s \in starts : \E j \in starts \cup {Len(p) + 1} :
          FieldAt(p, s, j) /\ ~\E t \in starts : s < t /\ t < j

\* [core length] [core] [id] [length] [value] ... with at least one field; a HELLO
\* has one list of capabilities among them.
Envelope(p, type) ==
    /\ Len(p) > 0 /\ 1 + p[1] < Len(p)
    /\ \E starts \in SUBSET ((2 + p[1])..Len(p)) :
          /\ CutsInto(p, 2 + p[1], starts)
          /\ type = "HELLO" =>
                /\ Cardinality({s \in starts : p[s] = 1}) = 1
                /\ \A s \in starts : p[s] = 1 => ListOk(SubSeq(p, s + 2, s + 1 + p[s + 1]))

\* What the session is entitled to refuse or must take, from what it knew before.
WellFormed(h, p) ==
    LET body == IF "ext" \in h.flags THEN SubSeq(p, 2, 1 + p[1]) ELSE p IN
    /\ Len(p) <= before.limit /\ h.excess = 0 /\ "reserved" \notin h.flags
    /\ "ext" \in h.flags => Envelope(p, h.type)
    /\ h.type \in {"HELLO", "GOAWAY"} => ~h.correlated /\ "final" \notin h.flags
    /\ CASE h.type = "HELLO" -> "ext" \in h.flags /\ ~before.negotiated
                                /\ Len(body) = 1 /\ body[1] # 0
         [] h.type = "GOAWAY" -> Len(body) >= 2 /\ Len(body) = 2 + body[2]
         [] OTHER -> h.type # "CONNECT_REJECTED"

\* A frame is accepted exactly if it is well formed: no cut of a malformed envelope
\* passes, no unknown field, whatever its length, hides what follows, and a second
\* HELLO of a session never renegotiates its capabilities or its limits.
AcceptedIsWellFormed ==
    reading \in {"accepted", "refused"} =>
        (reading = "accepted" <=> WellFormed(header, payload))
================================================================================
