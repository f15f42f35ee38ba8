------------------------------- MODULE TcpFraming -------------------------------
(***************************************************************************)
(* How a TCP session cuts its byte stream into frames.  run_io selects     *)
(* between the command channel, the cancellation channel and               *)
(* read_tcp_frame, which reads a length prefix and then that many bytes.   *)
(* Bytes arrive in any portions.  When another branch of the select wins,  *)
(* the pending read is dropped together with the bytes it has taken, and   *)
(* the next iteration starts a new one.  A byte is represented by the      *)
(* frame it belongs to and its position there; the broker is external.     *)
(*                                                                         *)
(* A definition X_Y stated before X is a faulty variant of X: it is what   *)
(* the properties are tried against, and no specification uses it.         *)
(***************************************************************************)
EXTENDS Integers, Sequences

CONSTANTS
    Prefix,       \* bytes of the length prefix (4 in the code)
    Sizes,        \* lengths of frames the code accepts
    MaxSent,      \* bound on frames sent
    MaxCommands   \* bound on commands and cancellations

ASSUME TcpFramingAssumption ==
    /\ Prefix \in Nat \ {0}
    /\ Sizes \subseteq Nat \ {0} /\ Sizes # {}
    /\ MaxSent \in Nat /\ MaxCommands \in Nat

VARIABLES
    link,       \* "live" or "lost"
    size,       \* external: the lengths of the frames sent so far
    wire,       \* bytes sent and not yet read
    taken,      \* bytes the pending read_tcp_frame has taken
    want,       \* bytes of the frame it reads, 0 until it knows the prefix
    commands,   \* commands and cancellations handled so far
    delivered,  \* the frames handed to decode_incoming; 0 for one never sent
    torn        \* history: a read that had taken bytes was dropped

framingVars == <<link, size, wire, taken, want, commands, delivered, torn>>

Byte == [frame : 1..MaxSent, at : Nat]
Bytes(f, n) == [i \in 1..(Prefix + n) |-> [frame |-> f, at |-> i]]

FramingTypeOK ==
    /\ link \in {"live", "lost"}
    /\ size \in Seq(Sizes) /\ Len(size) <= MaxSent
    /\ wire \in Seq(Byte) /\ taken \in Seq(Byte)
    /\ want \in Sizes \cup {0}
    /\ Len(taken) <= Prefix + want
    /\ commands \in 0..MaxCommands
    /\ delivered \in Seq(0..MaxSent)
    /\ torn \in BOOLEAN

FramingInit ==
    /\ link = "live"
    /\ size = <<>> /\ wire = <<>>
    /\ taken = <<>> /\ want = 0
    /\ commands = 0 /\ delivered = <<>>
    /\ torn = FALSE

\* The broker writes a frame.
BrokerSends(n) ==
    /\ Len(size) < MaxSent
    /\ size' = Append(size, n)
    /\ wire' = wire \o Bytes(Len(size) + 1, n)
    /\ UNCHANGED <<link, taken, want, commands, delivered, torn>>

EndSession ==
    /\ link' = "lost"
    /\ wire' = <<>> /\ taken' = <<>> /\ want' = 0
    /\ UNCHANGED <<size, commands, delivered, torn>>

\* The pending read takes what is there, up to what it still needs.
Take ==
    /\ link = "live"
    /\ wire # <<>>
    /\ Len(taken) < Prefix + want
    /\ taken' = Append(taken, Head(wire))
    /\ wire' = Tail(wire)
    /\ UNCHANGED <<link, size, want, commands, delivered, torn>>

\* What the prefix that was read says: the length of its frame, or, if the bytes
\* are others, any number, which may be refused.
Announced(prefix) ==
    IF prefix = SubSeq(Bytes(prefix[1].frame, size[prefix[1].frame]), 1, Prefix)
    THEN {size[prefix[1].frame]}
    ELSE Sizes \cup {0}

ReadPrefix_Long ==
    /\ link = "live"
    /\ want = 0 /\ Len(taken) = Prefix
    /\ \E n \in Announced(taken) :
          \/ n \in Sizes /\ want' \in {m \in Sizes : m > n}
             /\ UNCHANGED <<link, size, wire, taken, commands, delivered, torn>>
          \/ n \notin Sizes /\ EndSession

\* A length out of range ends the session.
ReadPrefix ==
    /\ link = "live"
    /\ want = 0 /\ Len(taken) = Prefix
    /\ \E n \in Announced(taken) :
          \/ n \in Sizes /\ want' = n
             /\ UNCHANGED <<link, size, wire, taken, commands, delivered, torn>>
          \/ n \notin Sizes /\ EndSession

\* The frame whose bytes have been read, 0 if they are not one frame's.
Frame ==
    LET f == taken[1].frame IN IF taken = Bytes(f, size[f]) THEN f ELSE 0

\* A complete frame is decoded and dispatched; bytes that are not a frame's may
\* also fail to decode, which ends the session.
Complete ==
    /\ link = "live"
    /\ want # 0 /\ Len(taken) = Prefix + want
    /\ \/ /\ delivered' = Append(delivered, Frame)
          /\ taken' = <<>> /\ want' = 0
          /\ UNCHANGED <<link, size, wire, commands, torn>>
       \/ Frame = 0 /\ EndSession

\* A command or a cancellation wins the select, or a restore round trip times
\* out: the pending read is dropped.
Interrupt ==
    /\ link = "live"
    /\ commands < MaxCommands
    /\ commands' = commands + 1
    /\ torn' = (torn \/ taken # <<>>)
    /\ taken' = <<>> /\ want' = 0
    /\ UNCHANGED <<link, size, wire, delivered>>

FramingNext ==
    \/ \E n \in Sizes : BrokerSends(n)
    \/ Take \/ ReadPrefix \/ Complete \/ Interrupt

FramingSpec == FramingInit /\ [][FramingNext]_framingVars

-----------------------------------------------------------------------------
(* Properties. *)

\* What CHANGELOG.md says of multiplexing, that it is cancellation-safe: a command
\* never costs a frame.
CutRight == delivered = [i \in 1..Len(delivered) |-> i]

\* Every byte that arrived has been used.
Drained == wire = <<>> /\ taken = <<>>

\* As long as no pending read that had taken bytes is dropped, the frames are cut
\* where the broker cut them, for any portions in which the bytes arrive; every one
\* is delivered by the time its bytes are used, and no prefix ends the session.
CutRightUnlessTorn ==
    ~torn => /\ link = "live" /\ CutRight
             /\ Drained => Len(delivered) = Len(size)
================================================================================
