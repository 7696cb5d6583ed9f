---------------------------- MODULE TunnelReader ----------------------------
(***************************************************************************)
(* SovereignTunnelTransport (packages/protocol/src/dialer.ts): the other   *)
(* reader of length-prefixed frames, with a loop of its own in place of    *)
(* the FrameDecoder.  One direction of one tunnel.                         *)
(***************************************************************************)
EXTENDS Framing, FiniteSetsExt

CONSTANTS
  Payload,      \* the messages the sender may write
  MaxWrites     \* bound on the messages written

VARIABLES
  written,      \* history: the messages written
  wire,         \* the bytes written and not yet read
  chunks,       \* what readLoop keeps for its next turn
  delivered,    \* the messages handed to the handlers
  received,     \* history: the bytes read
  closed        \* SovereignTunnelTransport.closed

vars == <<written, wire, chunks, delivered, received, closed>>

Init ==
  /\ written = <<>> /\ wire = <<>> /\ chunks = <<>>
  /\ delivered = <<>> /\ received = <<>>
  /\ closed = FALSE

\* send(message) of the other end
Write(payload) ==
  /\ Len(written) < MaxWrites
  /\ written' = Append(written, payload)
  /\ wire' = wire \o EncodeFrame(payload)
  /\ UNCHANGED <<chunks, delivered, received, closed>>

\* parseMessage throws on what is no message; bytes read out of step may
\* happen to be one.
Parses(payload) == payload \in Payload

\* How many of the payloads are handled before one does not parse.
Parsed(frames) ==
  Max({n \in 0 .. Len(frames) : \A i \in 1 .. n : Parses(frames[i])})

\* The loop over the combined bytes: any length will do.
Combined(chunk) == Decode(chunks \o chunk, 0 .. MaxLength)

\* "if (pos > 0 && pos < combined.byteLength)"
Kept(loop) == IF loop.frames = <<>> THEN <<>> ELSE loop.rest

\* One turn of readLoop.  A payload that does not parse closes the tunnel,
\* when the ones before it have been handed over.
Read ==
  /\ ~closed
  /\ \E n \in 1 .. Len(wire) :
       LET chunk == SubSeq(wire, 1, n)
           loop  == Combined(chunk)
           good  == Parsed(loop.frames)
       IN /\ wire' = SubSeq(wire, n + 1, Len(wire))
          /\ received' = received \o chunk
          /\ delivered' = delivered \o SubSeq(loop.frames, 1, good)
          /\ IF good = Len(loop.frames)
             THEN chunks' = Kept(loop) /\ UNCHANGED closed
             ELSE closed' = TRUE /\ UNCHANGED chunks
  /\ UNCHANGED written

\* close(), the end of the stream, or a read that rejects.
Close ==
  /\ ~closed
  /\ closed' = TRUE
  /\ UNCHANGED <<written, wire, chunks, delivered, received>>

Next == (\E payload \in Payload : Write(payload)) \/ Read \/ Close

Spec == Init /\ [][Next]_vars

(* "Keep leftover bytes for next read" (dialer.ts:120): while the tunnel is *)
(* open every byte read is in a message that was delivered or is kept.     *)
LeftoverKept ==
  ~closed => EncodeAll(delivered) \o chunks = received

=============================================================================
