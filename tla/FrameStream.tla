----------------------------- MODULE FrameStream -----------------------------
(***************************************************************************)
(* One direction of a FramedIrohConnection                                 *)
(* (packages/electron-app/src/iroh-node.ts): the peer writes frames, the   *)
(* network delivers their bytes in chunks of any size, readLoop feeds the  *)
(* chunks to a FrameDecoder (packages/protocol/src/framing.ts) and hands   *)
(* the frames to the handlers.                                             *)
(*                                                                         *)
(* The two ends may be configured with different maxFrameBytes, so a frame *)
(* the sender accepts may be too large for the receiver.                   *)
(***************************************************************************)
EXTENDS Framing

CONSTANTS
  Payload,         \* the payloads the sender may write
  SendLimit,       \* maxFrameBytes of the sender
  ReceiveLimit,    \* maxFrameBytes of the receiver
  MaxWrites        \* bound on the frames written

\* A sender's limit above the longest length a header holds would need a
\* payload of 4 GiB to matter; the limit of the reader may be any.
ASSUME StreamAssumption ==
  /\ Payload \subseteq Seq(Byte)
  /\ SendLimit \in 1 .. MaxLength
  /\ ReceiveLimit \in Nat \ {0}
  /\ MaxWrites \in Nat

VARIABLES
  written,      \* history: the payloads written
  wire,         \* the bytes written and not yet read
  ended,        \* the peer has ended the stream, or it was cut
  pending,      \* FrameDecoder.pending
  subscribed,   \* a handler is in FramedIrohConnection.handlers
  missed,       \* history: frames decoded while there was no handler
  delivered,    \* the payloads handed to the handler
  received,     \* history: the bytes read
  status,       \* what the close handlers were told: open, nothing yet;
                \* ended, markClosed(); failed, markClosed(error)
  by            \* history: who told them: none, the end of the stream, the
                \* session, or this end itself by close()

frameVars == <<written, wire, ended, pending, subscribed, missed, delivered,
               received, status, by>>

Bytes == Seq(Byte)

FrameTypeOK ==
  /\ written \in Seq(Payload)
  /\ wire \in Bytes /\ pending \in Bytes /\ received \in Bytes
  /\ ended \in BOOLEAN /\ subscribed \in BOOLEAN
  /\ missed \in 0 .. MaxWrites
  /\ delivered \in Seq(Payload)
  /\ status \in {"open", "ended", "failed"}
  /\ by \in {"none", "stream", "session", "self"}

FrameInit ==
  /\ written = <<>> /\ wire = <<>> /\ ended = FALSE
  /\ pending = <<>> /\ subscribed = FALSE /\ missed = 0
  /\ delivered = <<>> /\ received = <<>>
  /\ status = "open" /\ by = "none"

-----------------------------------------------------------------------------
(* The peer and the network.                                               *)

\* send(data) of the other end
Write(payload) ==
  /\ ~ended
  /\ Len(written) < MaxWrites
  /\ Encodable(payload, SendLimit)
  /\ written' = Append(written, payload)
  /\ wire' = wire \o EncodeFrame(payload)
  /\ UNCHANGED <<ended, pending, subscribed, missed, delivered, received, status, by>>

\* The peer ends its side, or the stream is cut after any of its bytes.
PeerEnds ==
  /\ ~ended
  /\ ended' = TRUE
  /\ \E n \in 0 .. Len(wire) : wire' = SubSeq(wire, 1, n)
  /\ UNCHANGED <<written, pending, subscribed, missed, delivered, received, status, by>>

-----------------------------------------------------------------------------
(* FrameDecoder.                                                           *)

\* push(chunk): the frames completed by the chunk and what is kept.
Push_DropsHeadlessRest(chunk) ==
  LET d == Decode(pending \o chunk, 1 .. ReceiveLimit)
  IN [d EXCEPT !.rest = IF d.frames = <<>> THEN <<>> ELSE @]

Push_KeepsDecoded(chunk) ==
  LET d == Decode(pending \o chunk, 1 .. ReceiveLimit)
  IN [d EXCEPT !.rest = pending \o chunk]

Push(chunk) == Decode(pending \o chunk, 1 .. ReceiveLimit)

\* finish() throws: the stream ended inside a frame.
Truncated_Never == FALSE

Truncated == pending # <<>>

-----------------------------------------------------------------------------
(* The receiving connection.                                               *)

\* onMessage(handler)
Subscribe ==
  /\ status = "open"
  /\ ~subscribed
  /\ subscribed' = TRUE
  /\ UNCHANGED <<written, wire, ended, pending, missed, delivered, received, status, by>>

\* One turn of readLoop.  A frame nobody listens for is gone; a handler may
\* close the connection, and the frames after it in the chunk are gone too.
\* push throws on a bad length: what it had decoded of the chunk is gone.
ReadChunk ==
  /\ status = "open"
  /\ \E n \in 1 .. Len(wire) :
       LET chunk == SubSeq(wire, 1, n)
           push  == Push(chunk)
           count == Len(push.frames)
       IN /\ wire' = SubSeq(wire, n + 1, Len(wire))
          /\ received' = received \o chunk
          /\ \/ /\ push.error
                /\ status' = "failed" /\ by' = "stream"
                /\ UNCHANGED <<pending, missed, delivered>>
             \/ /\ ~push.error /\ ~subscribed
                /\ pending' = push.rest
                /\ missed' = missed + count
                /\ UNCHANGED <<delivered, status, by>>
             \/ /\ ~push.error /\ subscribed
                /\ pending' = push.rest
                /\ delivered' = delivered \o push.frames
                /\ UNCHANGED <<missed, status, by>>
             \/ /\ ~push.error /\ subscribed
                /\ pending' = push.rest
                /\ status' = "ended" /\ by' = "self"
                /\ \E k \in 1 .. count :
                     delivered' = delivered \o SubSeq(push.frames, 1, k)
                /\ UNCHANGED missed
  /\ UNCHANGED <<written, ended, subscribed>>

\* readLoop finds the end of the stream.
ReadEnd ==
  /\ status = "open"
  /\ ended /\ wire = <<>>
  /\ status' = IF Truncated THEN "failed" ELSE "ended"
  /\ by' = "stream"
  /\ UNCHANGED <<written, wire, ended, pending, subscribed, missed, delivered, received>>

\* markClosed() from anywhere else: what readLoop has pending is not looked at.
Closed(how, who) ==
  /\ status = "open"
  /\ status' = how /\ by' = who
  /\ UNCHANGED <<written, wire, ended, pending, subscribed, missed, delivered, received>>

\* close() of this end
CloseConnection == Closed("ended", "self")

\* A read rejects.
ReadFails == Closed("failed", "stream")

\* The session is closed, by the other end or by the network: session.closed
\* settles with or without an error.  The loop reading the session's other
\* streams fails with one.
SessionCloses == \E how \in {"ended", "failed"} : Closed(how, "session")

FrameNext ==
  \/ \E payload \in Payload : Write(payload)
  \/ PeerEnds \/ Subscribe \/ ReadChunk \/ ReadEnd
  \/ CloseConnection \/ ReadFails \/ SessionCloses

FrameSpec == FrameInit /\ [][FrameNext]_frameVars

-----------------------------------------------------------------------------
(* What the connection promises.                                           *)

Channel == INSTANCE OrderedChannel
             WITH Message <- Payload, sent <- written, received <- delivered

(* However the bytes are cut into chunks, the handler sees the frames in   *)
(* the order they were written, none twice and none left out, from the     *)
(* moment it was registered.                                               *)
ImplementsChannel == Channel!Spec

(* "push may receive arbitrary fragmentation/coalescing" (framing.ts:41):  *)
(* while the connection is open every byte read is either in a frame that  *)
(* was decoded or still pending, in its place.                             *)
NoByteLost ==
  status = "open" =>
    EncodeAll(SubSeq(written, 1, missed + Len(delivered))) \o pending = received

(* Where readLoop itself comes to the end of the stream, and only there:   *)
(* it tells the close handlers of an end without an error only when every  *)
(* byte read was part of a whole frame.  (Of an end that the session       *)
(* reports first this is not so: markClosed() does not ask the decoder.)   *)
CleanEndIsWhole ==
  status = "ended" /\ by = "stream" =>
    received = EncodeAll(SubSeq(written, 1, missed + Len(delivered)))
=============================================================================
