------------------------------- MODULE Framing -------------------------------
(***************************************************************************)
(* The wire format of packages/protocol/src/framing.ts: a stream is a      *)
(* sequence of frames, a frame is the length of its payload as a           *)
(* big-endian number of HeaderBytes digits, followed by the payload.       *)
(*                                                                         *)
(* Radix is 256 and HeaderBytes is 4 in the code.  Both are parameters:    *)
(* what matters is that a header may itself be cut in two, and that bytes  *)
(* read out of step form a header too.                                     *)
(***************************************************************************)
EXTENDS Integers, Sequences

CONSTANTS HeaderBytes, Radix

ASSUME FormatAssumption == HeaderBytes \in Nat \ {0} /\ Radix \in Nat \ {0, 1}

Byte == 0 .. Radix - 1

Power[k \in Nat] == IF k = 0 THEN 1 ELSE Radix * Power[k - 1]

\* The longest payload a header can tell of.
MaxLength == Power[HeaderBytes] - 1

\* DataView.getUint32 and setUint32, big-endian
BigEndian(bytes) ==
  LET value[i \in 0 .. Len(bytes)] ==
        IF i = 0 THEN 0 ELSE value[i - 1] * Radix + bytes[i]
  IN value[Len(bytes)]

Header(n) == [i \in 1 .. HeaderBytes |-> (n \div Power[HeaderBytes - i]) % Radix]

\* encodeFrame(payload, max), and the condition it does not throw on
Encodable(payload, max) == Len(payload) \in 1 .. max

EncodeFrame(payload) == Header(Len(payload)) \o payload

EncodeAll(payloads) ==
  LET first[n \in 0 .. Len(payloads)] ==
        IF n = 0 THEN <<>> ELSE first[n - 1] \o EncodeFrame(payloads[n])
  IN first[Len(payloads)]

\* The length field of the frame that begins after the first offset bytes.
LengthAt(bytes, offset) ==
  BigEndian(SubSeq(bytes, offset + 1, offset + HeaderBytes))

\* One turn of the loop both readers run over the bytes they hold: it cuts
\* out the frame at the offset, finds that it is not complete, or runs into
\* a length that is not in lengths.
Turn(loop, bytes, lengths) ==
  LET start == loop.offset + HeaderBytes
      end   == start + LengthAt(bytes, loop.offset)
  IN IF loop.error \/ start > Len(bytes) THEN loop
     ELSE IF LengthAt(bytes, loop.offset) \notin lengths THEN [loop EXCEPT !.error = TRUE]
     ELSE IF end > Len(bytes) THEN loop
     ELSE [loop EXCEPT !.offset = end, !.frames = Append(@, SubSeq(bytes, start + 1, end))]

\* The whole loop: a turn that does not end it takes a byte at least.
Decode(bytes, lengths) ==
  LET after[n \in 0 .. Len(bytes)] ==
        IF n = 0 THEN [offset |-> 0, frames |-> <<>>, error |-> FALSE]
        ELSE Turn(after[n - 1], bytes, lengths)
      loop == after[Len(bytes)]
  IN [frames |-> loop.frames, rest |-> SubSeq(bytes, loop.offset + 1, Len(bytes)),
      error |-> loop.error]

=============================================================================
