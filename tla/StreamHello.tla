----------------------------- MODULE StreamHello -----------------------------
(***************************************************************************)
(* negotiateStreamHello (packages/protocol/src/stream-hello.ts): both ends *)
(* of a new stream write a hello that names their protocol, read the       *)
(* other's, and only then use the stream.  Both ends run the same code.    *)
(*                                                                         *)
(* Each direction is a stream of bytes: a hello of HelloParts pieces, then *)
(* application data.  A read returns any number of them, pieces of the     *)
(* hello before data, so the two directions are kept as counts.            *)
(***************************************************************************)
EXTENDS Integers

CONSTANTS
  Opener, Accepter,   \* the two ends
  Alpn,               \* the protocols an end may be built for
  HelloParts,         \* how finely the network may cut a hello
  MaxData             \* bound on the application data each end sends

ASSUME HelloAssumption ==
  /\ Opener # Accepter
  /\ HelloParts \in Nat \ {0}
  /\ MaxData \in Nat

End == {Opener, Accepter}

Other(e) == IF e = Opener THEN Accepter ELSE Opener

VARIABLES
  alpn,       \* options.alpn of each end
  pc,         \* where negotiateStreamHello is; "open" when it has returned
  write,      \* the promise of io.write(encodeStreamHello(alpn))
  helloIn,    \* pieces of the other's hello on the way to an end
  dataIn,     \* application data on the way to an end
  got,        \* pieces of the hello in the decoder of an end
  sent,       \* application data an end has sent
  exposed,    \* application data an end has read after its negotiation
  timedOut,   \* history: a timer has fired
  early       \* history: the ends that refused application data

vars == <<alpn, pc, write, helloIn, dataIn, got, sent, exposed, timedOut, early>>

TypeOK ==
  /\ alpn \in [End -> Alpn]
  /\ pc \in [End -> {"new", "reading", "flushing", "open", "failed"}]
  /\ write \in [End -> {"none", "pending", "done"}]
  /\ helloIn \in [End -> 0 .. HelloParts]
  /\ got \in [End -> 0 .. HelloParts]
  /\ dataIn \in [End -> 0 .. MaxData]
  /\ sent \in [End -> 0 .. MaxData]
  /\ exposed \in [End -> 0 .. MaxData]
  /\ timedOut \in BOOLEAN
  /\ early \subseteq End

Init ==
  /\ alpn \in [End -> Alpn]
  /\ pc = [e \in End |-> "new"]
  /\ write = [e \in End |-> "none"]
  /\ helloIn = [e \in End |-> 0] /\ got = [e \in End |-> 0]
  /\ dataIn = [e \in End |-> 0] /\ sent = [e \in End |-> 0]
  /\ exposed = [e \in End |-> 0]
  /\ timedOut = FALSE /\ early = {}

-----------------------------------------------------------------------------
(* negotiateStreamHello                                                    *)

\* Up to the first await: the write is started, not awaited.
Begin(e) ==
  /\ pc[e] = "new"
  /\ pc' = [pc EXCEPT ![e] = "reading"]
  /\ write' = [write EXCEPT ![e] = "pending"]
  /\ helloIn' = [helloIn EXCEPT ![Other(e)] = HelloParts]
  /\ UNCHANGED <<alpn, dataIn, got, sent, exposed, timedOut, early>>

\* The stream takes the hello, at the latest when the other end reads it.
WriteDone(e) ==
  /\ write[e] = "pending"
  /\ write' = [write EXCEPT ![e] = "done"]
  /\ UNCHANGED <<alpn, pc, helloIn, dataIn, got, sent, exposed, timedOut, early>>

\* What an end may conclude from a whole hello.
Matches_AnyAlpn(e) == TRUE

Matches(e) == alpn[e] = alpn[Other(e)]

\* Application data in the chunk that completed the hello: a second frame, or
\* bytes that finish() objects to.
Refused_Never(data) == FALSE

Refused(data) == data > 0

\* As it would be if the write were awaited before the first read.
ReadHello_AfterWrite(e) ==
  /\ pc[e] = "reading" /\ write[e] = "done"
  /\ \E pieces \in 1 .. helloIn[e] :
       /\ helloIn' = [helloIn EXCEPT ![e] = @ - pieces]
       /\ got' = [got EXCEPT ![e] = @ + pieces]
       /\ pc' = [pc EXCEPT ![e] =
            IF got[e] + pieces < HelloParts THEN "reading"
            ELSE IF Matches(e) THEN "flushing" ELSE "failed"]
  /\ UNCHANGED <<alpn, write, dataIn, sent, exposed, timedOut, early>>

\* One turn of the read loop: the next pieces of the hello and, when they are
\* the last, some of the data behind them.
ReadHello(e) ==
  /\ pc[e] = "reading"
  /\ \E pieces \in 1 .. helloIn[e], data \in 0 .. dataIn[e] :
       /\ data > 0 => pieces = helloIn[e]
       /\ helloIn' = [helloIn EXCEPT ![e] = @ - pieces]
       /\ dataIn' = [dataIn EXCEPT ![e] = @ - data]
       /\ got' = [got EXCEPT ![e] = @ + pieces]
       /\ pc' = [pc EXCEPT ![e] =
            IF got[e] + pieces < HelloParts THEN "reading"
            ELSE IF ~Refused(data) /\ Matches(e) THEN "flushing" ELSE "failed"]
       /\ early' = IF Refused(data) THEN early \cup {e} ELSE early
  /\ UNCHANGED <<alpn, write, sent, exposed, timedOut>>

\* The await of the write.
Flushed(e) ==
  /\ pc[e] = "flushing" /\ write[e] = "done"
  /\ pc' = [pc EXCEPT ![e] = "open"]
  /\ UNCHANGED <<alpn, write, helloIn, dataIn, got, sent, exposed, timedOut, early>>

\* withTimeout, around each read and around the write
Timeout(e) ==
  /\ pc[e] \in {"reading", "flushing"}
  /\ pc' = [pc EXCEPT ![e] = "failed"]
  /\ timedOut' = TRUE
  /\ UNCHANGED <<alpn, write, helloIn, dataIn, got, sent, exposed, early>>

\* The other end has failed, so its caller has closed the stream: the read
\* returns null, the write rejects.
PeerGone(e) ==
  /\ pc[Other(e)] = "failed"
  /\ \/ pc[e] = "reading" /\ helloIn[e] = 0
     \/ pc[e] = "flushing" /\ write[e] = "pending"
  /\ pc' = [pc EXCEPT ![e] = "failed"]
  /\ UNCHANGED <<alpn, write, helloIn, dataIn, got, sent, exposed, timedOut, early>>

-----------------------------------------------------------------------------
(* The caller, once its negotiation has returned.                          *)

SendData(e) ==
  /\ pc[e] = "open"
  /\ sent[e] < MaxData
  /\ sent' = [sent EXCEPT ![e] = @ + 1]
  /\ dataIn' = [dataIn EXCEPT ![Other(e)] = @ + 1]
  /\ UNCHANGED <<alpn, pc, write, helloIn, got, exposed, timedOut, early>>

ReadData(e) ==
  /\ pc[e] = "open"
  /\ \E data \in 1 .. dataIn[e] :
       /\ dataIn' = [dataIn EXCEPT ![e] = @ - data]
       /\ exposed' = [exposed EXCEPT ![e] = @ + data]
  /\ UNCHANGED <<alpn, pc, write, helloIn, got, sent, timedOut, early>>

Step(e) ==
  \/ Begin(e) \/ WriteDone(e) \/ ReadHello(e) \/ Flushed(e)
  \/ Timeout(e) \/ PeerGone(e) \/ SendData(e) \/ ReadData(e)

Next == \E e \in End : Step(e)

Spec == Init /\ [][Next]_vars

\* "QUIC stream implementations may only resolve a write once the peer reads"
\* (stream-hello.ts:88): no sooner is it certain to resolve.
Drained(e) == helloIn[Other(e)] = 0 /\ WriteDone(e)

FairSpec ==
  /\ Spec
  /\ \A e \in End :
       /\ WF_vars(ReadHello(e)) /\ WF_vars(Drained(e)) /\ WF_vars(Flushed(e))

-----------------------------------------------------------------------------
(* What the negotiation promises.                                          *)

(* "validate the framed hello before exposing application bytes"           *)
(* (stream-hello.ts:79): an end that uses the stream has read the whole    *)
(* hello of an end that speaks the same protocol; so of two ends that do   *)
(* not, neither ever exposes a byte.                                       *)
OpenOnlyOnAgreement ==
  \A e \in End :
    pc[e] = "open" \/ exposed[e] > 0 =>
      got[e] = HelloParts /\ alpn[e] = alpn[Other(e)]

(* The negotiation takes nothing of the application's: on an end that uses *)
(* the stream, what the other sent was exposed or is still to be read.     *)
NothingSwallowed ==
  \A e \in End :
    pc[e] = "open" => exposed[e] + dataIn[e] = sent[Other(e)]

(* "both sides must therefore be able to enter the read phase              *)
(* concurrently" (stream-hello.ts:89): two ends of one protocol that both  *)
(* begin never wait for each other; unless a timer fires or one refuses    *)
(* data that came too close behind the hello, both get to use the stream.  *)
NoMutualWait ==
  (\A e \in End : alpn[e] = alpn[Other(e)] /\ <>(pc[e] # "new")) /\ [](~timedOut /\ early = {})
    => <>(\A e \in End : pc[e] = "open")

=============================================================================
