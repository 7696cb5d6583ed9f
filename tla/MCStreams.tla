------------------------------ MODULE MCStreams ------------------------------
(***************************************************************************)
(* Instance of FrameStream, StreamHello and RnTransport for TLC: what      *)
(* passes over one stream of the desktop, the negotiation at its beginning *)
(* and the transport of the phone, which share no state.  Of a behaviour   *)
(* only one of them has steps, or one half of the transport: `part` says   *)
(* which.                                                                  *)
(*                                                                         *)
(* frames: two-digit headers, so that a header may be cut; a payload of    *)
(* each length, one of them beyond the receiver's limit; payload bytes     *)
(* that look like headers when read out of step.                           *)
(* hello: two ends and two protocols, a hello in three pieces.             *)
(* endpoint: two calls each of start(), stop() and startTcpForwarder(),    *)
(* and no dial.                                                            *)
(* session: one start() and one stop(), no forwarder, and a dial of any    *)
(* list of up to two candidates: every kind of address, and two nodes, two *)
(* relays and two sockets to disagree about.                               *)
(***************************************************************************)
EXTENDS FrameStream, StreamHello, RnTransport

CONSTANTS OnlyStart, OnlyStop  \* the calls of the session's endpoint

MCPayload == {<<1>>, <<0, 1>>, <<1, 0, 1>>}

Addresses ==
  {Bad, SocketAt("s1"), SocketAt("s2"), RelayAt("r1"), RelayAt("r2"), TicketOf("t1")}

Json ==
  {JsonOf("n1", addrs, relay) :
     addrs \in {<<>>, <<SocketAt("s1")>>, <<SocketAt("s2"), RelayAt("r2")>>},
     relay \in {NoAddress, RelayAt("r1")}}

Candidates ==
  [id : {"n1"}, address : Addresses \cup Json, priority : {0, 1}]
    \cup [id : {NoId, "n2"}, address : {SocketAt("s1")}, priority : {0}]

MCLists == UNION {[1 .. n -> Candidates] : n \in 0 .. 2}

VARIABLE part

MCInit ==
  /\ FrameInit /\ Init /\ RnInit
  /\ part \in {"frames", "hello", "endpoint", "session"}
  /\ part # "hello" => alpn \in [End -> {CHOOSE a \in Alpn : TRUE}]

EndpointStep ==
  \/ \E s \in Starter : StartStep(s)
  \/ \E t \in Stopper : StopStep(t)
  \/ \E f \in Forwarder : ForwarderStep(f)

SessionStep ==
  /\ RnNext
  /\ forwarder' = forwarder
  /\ \A s \in Starter \ {OnlyStart} : start'[s] = start[s]
  /\ \A t \in Stopper \ {OnlyStop} : stop'[t] = stop[t]

MCNext ==
  /\ UNCHANGED part
  /\ \/ part = "frames" /\ FrameNext /\ UNCHANGED <<vars, rnVars>>
     \/ part = "hello" /\ Next /\ UNCHANGED <<frameVars, rnVars>>
     \/ part = "endpoint" /\ EndpointStep /\ UNCHANGED <<frameVars, vars>>
     \/ part = "session" /\ SessionStep /\ UNCHANGED <<frameVars, vars>>

\* The fairness of StreamHello and of RnTransport: outside its part neither
\* has a step that it could ask for.
MCSpec ==
  /\ MCInit /\ [][MCNext]_<<frameVars, vars, rnVars, part>>
  /\ \A e \in End :
       /\ WF_vars(ReadHello(e)) /\ WF_vars(Drained(e)) /\ WF_vars(Flushed(e))
  /\ Fairness
=============================================================================
