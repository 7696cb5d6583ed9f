---------------------------- MODULE Streams_proofs ----------------------------
(***************************************************************************)
(* Proofs about the streams: the transport of the phone over the native    *)
(* bridge (RnTransport, with the targets of DialTarget), the hello that    *)
(* opens a stream (StreamHello), which both ends negotiate, and the frames *)
(* that travel on it (Framing, FrameStream).                               *)
(*                                                                         *)
(* The invariant of the transport has three parts, of which each is about  *)
(* variables the other two do not mention: the endpoint, the session with  *)
(* its dial, and the frames with their reads.                              *)
(*                                                                         *)
(* That of a stream of frames says where every byte is: those read and     *)
(* those on the wire are, in this order, the encodings of what was         *)
(* written, or the beginning of them once the stream was cut.  What is to  *)
(* be proved about its actions is what one push makes of a chunk, whatever *)
(* the chunk (PushLosesNothing).                                           *)
(***************************************************************************)
EXTENDS StreamHello, RnTransport, FrameStream, FiniteSetTheorems, DataLemmas, TLAPS

-----------------------------------------------------------------------------
(* The dial target of a list of candidates.                                *)

(* What a function takes a finite set to is finite.                        *)
LEMMA FiniteImage ==
  ASSUME NEW S, IsFiniteSet(S), NEW f
  PROVE  IsFiniteSet({f[x] : x \in S})
<1> DEFINE T == {f[x] : x \in S}
           g == [x \in S |-> f[x]]
<1>1. g \in Surjection(S, T)
  BY DEF Surjection
<1> QED
  BY <1>1, FS_Surjection

(* Of finitely many things with priorities, one comes before all others:   *)
(* that with the highest priority, the first of equals.                    *)
LEMMA HighestPriority ==
  ASSUME NEW N \in Nat, NEW W \in SUBSET (1 .. N), W # {},
         NEW P, \A i \in W : P[i] \in Int
  PROVE  \E b \in W : \A j \in W : P[b] > P[j] \/ (P[b] = P[j] /\ b <= j)
<1> DEFINE Best(b, n) == /\ b \in W /\ b <= n
                         /\ \A j \in W : j <= n => P[b] > P[j] \/ (P[b] = P[j] /\ b <= j)
           T == {n \in Nat : (\E i \in W : i <= n) /\ ~ \E b \in W : Best(b, n)}
<1>0. \A i \in W : i \in Nat /\ 1 <= i /\ i <= N
  OBVIOUS
<1>1. T = {}
  <2> SUFFICES ASSUME T # {} PROVE FALSE
    OBVIOUS
  <2>1. PICK n \in T : \A m \in T : n <= m
    BY LeastNatural
  <2>2. n \in Nat /\ (\E i \in W : i <= n) /\ ~ \E b \in W : Best(b, n)
    OBVIOUS
  <2>5. n # 0 /\ n - 1 \in Nat
    BY <1>0, <2>2
  <2>6. n - 1 \notin T
    <3> HIDE DEF T
    <3> QED
      BY <2>1, <2>2, <2>5
  <2>7. ASSUME NEW j \in W, j <= n PROVE j = n \/ j <= n - 1
    BY <1>0, <2>2, <2>7
  <2>3. CASE \E i \in W : i <= n - 1
    <3>1. PICK b \in W : Best(b, n - 1)
      BY <2>3, <2>5, <2>6
    <3>2. CASE n \in W /\ P[n] > P[b]
      <4>1. \A j \in W : j <= n => P[n] > P[j] \/ (P[n] = P[j] /\ n <= j)
        <5> SUFFICES ASSUME NEW j \in W, j <= n PROVE P[n] > P[j] \/ (P[n] = P[j] /\ n <= j)
          OBVIOUS
        <5>1. P[n] \in Int /\ P[b] \in Int /\ P[j] \in Int
          BY <3>2
        <5>2. CASE j = n
          BY <2>2, <5>1, <5>2
        <5>3. CASE j <= n - 1
          <6>1. P[b] > P[j] \/ P[b] = P[j]
            BY <3>1, <5>3
          <6>2. P[n] > P[b]
            BY <3>2
          <6> QED
            BY <5>1, <6>1, <6>2
        <5> QED
          BY <2>7, <5>2, <5>3
      <4> QED
        BY <2>2, <3>2, <4>1
    <3>3. CASE ~ (n \in W /\ P[n] > P[b])
      <4>1. b <= n
        BY <1>0, <2>2, <3>1
      <4>2. \A j \in W : j <= n => P[b] > P[j] \/ (P[b] = P[j] /\ b <= j)
        <5> SUFFICES ASSUME NEW j \in W, j <= n PROVE P[b] > P[j] \/ (P[b] = P[j] /\ b <= j)
          OBVIOUS
        <5>1. P[b] \in Int /\ P[j] \in Int
          OBVIOUS
        <5>2. CASE j = n
          <6>1. ~ (P[j] > P[b]) /\ b <= j
            BY <1>0, <2>2, <3>1, <3>3, <5>2
          <6> HIDE DEF T
          <6> QED
            BY <5>1, <6>1
        <5>3. CASE j <= n - 1
          BY <3>1, <5>3
        <5> QED
          BY <2>7, <5>2, <5>3
      <4> QED
        BY <2>2, <4>1, <4>2
    <3> QED
      BY <3>2, <3>3
  <2>4. CASE ~ \E i \in W : i <= n - 1
    <3>1. n \in W /\ \A j \in W : j <= n => j = n
      BY <1>0, <2>2, <2>4
    <3> QED
      BY <2>2, <3>1
  <2> QED
    BY <2>3, <2>4
<1>2. PICK i \in W : TRUE
  OBVIOUS
<1>3. PICK b \in W : Best(b, N)
  BY <1>0, <1>1, <1>2
<1> QED
  BY <1>0, <1>3

(* A candidate brings one relay at most.                                   *)
LEMMA OneRelayEach ==
  ASSUME NEW c, NEW r \in Relays(c)
  PROVE  Relays(c) = {r}
BY DEF Relays

(* A list read backwards holds the same candidates.                        *)
LEMMA SameCandidates ==
  ASSUME NEW cs, cs \in Seq(Range(cs))
  PROVE  /\ Range(Reversed(cs)) = Range(cs)
         /\ Reversed(cs) \in Seq(Range(cs))
         /\ Len(Reversed(cs)) = Len(cs) /\ DOMAIN Reversed(cs) = DOMAIN cs
<1>1. Len(cs) \in Nat /\ DOMAIN cs = 1 .. Len(cs) /\ \A i \in 1 .. Len(cs) : cs[i] \in Range(cs)
  OBVIOUS
<1>2. \A i \in 1 .. Len(cs) : Len(cs) + 1 - i \in 1 .. Len(cs) /\ Len(cs) + 1 - (Len(cs) + 1 - i) = i
  BY <1>1
<1>3. Reversed(cs) \in Seq(Range(cs)) /\ Len(Reversed(cs)) = Len(cs) /\ DOMAIN Reversed(cs) = DOMAIN cs
  BY <1>1, <1>2 DEF Reversed
<1>4. ASSUME NEW c \in Range(cs) PROVE c \in Range(Reversed(cs))
  <2>1. PICK i \in 1 .. Len(cs) : cs[i] = c
    BY <1>1 DEF Range
  <2>2. Reversed(cs)[Len(cs) + 1 - i] = c
    BY <1>1, <1>2, <2>1 DEF Reversed
  <2> QED
    BY <1>1, <1>2, <1>3, <2>2 DEF Range
<1>5. Range(Reversed(cs)) \subseteq Range(cs)
  BY <1>1, <1>2 DEF Reversed, Range
<1> QED
  BY <1>3, <1>4, <1>5

(* A list that is accepted names one desktop and one relay at most.        *)
LEMMA AcceptedAgree ==
  ASSUME NEW cs, cs \in Seq(Range(cs)), Accepts(cs)
  PROVE  /\ \A c, d \in Range(cs) : c.id = d.id
         /\ Tickets(cs) = {} => \A r, s \in AllRelays(cs) : r = s
         /\ \A t, u \in Tickets(cs) : t = u
<1>1. IsFiniteSet(Range(cs))
  <2>1. Len(cs) \in Nat /\ DOMAIN cs = 1 .. Len(cs)
    OBVIOUS
  <2>2. IsFiniteSet(1 .. Len(cs))
    BY <2>1, FS_Interval
  <2> QED
    BY <2>1, <2>2, FiniteImage DEF Range
<1>2. \A c, d \in Range(cs) : c.id = d.id
  <2> DEFINE f == [c \in Range(cs) |-> c.id]
             ids == {c.id : c \in Range(cs)}
  <2>1. IsFiniteSet({f[c] : c \in Range(cs)})
    BY <1>1, FiniteImage
  <2>2. ids = {f[c] : c \in Range(cs)}
    OBVIOUS
  <2>3. PICK x : ids = {x}
    BY <2>1, <2>2, FS_Singleton DEF Accepts
  <2> QED
    BY <2>3
<1>3. ASSUME Tickets(cs) = {}, NEW r \in AllRelays(cs), NEW s \in AllRelays(cs) PROVE r = s
  <2> DEFINE f == [c \in Range(cs) |-> Relays(c)]
             sets == {f[c] : c \in Range(cs)}
  <2>1. IsFiniteSet(sets)
    BY <1>1, FiniteImage
  <2>2. ASSUME NEW R \in sets PROVE IsFiniteSet(R)
    <3>1. PICK c \in Range(cs) : R = Relays(c)
      OBVIOUS
    <3>2. CASE R = {}
      BY <3>2, FS_EmptySet
    <3>3. ASSUME NEW x \in R PROVE IsFiniteSet(R)
      <4>1. R = {x}
        BY <3>1, <3>3, OneRelayEach
      <4> QED
        BY <4>1, FS_Singleton
    <3> QED
      BY <3>2, <3>3
  <2>3. AllRelays(cs) = UNION sets
    BY DEF AllRelays
  <2>4. IsFiniteSet(AllRelays(cs))
    <3> HIDE DEF sets
    <3> QED
      BY <2>1, <2>2, <2>3, FS_UNION
  <2>5. /\ Cardinality(AllRelays(cs)) \in Nat
        /\ Cardinality(AllRelays(cs)) # 0
        /\ Cardinality(AllRelays(cs)) <= 1
    BY <1>3, <2>4, FS_EmptySet, FS_CardinalityType DEF Accepts
  <2>6. Cardinality(AllRelays(cs)) = 1
    BY <2>5
  <2>7. PICK x : AllRelays(cs) = {x}
    BY <2>4, <2>6, FS_Singleton
  <2> QED
    BY <2>7
<1>4. ASSUME NEW t \in Tickets(cs), NEW u \in Tickets(cs) PROVE t = u
  <2> DEFINE f == [c \in Range(cs) |-> c.address.at]
             those == {d \in Range(cs) : d.address.kind = "ticket"}
  <2>1. IsFiniteSet({f[c] : c \in Range(cs)})
    BY <1>1, FiniteImage
  <2>2. Tickets(cs) \subseteq {f[c] : c \in Range(cs)}
    BY DEF Tickets
  <2>3. IsFiniteSet(Tickets(cs))
    BY <2>1, <2>2, FS_Subset
  <2>4. /\ Cardinality(Tickets(cs)) \in Nat
        /\ Cardinality(Tickets(cs)) # 0
        /\ Cardinality(Tickets(cs)) <= 1
    BY <1>4, <2>3, FS_EmptySet, FS_CardinalityType DEF Accepts
  <2>5. Cardinality(Tickets(cs)) = 1
    BY <2>4
  <2>6. PICK x : Tickets(cs) = {x}
    BY <2>3, <2>5, FS_Singleton
  <2> QED
    BY <2>6
<1> QED
  BY <1>2, <1>3, <1>4

(* The relay of the target is one that some candidate brings, if any does. *)
LEMMA PreferredIsOffered ==
  ASSUME NEW cs, cs \in Seq(Range(cs)), \A i \in DOMAIN cs : cs[i].priority \in Int
  PROVE  IF AllRelays(cs) = {} THEN PreferredRelay(cs) = NoRelay
         ELSE PreferredRelay(cs) \in AllRelays(cs)
<1> DEFINE with == {i \in DOMAIN cs : Relays(cs[i]) # {}}
           before(i, j) == \/ cs[i].priority > cs[j].priority
                           \/ cs[i].priority = cs[j].priority /\ i <= j
           first == CHOOSE i \in with : \A j \in with : before(i, j)
<1>0. Len(cs) \in Nat /\ DOMAIN cs = 1 .. Len(cs)
  OBVIOUS
<1>1. AllRelays(cs) = {} <=> with = {}
  BY DEF AllRelays, Range
<1>2. PreferredRelay(cs) = IF with = {} THEN NoRelay ELSE CHOOSE r \in Relays(cs[first]) : TRUE
  BY DEF PreferredRelay
<1>3. ASSUME with # {} PROVE PreferredRelay(cs) \in AllRelays(cs)
  <2> DEFINE P == [i \in DOMAIN cs |-> cs[i].priority]
  <2>1. \E b \in with : \A j \in with : P[b] > P[j] \/ (P[b] = P[j] /\ b <= j)
    <3>1. with \in SUBSET (1 .. Len(cs)) /\ \A i \in with : P[i] \in Int
      BY <1>0
    <3> HIDE DEF with, P
    <3> QED
      BY <1>0, <1>3, <3>1, HighestPriority
  <2>2. \E b \in with : \A j \in with : before(b, j)
    BY <2>1
  <2>3. first \in with
    BY <2>2
  <2> HIDE DEF first
  <2>4. PreferredRelay(cs) \in Relays(cs[first])
    BY <1>2, <1>3, <2>3
  <2> QED
    BY <2>3, <2>4 DEF AllRelays, Range
<1> QED
  BY <1>1, <1>2, <1>3

(* The target of an accepted list does not depend on its order, and is its *)
(* ticket or keeps its sockets and its relay.                              *)
LEMMA TargetOfAccepted ==
  ASSUME NEW cs, cs \in Seq(Range(cs)), \A i \in DOMAIN cs : cs[i].priority \in Int,
         Accepts(cs)
  PROVE  OrderIrrelevant(cs) /\ HintsKept(cs, Target(cs))
<1> DEFINE rs == Reversed(cs)
<1>1. /\ Range(rs) = Range(cs) /\ rs \in Seq(Range(rs))
      /\ Len(rs) = Len(cs) /\ DOMAIN rs = DOMAIN cs
  BY SameCandidates
<1>2. Tickets(rs) = Tickets(cs) /\ AllSockets(rs) = AllSockets(cs) /\ AllRelays(rs) = AllRelays(cs)
  BY <1>1 DEF Tickets, AllSockets, AllRelays
<1>3. cs # <<>> /\ rs # <<>> /\ Len(cs) \in Nat /\ Len(cs) # 0 /\ DOMAIN cs = 1 .. Len(cs)
  BY <1>1 DEF Accepts
<1>4. Accepts(rs)
  BY <1>1, <1>2, <1>3 DEF Accepts
<1>5. \A i \in DOMAIN rs : rs[i].priority \in Int
  <2>1. \A i \in DOMAIN cs : Len(cs) + 1 - i \in DOMAIN cs
    BY <1>3
  <2> QED
    BY <1>1, <2>1 DEF Reversed
<1>6. cs[1].id = rs[1].id /\ cs[1].id \in {c.id : c \in Range(cs)}
  <2>1. 1 \in DOMAIN cs
    BY <1>3
  <2>2. cs[1] \in Range(cs) /\ rs[1] \in Range(rs)
    BY <1>1, <2>1 DEF Range
  <2> QED
    BY <1>1, <2>2, AcceptedAgree
<1>7. Tickets(cs) = {} => PreferredRelay(rs) = PreferredRelay(cs)
  <2> SUFFICES ASSUME Tickets(cs) = {} PROVE PreferredRelay(rs) = PreferredRelay(cs)
    OBVIOUS
  <2>1. IF AllRelays(cs) = {} THEN PreferredRelay(cs) = NoRelay ELSE PreferredRelay(cs) \in AllRelays(cs)
    BY PreferredIsOffered
  <2>2. IF AllRelays(rs) = {} THEN PreferredRelay(rs) = NoRelay ELSE PreferredRelay(rs) \in AllRelays(rs)
    <3> HIDE DEF rs
    <3> QED
      BY <1>1, <1>5, PreferredIsOffered
  <2> QED
    BY <1>2, <2>1, <2>2, AcceptedAgree
<1>8. OrderIrrelevant(cs)
  BY <1>2, <1>4, <1>6, <1>7 DEF OrderIrrelevant, Target
<1>9. HintsKept(cs, Target(cs))
  <2>0. ASSUME NEW t \in Tickets(cs) PROVE Target(cs) = [ticket |-> t]
    <3>1. (CHOOSE u \in Tickets(cs) : TRUE) \in Tickets(cs)
      OBVIOUS
    <3>2. (CHOOSE u \in Tickets(cs) : TRUE) = t
      BY <3>1, AcceptedAgree
    <3> QED
      BY <3>2 DEF Target
  <2> SUFFICES ASSUME Tickets(cs) = {} PROVE HintsKept(cs, Target(cs))
    BY <2>0 DEF HintsKept
  <2>1. Target(cs) = [node |-> cs[1].id, sockets |-> AllSockets(cs), relay |-> PreferredRelay(cs)]
    BY DEF Target
  <2>2. ASSUME NEW c \in Range(cs) PROVE Relays(c) \subseteq {PreferredRelay(cs)}
    <3>1. Relays(c) \subseteq AllRelays(cs)
      BY DEF AllRelays
    <3> QED
      BY <3>1, PreferredIsOffered, AcceptedAgree
  <2> DEFINE jsons == {c \in Range(cs) : c.address.kind = "json"}
             hints == {c.address : c \in Range(cs)} \cup UNION {Range(c.address.addrs) : c \in jsons}
  <2>3. ASSUME NEW x \in AllSockets(cs) PROVE \E a \in hints : a.kind = "socket" /\ a.at = x
    <3>1. PICK c \in Range(cs) : x \in Sockets(c)
      BY DEF AllSockets
    <3>2. CASE c.address.kind = "socket"
      BY <3>1, <3>2 DEF Sockets
    <3>3. CASE c.address.kind = "json"
      <4>1. PICK i \in DOMAIN c.address.addrs :
              c.address.addrs[i].kind = "socket" /\ c.address.addrs[i].at = x
        BY <3>1, <3>3 DEF Sockets, Listed
      <4>2. c \in jsons /\ c.address.addrs[i] \in Range(c.address.addrs)
        BY <3>3 DEF Range
      <4> QED
        BY <4>1, <4>2
    <3>4. c.address.kind \in {"socket", "json"}
      BY <3>1 DEF Sockets
    <3> QED
      BY <3>2, <3>3, <3>4
  <2>4. ASSUME NEW a \in hints, a.kind = "socket" PROVE a.at \in AllSockets(cs)
    <3>1. CASE \E c \in Range(cs) : a = c.address
      <4>1. PICK c \in Range(cs) : a = c.address
        BY <3>1
      <4>2. a.at \in Sockets(c)
        BY <2>4, <4>1 DEF Sockets
      <4> QED
        BY <4>2 DEF AllSockets
    <3>2. CASE \E c \in jsons : a \in Range(c.address.addrs)
      <4>1. PICK c \in Range(cs) : c.address.kind = "json" /\ a \in Range(c.address.addrs)
        BY <3>2
      <4>2. PICK i \in DOMAIN c.address.addrs : a = c.address.addrs[i]
        BY <4>1 DEF Range
      <4>3. i \in Listed(c.address, "socket")
        BY <2>4, <4>2 DEF Listed
      <4>4. Sockets(c) = {c.address.addrs[k].at : k \in Listed(c.address, "socket")}
        BY <4>1 DEF Sockets
      <4>5. a.at \in Sockets(c)
        BY <4>2, <4>3, <4>4
      <4> QED
        BY <4>5 DEF AllSockets
    <3> QED
      BY <2>4, <3>1, <3>2
  <2>5. AllSockets(cs) = {a.at : a \in {b \in hints : b.kind = "socket"}}
    BY <2>3, <2>4
  <2> QED
    BY <1>6, <2>1, <2>2, <2>5 DEF HintsKept, Offered
<1> QED
  BY <1>8, <1>9

-----------------------------------------------------------------------------
(* The transport: its inductive invariant.                                 *)

(* The dial under way is one connect() has accepted, with its target.      *)
DialInv ==
  dial # NoDial =>
    /\ dial.asked \in Lists /\ Accepts(dial.asked)
    /\ dial.target = Target(dial.asked)

-----------------------------------------------------------------------------
(* The reads and the frames of a stream.                                   *)

(* read() is called in the order of its numbers.                           *)
ReadsInOrder ==
  \A q, r \in Read : q < r /\ read[q] = "no" => read[r] = "no"

(* The queue of waiters: reads that wait or have given up, in their order, *)
(* behind every read that got a frame, and only while no frame is queued.  *)
WaitersQueued ==
  /\ frames # <<>> => waiters = <<>>
  /\ \A i \in 1 .. Len(waiters) : read[waiters[i]] \in {"waiting", "gaveUp"}
  /\ \A i, j \in 1 .. Len(waiters) : i < j => waiters[i] < waiters[j]
  /\ \A k \in 1 .. arrived, i \in 1 .. Len(waiters) : given[k] < waiters[i]

(* Only frames that have arrived are queued or handed out.                 *)
NothingBeforehand ==
  /\ \A i \in 1 .. Len(frames) : frames[i] <= arrived
  /\ \A k \in Frame : k > arrived => given[k] = 0

StreamInv == ReadsInOrder /\ WaitersQueued /\ NothingBeforehand /\ FramesAccounted

-----------------------------------------------------------------------------
(* The forwarders and stop().                                              *)

(* What a stop() knows of a forwarder that was not asked for too late:     *)
(* until it is up no stop() has begun, and while it stops, none of those   *)
(* under way has passed the wait for the forwarders.                       *)
ForwardersKnown ==
  \A f \in Forwarder \ late :
    /\ forwarder[f] \in {"opening", "up", "stopping"} => state \notin {"idle", "stopped"}
    /\ forwarder[f] \in {"opening", "up"} => InFlight(stop) = {}
    /\ forwarder[f] \in {"up", "stopping"} => f \in forwarders
    /\ forwarder[f] = "stopping" => \A t \in Stopper : stop[t] \in {"no", "forwarders", "over"}

-----------------------------------------------------------------------------
(* start(), stop() and the state.                                          *)

(* As long as none has overlapped another, one call is under way at most.  *)
OneCall ==
  /\ \A s, u \in InFlight(start) : s = u
  /\ \A t, u \in InFlight(stop) : t = u
  /\ InFlight(start) = {} \/ InFlight(stop) = {}

(* What the call under way has done to the state and to the bridge.        *)
CallInState ==
  /\ \A s \in Starter :
       /\ start[s] \in {"waiting", "started"} => state = "starting"
       /\ start[s] = "gaveUp" => state = "failed"
       /\ start[s] = "started" => bridge
  /\ \A t \in Stopper :
       /\ stop[t] \in {"forwarders", "bridge", "stopped"} => state = "stopping"
       /\ stop[t] = "stopped" => ~ bridge
  /\ state = "ready" => bridge
  /\ state \in {"idle", "stopped"} => ~ bridge

CallsInv == ~ crossed => OneCall /\ CallInState

-----------------------------------------------------------------------------
(* The invariant falls into three parts, of which each is about variables  *)
(* the other two do not mention.                                           *)

EndpointType ==
  /\ state \in {"idle", "starting", "ready", "stopping", "stopped", "failed"}
  /\ bridge \in BOOLEAN
  /\ start \in [Starter -> {"no", "waiting", "started", "gaveUp", "over"}]
  /\ stop \in [Stopper -> {"no", "forwarders", "bridge", "stopped", "over"}]
  /\ forwarder \in [Forwarder -> {"no", "opening", "up", "stopping", "down"}]
  /\ forwarders \subseteq Forwarder
  /\ late \subseteq Forwarder
  /\ crossed \in BOOLEAN

LinkType ==
  /\ session \in {"no", "dialing", "gaveUp", "open", "lost", "closed"}
  /\ (dial = NoDial) <=> (session # "dialing")
  /\ closing \in {"no", "streams", "native", "over"}
  /\ streams \in BOOLEAN /\ link \in BOOLEAN

StreamType ==
  /\ stream \in {"no", "opening", "gaveUp", "hello", "open", "lost", "closed"}
  /\ arrived \in 0 .. MaxFrames
  /\ frames \in Seq(Frame) /\ waiters \in Seq(Read)
  /\ read \in [Read -> {"no", "waiting", "gaveUp", "frame", "null"}]
  /\ given \in [Frame -> 0 .. MaxReads]

(* Only a session that was open is closed.                                 *)
OnlyOpenCloses == closing # "no" => session \in {"open", "closed"}

EndpointInv == EndpointType /\ ForwardersKnown /\ CallsInv
LinkInv     == LinkType /\ OnlyOpenCloses /\ DialInv
StreamsInv  == StreamType /\ StreamInv

RnInv == EndpointInv /\ LinkInv /\ StreamsInv

(* The types of the three parts are the type invariant.                    *)
LEMMA TypeParts == RnTypeOK <=> EndpointType /\ LinkType /\ StreamType
BY DEF RnTypeOK, EndpointType, LinkType, StreamType

-----------------------------------------------------------------------------
(* Which steps leave which part alone.                                     *)

EndpointStep ==
  \/ \E s \in Starter : StartStep(s)
  \/ \E t \in Stopper : StopStep(t)
  \/ \E f \in Forwarder : ForwarderStep(f)

SessionStep ==
  Connect \/ DialSettles \/ CloseSession \/ StreamsClosed \/ NativeSessionCloses

OpeningStep == OpenStream \/ StreamArrives \/ StreamFails \/ HelloDone \/ HelloFails

FrameStep ==
  FrameArrives \/ BadFrame \/ LinkCloses \/ \E r \in Read : ReadFrame(r) \/ ReadGivesUp(r)

(* Every step is one of the endpoint, of the session, of the opening of    *)
(* the stream or of its frames.                                            *)
LEMMA StepParts == RnNext <=> EndpointStep \/ SessionStep \/ OpeningStep \/ FrameStep
BY DEF RnNext, EndpointStep, SessionStep, OpeningStep, FrameStep

(* The steps of start(), stop() and the forwarders leave the session alone. *)
LEMMA EndpointAlone == EndpointStep => UNCHANGED <<linkVars, streamVars>>
BY DEF EndpointStep, StartStep, StopStep, ForwarderStep,
       Start, NativeStarts, StartReturns, StartThrows, NativeStartFails,
       Stop, ForwardersStopped, NativeStops, StopReturns, NativeStopFails,
       StartTcpForwarder, ForwarderUp, ForwarderFails, ForwarderStops, ForwarderStopFails

(* The other steps leave the endpoint alone.                               *)
LEMMA SessionAlone == SessionStep \/ OpeningStep \/ FrameStep => UNCHANGED <<endpointVars, late>>
BY DEF SessionStep, OpeningStep, FrameStep,
       Connect, DialSettles, CloseSession, StreamsClosed, NativeSessionCloses,
       OpenStream, StreamArrives, StreamFails, HelloDone, HelloFails,
       FrameArrives, BadFrame, LinkCloses, ReadFrame, ReadGivesUp

-----------------------------------------------------------------------------
(* The endpoint.                                                           *)

(* Its type is kept.                                                       *)
LEMMA EndpointStepType ==
  ASSUME EndpointType, EndpointStep
  PROVE  EndpointType'
<1>1. ASSUME NEW s \in Starter, Start(s) PROVE EndpointType'
  BY <1>1 DEF Start, EndpointType
<1>2. ASSUME NEW s \in Starter, NativeStarts(s) PROVE EndpointType'
  BY <1>2 DEF NativeStarts, EndpointType
<1>3. ASSUME NEW s \in Starter, StartReturns(s) PROVE EndpointType'
  BY <1>3 DEF StartReturns, EndpointType
<1>4. ASSUME NEW s \in Starter, StartThrows(s) PROVE EndpointType'
  BY <1>4 DEF StartThrows, EndpointType
<1>5. ASSUME NEW s \in Starter, NativeStartFails(s) PROVE EndpointType'
  BY <1>5 DEF NativeStartFails, EndpointType
<1>6. ASSUME NEW t \in Stopper, Stop(t) PROVE EndpointType'
  BY <1>6 DEF Stop, Opening, EndpointType
<1>7. ASSUME NEW t \in Stopper, ForwardersStopped(t) PROVE EndpointType'
  BY <1>7 DEF ForwardersStopped, EndpointType
<1>8. ASSUME NEW t \in Stopper, NativeStops(t) PROVE EndpointType'
  BY <1>8 DEF NativeStops, EndpointType
<1>9. ASSUME NEW t \in Stopper, StopReturns(t) PROVE EndpointType'
  BY <1>9 DEF StopReturns, EndpointType
<1>10. ASSUME NEW t \in Stopper, NativeStopFails(t) PROVE EndpointType'
  BY <1>10 DEF NativeStopFails, EndpointType
<1>11. ASSUME NEW f \in Forwarder, StartTcpForwarder(f) PROVE EndpointType'
  BY <1>11 DEF StartTcpForwarder, EndpointType
<1>12. ASSUME NEW f \in Forwarder, ForwarderUp(f) PROVE EndpointType'
  BY <1>12 DEF ForwarderUp, EndpointType
<1>13. ASSUME NEW f \in Forwarder, ForwarderFails(f) PROVE EndpointType'
  BY <1>13 DEF ForwarderFails, EndpointType
<1>14. ASSUME NEW f \in Forwarder, ForwarderStops(f) PROVE EndpointType'
  BY <1>14 DEF ForwarderStops, EndpointType
<1>15. ASSUME NEW f \in Forwarder, ForwarderStopFails(f) PROVE EndpointType'
  BY <1>15 DEF ForwarderStopFails, EndpointType
<1> QED
  BY <1>1, <1>2, <1>3, <1>4, <1>5, <1>6, <1>7, <1>8, <1>9, <1>10, <1>11, <1>12, <1>13, <1>14, <1>15
     DEF EndpointStep, StartStep, StopStep, ForwarderStep

(* stop() tells every forwarder it knows; a forwarder that comes up joins  *)
(* those the next stop() will find.                                        *)
LEMMA StepForwardersKnown ==
  ASSUME EndpointType, ForwardersKnown, EndpointStep
  PROVE  ForwardersKnown'
<1>1. ASSUME NEW s \in Starter, Start(s) PROVE ForwardersKnown'
  BY <1>1 DEF Start, EndpointType, ForwardersKnown, InFlight, Opening
<1>2. ASSUME NEW s \in Starter, NativeStarts(s) PROVE ForwardersKnown'
  BY <1>2 DEF NativeStarts, EndpointType, ForwardersKnown, InFlight, Opening
<1>3. ASSUME NEW s \in Starter, StartReturns(s) PROVE ForwardersKnown'
  BY <1>3 DEF StartReturns, EndpointType, ForwardersKnown, InFlight, Opening
<1>4. ASSUME NEW s \in Starter, StartThrows(s) PROVE ForwardersKnown'
  BY <1>4 DEF StartThrows, EndpointType, ForwardersKnown, InFlight, Opening
<1>5. ASSUME NEW s \in Starter, NativeStartFails(s) PROVE ForwardersKnown'
  BY <1>5 DEF NativeStartFails, EndpointType, ForwardersKnown, InFlight, Opening
<1>6. ASSUME NEW t \in Stopper, Stop(t) PROVE ForwardersKnown'
  BY <1>6 DEF Stop, EndpointType, ForwardersKnown, InFlight, Opening
<1>7. ASSUME NEW t \in Stopper, ForwardersStopped(t) PROVE ForwardersKnown'
  BY <1>7 DEF ForwardersStopped, EndpointType, ForwardersKnown, InFlight, Opening
<1>8. ASSUME NEW t \in Stopper, NativeStops(t) PROVE ForwardersKnown'
  BY <1>8 DEF NativeStops, EndpointType, ForwardersKnown, InFlight, Opening
<1>9. ASSUME NEW t \in Stopper, StopReturns(t) PROVE ForwardersKnown'
  BY <1>9 DEF StopReturns, EndpointType, ForwardersKnown, InFlight, Opening
<1>10. ASSUME NEW t \in Stopper, NativeStopFails(t) PROVE ForwardersKnown'
  BY <1>10 DEF NativeStopFails, EndpointType, ForwardersKnown, InFlight, Opening
<1>11. ASSUME NEW f \in Forwarder, StartTcpForwarder(f) PROVE ForwardersKnown'
  BY <1>11 DEF StartTcpForwarder, EndpointType, ForwardersKnown, InFlight, Opening
<1>12. ASSUME NEW f \in Forwarder, ForwarderUp(f) PROVE ForwardersKnown'
  BY <1>12 DEF ForwarderUp, EndpointType, ForwardersKnown, InFlight, Opening
<1>13. ASSUME NEW f \in Forwarder, ForwarderFails(f) PROVE ForwardersKnown'
  BY <1>13 DEF ForwarderFails, EndpointType, ForwardersKnown, InFlight, Opening
<1>14. ASSUME NEW f \in Forwarder, ForwarderStops(f) PROVE ForwardersKnown'
  BY <1>14 DEF ForwarderStops, EndpointType, ForwardersKnown, InFlight, Opening
<1>15. ASSUME NEW f \in Forwarder, ForwarderStopFails(f) PROVE ForwardersKnown'
  BY <1>15 DEF ForwarderStopFails, EndpointType, ForwardersKnown, InFlight, Opening
<1> QED
  BY <1>1, <1>2, <1>3, <1>4, <1>5, <1>6, <1>7, <1>8, <1>9, <1>10, <1>11, <1>12, <1>13, <1>14, <1>15
     DEF EndpointStep, StartStep, StopStep, ForwarderStep

(* A call that begins while another is under way sets crossed; without one *)
(* the state is that of the only call.                                     *)
LEMMA StepCalls ==
  ASSUME EndpointType, CallsInv, EndpointStep
  PROVE  CallsInv'
<1>1. ASSUME NEW s \in Starter, Start(s) PROVE CallsInv'
  <2> SUFFICES ASSUME ~ crossed' PROVE OneCall' /\ CallInState'
    BY DEF CallsInv
  <2>1. InFlight(start) = {} /\ InFlight(stop) = {} /\ CallInState
    BY <1>1 DEF Start, CallsInv
  <2>2. InFlight(start') = {s} /\ InFlight(stop') = {}
    BY <1>1, <2>1 DEF Start, EndpointType, InFlight
  <2>3. OneCall'
    BY <2>2 DEF OneCall
  <2>4. CallInState'
    BY <1>1, <2>1 DEF Start, EndpointType, InFlight, CallInState
  <2> QED
    BY <2>3, <2>4
<1>2. ASSUME NEW s \in Starter, NativeStarts(s) PROVE CallsInv'
  BY <1>2 DEF NativeStarts, EndpointType, CallsInv, OneCall, CallInState, InFlight
<1>3. ASSUME NEW s \in Starter, StartReturns(s) PROVE CallsInv'
  BY <1>3 DEF StartReturns, EndpointType, CallsInv, OneCall, CallInState, InFlight
<1>4. ASSUME NEW s \in Starter, StartThrows(s) PROVE CallsInv'
  BY <1>4 DEF StartThrows, EndpointType, CallsInv, OneCall, CallInState, InFlight
<1>5. ASSUME NEW s \in Starter, NativeStartFails(s) PROVE CallsInv'
  BY <1>5 DEF NativeStartFails, EndpointType, CallsInv, OneCall, CallInState, InFlight
<1>6. ASSUME NEW t \in Stopper, Stop(t) PROVE CallsInv'
  <2> SUFFICES ASSUME ~ crossed' PROVE OneCall' /\ CallInState'
    BY DEF CallsInv
  <2>1. CASE state \in {"stopped", "idle"}
    BY <1>6, <2>1 DEF Stop, EndpointType, CallsInv, OneCall, CallInState, InFlight
  <2>2. CASE state \notin {"stopped", "idle"}
    <3>1. InFlight(start) = {} /\ InFlight(stop) = {} /\ CallInState
      BY <1>6, <2>2 DEF Stop, CallsInv
    <3>2. InFlight(start') = {} /\ InFlight(stop') = {t}
      BY <1>6, <2>2, <3>1 DEF Stop, EndpointType, InFlight
    <3>3. OneCall'
      BY <3>2 DEF OneCall
    <3>4. CallInState'
      BY <1>6, <2>2, <3>1 DEF Stop, EndpointType, InFlight, CallInState
    <3> QED
      BY <3>3, <3>4
  <2> QED
    BY <2>1, <2>2
<1>7. ASSUME NEW t \in Stopper, ForwardersStopped(t) PROVE CallsInv'
  BY <1>7 DEF ForwardersStopped, EndpointType, CallsInv, OneCall, CallInState, InFlight
<1>8. ASSUME NEW t \in Stopper, NativeStops(t) PROVE CallsInv'
  BY <1>8 DEF NativeStops, EndpointType, CallsInv, OneCall, CallInState, InFlight
<1>9. ASSUME NEW t \in Stopper, StopReturns(t) PROVE CallsInv'
  BY <1>9 DEF StopReturns, EndpointType, CallsInv, OneCall, CallInState, InFlight
<1>10. ASSUME NEW t \in Stopper, NativeStopFails(t) PROVE CallsInv'
  BY <1>10 DEF NativeStopFails, EndpointType, CallsInv, OneCall, CallInState, InFlight
<1>11. ASSUME NEW f \in Forwarder, StartTcpForwarder(f) PROVE CallsInv'
  BY <1>11 DEF StartTcpForwarder, EndpointType, CallsInv, OneCall, CallInState, InFlight
<1>12. ASSUME NEW f \in Forwarder, ForwarderUp(f) PROVE CallsInv'
  BY <1>12 DEF ForwarderUp, EndpointType, CallsInv, OneCall, CallInState, InFlight
<1>13. ASSUME NEW f \in Forwarder, ForwarderFails(f) PROVE CallsInv'
  BY <1>13 DEF ForwarderFails, EndpointType, CallsInv, OneCall, CallInState, InFlight
<1>14. ASSUME NEW f \in Forwarder, ForwarderStops(f) PROVE CallsInv'
  BY <1>14 DEF ForwarderStops, EndpointType, CallsInv, OneCall, CallInState, InFlight
<1>15. ASSUME NEW f \in Forwarder, ForwarderStopFails(f) PROVE CallsInv'
  BY <1>15 DEF ForwarderStopFails, EndpointType, CallsInv, OneCall, CallInState, InFlight
<1> QED
  BY <1>1, <1>2, <1>3, <1>4, <1>5, <1>6, <1>7, <1>8, <1>9, <1>10, <1>11, <1>12, <1>13, <1>14, <1>15
     DEF EndpointStep, StartStep, StopStep, ForwarderStep

-----------------------------------------------------------------------------
(* The session and its stream.                                             *)

(* connect() makes its target of the candidates it has accepted.           *)
LEMMA SessionStepLink ==
  ASSUME LinkInv, SessionStep
  PROVE  LinkInv'
<1>1. CASE Connect
  <2>1. PICK cs \in Lists : Accepts(cs) /\ dial' = [asked |-> cs, target |-> Target(cs)]
    BY <1>1 DEF Connect
  <2>2. dial' # NoDial
    BY <2>1, NoDialAssumption
  <2>3. LinkType' /\ OnlyOpenCloses'
    BY <1>1, <2>2 DEF Connect, LinkInv, LinkType, OnlyOpenCloses
  <2>4. DialInv'
    BY <2>1 DEF DialInv
  <2> QED
    BY <2>3, <2>4 DEF LinkInv
<1>2. CASE DialSettles
  BY <1>2 DEF DialSettles, LinkInv, LinkType, OnlyOpenCloses, DialInv
<1>3. CASE CloseSession
  BY <1>3 DEF CloseSession, LinkInv, LinkType, OnlyOpenCloses, DialInv
<1>4. CASE StreamsClosed
  BY <1>4 DEF StreamsClosed, LinkInv, LinkType, OnlyOpenCloses, DialInv
<1>5. CASE NativeSessionCloses
  BY <1>5 DEF NativeSessionCloses, LinkInv, LinkType, OnlyOpenCloses, DialInv
<1> QED
  BY <1>1, <1>2, <1>3, <1>4, <1>5 DEF SessionStep

(* The steps of a stream leave the session and its dial alone.             *)
LEMMA OtherStepLink ==
  ASSUME LinkInv, OpeningStep \/ FrameStep
  PROVE  LinkInv'
<1>1. UNCHANGED <<session, dial, closing>>
  BY DEF OpeningStep, FrameStep, OpenStream, StreamArrives, StreamFails, HelloDone, HelloFails,
         FrameArrives, BadFrame, LinkCloses, ReadFrame, ReadGivesUp, linkVars
<1>2. streams' \in BOOLEAN /\ link' \in BOOLEAN
  BY DEF OpeningStep, FrameStep, OpenStream, StreamArrives, StreamFails, HelloDone, HelloFails,
         FrameArrives, BadFrame, LinkCloses, ReadFrame, ReadGivesUp, linkVars, LinkInv, LinkType
<1> QED
  BY <1>1, <1>2 DEF LinkInv, LinkType, OnlyOpenCloses, DialInv

-----------------------------------------------------------------------------
(* The frames and their readers.                                           *)

(* A frame that was handed out was handed to a read that had been called.   *)
LEMMA GivenIsRead ==
  ASSUME StreamsInv, NEW k \in 1 .. arrived, given[k] # 0
  PROVE  given[k] \in Read /\ read[given[k]] \in {"frame", "gaveUp"}
<1>1. given[k] \in 0 .. MaxReads
  BY TransportAssumption DEF StreamsInv, StreamType, Frame
<1> QED
  BY <1>1, TransportAssumption DEF StreamsInv, StreamInv, FramesAccounted, Read

(* Closing a stream wakes its readers and changes nothing else of them.    *)
LEMMA MarkClosedKeeps ==
  ASSUME StreamsInv, MarkClosed
  PROVE  StreamsInv'
<1>1. StreamType'
  BY DEF StreamsInv, StreamType, MarkClosed, Woken
<1>2. ReadsInOrder'
  BY DEF StreamsInv, StreamType, StreamInv, ReadsInOrder, MarkClosed, Woken
<1>3. WaitersQueued' /\ NothingBeforehand'
  BY DEF StreamsInv, StreamType, StreamInv, WaitersQueued, NothingBeforehand, MarkClosed
<1>4. FramesAccounted'
  <2>1. ASSUME NEW k \in 1 .. arrived, given[k] # 0 PROVE read'[given[k]] \in {"frame", "gaveUp"}
    <3>1. given[k] \in Read /\ read[given[k]] \in {"frame", "gaveUp"}
      BY <2>1, GivenIsRead
    <3> QED
      BY <3>1 DEF MarkClosed, Woken
  <2> QED
    BY <2>1 DEF StreamsInv, StreamInv, FramesAccounted, MarkClosed
<1> QED
  BY <1>1, <1>2, <1>3, <1>4 DEF StreamsInv, StreamInv

(* A step that leaves the frames and the reads alone.                      *)
LEMMA StreamsUnchanged ==
  ASSUME StreamsInv, UNCHANGED streamVars,
         stream' \in {"no", "opening", "gaveUp", "hello", "open", "lost", "closed"}
  PROVE  StreamsInv'
BY DEF StreamsInv, StreamType, StreamInv, ReadsInOrder, WaitersQueued, NothingBeforehand,
       FramesAccounted, streamVars

(* A frame joins the queue, or goes to the read that waits first.          *)
LEMMA FrameArrivesKeeps ==
  ASSUME StreamsInv, FrameArrives
  PROVE  StreamsInv'
<1> DEFINE n == arrived + 1
<1>1. n \in Frame /\ arrived \in Nat /\ arrived' = n /\ stream' = stream
  BY TransportAssumption DEF FrameArrives, StreamsInv, StreamType, Frame, linkVars
<1>2. CASE waiters = <<>>
  <2>1. frames' = Append(frames, n) /\ UNCHANGED <<read, waiters, given>>
    BY <1>2 DEF FrameArrives
  <2>2. StreamType'
    BY <1>1, <2>1 DEF StreamsInv, StreamType, Frame
  <2>3. ReadsInOrder'
    BY <2>1 DEF StreamsInv, StreamInv, ReadsInOrder
  <2>4. WaitersQueued'
    BY <1>2, <2>1 DEF StreamsInv, StreamInv, WaitersQueued
  <2>5. /\ DOMAIN frames' = 1 .. Len(frames) + 1 /\ DOMAIN frames = 1 .. Len(frames)
        /\ Len(frames) \in Nat /\ Len(frames') = Len(frames) + 1
        /\ \A i \in 1 .. Len(frames) : frames'[i] = frames[i] /\ frames[i] \in Frame /\ frames[i] <= arrived
        /\ frames'[Len(frames) + 1] = n
    BY <2>1 DEF StreamsInv, StreamType, StreamInv, NothingBeforehand
  <2>6. NothingBeforehand'
    <3>1. \A i \in 1 .. Len(frames') : frames'[i] <= n
      BY <1>1, <2>5, TransportAssumption DEF Frame
    <3> QED
      BY <1>1, <2>1, <3>1 DEF StreamsInv, StreamInv, NothingBeforehand, StreamType, Frame
  <2>7. FramesAccounted'
    <3>1. given[n] = 0
      BY <1>1 DEF StreamsInv, StreamInv, NothingBeforehand
    <3>2. \A k \in 1 .. n : given[k] = 0 <=> \E i \in DOMAIN frames' : frames'[i] = k
      <4>1. ASSUME NEW k \in 1 .. n, given[k] = 0 PROVE \E i \in DOMAIN frames' : frames'[i] = k
        <5>1. CASE k = n
          BY <2>5, <5>1
        <5>2. CASE k # n
          <6>1. k \in 1 .. arrived
            BY <1>1, <5>2
          <6>2. PICK i \in DOMAIN frames : frames[i] = k
            BY <4>1, <6>1 DEF StreamsInv, StreamInv, FramesAccounted
          <6> QED
            BY <2>5, <6>2
        <5> QED
          BY <5>1, <5>2
      <4>2. ASSUME NEW k \in 1 .. n, NEW i \in DOMAIN frames', frames'[i] = k PROVE given[k] = 0
        <5>1. CASE i = Len(frames) + 1
          BY <2>5, <3>1, <4>2, <5>1
        <5>2. CASE i # Len(frames) + 1
          <6>1. i \in DOMAIN frames /\ frames[i] = k
            BY <2>5, <4>2, <5>2
          <6>2. k \in 1 .. arrived
            BY <1>1, <2>5, <6>1
          <6> QED
            BY <6>1, <6>2 DEF StreamsInv, StreamInv, FramesAccounted
        <5> QED
          BY <5>1, <5>2
      <4> QED
        BY <4>1, <4>2
    <3>3. \A i, j \in DOMAIN frames' : i < j => frames'[i] < frames'[j]
      BY <1>1, <2>5, TransportAssumption DEF StreamsInv, StreamInv, FramesAccounted, Frame
    <3>4. \A k \in 1 .. n : given[k] # 0 => k \in 1 .. arrived
      BY <1>1, <3>1
    <3> QED
      BY <1>1, <2>1, <3>2, <3>3, <3>4 DEF StreamsInv, StreamInv, FramesAccounted
  <2> QED
    BY <2>2, <2>3, <2>4, <2>6, <2>7 DEF StreamsInv, StreamInv
<1>3. CASE waiters # <<>>
  <2> DEFINE r == Head(waiters)
  <2>1. /\ waiters' = Tail(waiters) /\ frames' = frames
        /\ given' = [given EXCEPT ![n] = r]
        /\ read' = [read EXCEPT ![r] = IF @ = "waiting" THEN "frame" ELSE @]
    BY <1>1, <1>3 DEF FrameArrives
  <2>2. frames = <<>>
    BY <1>3 DEF StreamsInv, StreamInv, WaitersQueued
  <2>3. r \in Read /\ r = waiters[1] /\ read[r] \in {"waiting", "gaveUp"}
    BY <1>3 DEF StreamsInv, StreamInv, StreamType, WaitersQueued
  <2>4. StreamType'
    BY <1>1, <1>3, <2>1, <2>2, <2>3 DEF StreamsInv, StreamType, Frame, Read
  <2>5. ReadsInOrder'
    BY <2>1, <2>3 DEF StreamsInv, StreamInv, StreamType, ReadsInOrder
  <2>6. WaitersQueued'
    <3>1. /\ Len(waiters') = Len(waiters) - 1 /\ Len(waiters) \in Nat
          /\ \A i \in 1 .. Len(waiters') : waiters'[i] = waiters[i + 1] /\ i + 1 \in 1 .. Len(waiters)
      BY <1>3, <2>1 DEF StreamsInv, StreamType
    <3>2. \A i \in 1 .. Len(waiters') : r < waiters'[i] /\ waiters'[i] \in Read
      <4> SUFFICES ASSUME NEW i \in 1 .. Len(waiters') PROVE r < waiters'[i] /\ waiters'[i] \in Read
        OBVIOUS
      <4>1. i + 1 \in 1 .. Len(waiters) /\ 1 \in 1 .. Len(waiters) /\ 1 < i + 1
        BY <3>1
      <4>2. waiters[1] < waiters[i + 1]
        BY <4>1 DEF StreamsInv, StreamInv, WaitersQueued
      <4>3. waiters[i + 1] \in Read
        BY <4>1 DEF StreamsInv, StreamType
      <4> QED
        BY <2>3, <3>1, <4>2, <4>3
    <3>3. \A i \in 1 .. Len(waiters') : read'[waiters'[i]] \in {"waiting", "gaveUp"}
      BY <2>1, <2>3, <3>1, <3>2 DEF StreamsInv, StreamInv, StreamType, WaitersQueued, Read
    <3>4. \A i, j \in 1 .. Len(waiters') : i < j => waiters'[i] < waiters'[j]
      BY <3>1 DEF StreamsInv, StreamInv, WaitersQueued
    <3>5. \A k \in 1 .. n, i \in 1 .. Len(waiters') : given'[k] < waiters'[i]
      BY <1>1, <2>1, <3>1, <3>2 DEF StreamsInv, StreamInv, StreamType, WaitersQueued, Frame
    <3> QED
      BY <1>1, <2>1, <2>2, <3>3, <3>4, <3>5 DEF WaitersQueued
  <2>7. NothingBeforehand'
    BY <1>1, <2>1, <2>2, <2>3 DEF StreamsInv, StreamInv, NothingBeforehand, StreamType, Frame
  <2>8. FramesAccounted'
    BY <1>1, <1>3, <2>1, <2>2, <2>3
       DEF StreamsInv, StreamInv, NothingBeforehand, StreamType, FramesAccounted, WaitersQueued, Frame, Read
  <2> QED
    BY <2>4, <2>5, <2>6, <2>7, <2>8 DEF StreamsInv, StreamInv
<1> QED
  BY <1>2, <1>3

(* Giving up leaves the read in the queue of waiters.                      *)
LEMMA ReadGivesUpKeeps ==
  ASSUME StreamsInv, NEW r \in Read, ReadGivesUp(r)
  PROVE  StreamsInv'
<1>1. StreamType' /\ ReadsInOrder'
  BY DEF StreamsInv, StreamType, StreamInv, ReadsInOrder, ReadGivesUp, linkVars
<1>2. WaitersQueued'
  BY DEF StreamsInv, StreamType, StreamInv, WaitersQueued, ReadGivesUp
<1>3. NothingBeforehand'
  BY DEF StreamsInv, StreamType, StreamInv, NothingBeforehand, ReadGivesUp
<1>4. FramesAccounted'
  BY DEF StreamsInv, StreamType, StreamInv, FramesAccounted, ReadGivesUp, Frame, Read
<1> QED
  BY <1>1, <1>2, <1>3, <1>4 DEF StreamsInv, StreamInv

(* Whoever calls read() now comes after every read that got a frame and    *)
(* after every one that waits.                                             *)
LEMMA LaterRead ==
  ASSUME StreamsInv, NEW r \in Read, read[r] = "no"
  PROVE  /\ \A k \in 1 .. arrived : given[k] < r
         /\ \A i \in 1 .. Len(waiters) : waiters[i] < r
<1>1. ASSUME NEW q \in Read, read[q] # "no" PROVE q < r
  BY <1>1 DEF StreamsInv, StreamInv, StreamType, ReadsInOrder, Read
<1>2. ASSUME NEW k \in 1 .. arrived PROVE given[k] < r
  <2>1. given[k] \in 0 .. MaxReads
    BY TransportAssumption DEF StreamsInv, StreamType, Frame
  <2>2. CASE given[k] = 0
    BY <2>2 DEF Read
  <2>3. CASE given[k] # 0
    <3>1. given[k] \in Read /\ read[given[k]] # "no"
      BY <2>3, GivenIsRead
    <3> QED
      BY <1>1, <3>1
  <2> QED
    BY <2>2, <2>3
<1>3. ASSUME NEW i \in 1 .. Len(waiters) PROVE waiters[i] < r
  <2>1. waiters[i] \in Read /\ read[waiters[i]] # "no"
    BY DEF StreamsInv, StreamInv, StreamType, WaitersQueued
  <2> QED
    BY <1>1, <2>1
<1> QED
  BY <1>2, <1>3

(* A read takes the first frame of the queue, or joins the waiters, or     *)
(* learns that the stream is closed.                                       *)
LEMMA ReadFrameKeeps ==
  ASSUME StreamsInv, NEW r \in Read, ReadFrame(r)
  PROVE  StreamsInv'
<1>1. /\ read[r] = "no" /\ UNCHANGED <<stream, arrived>>
      /\ \A q \in 1 .. r - 1 : read[q] # "no"
      /\ \A k \in 1 .. arrived : given[k] < r
      /\ \A i \in 1 .. Len(waiters) : waiters[i] < r
  BY LaterRead DEF ReadFrame, linkVars
<1>2. ASSUME read' \in [Read -> {"no", "waiting", "gaveUp", "frame", "null"}],
             \A q \in Read : read'[q] = "no" => read[q] = "no" /\ q # r,
             \A q \in Read : q # r => read'[q] = read[q]
      PROVE  ReadsInOrder'
  BY <1>1, <1>2 DEF StreamsInv, StreamInv, StreamType, ReadsInOrder, Read
<1>3. \A k \in 1 .. arrived : given[k] # r
  BY <1>1 DEF Read
\* a frame is queued: it is the first of those nobody has been given
<1>4. CASE frames # <<>> /\ frames' = Tail(frames) /\ given' = [given EXCEPT ![Head(frames)] = r]
           /\ read' = [read EXCEPT ![r] = "frame"] /\ UNCHANGED waiters
  <2> DEFINE h == Head(frames)
  <2>1. /\ Len(frames) \in Nat /\ h = frames[1] /\ 1 \in DOMAIN frames
        /\ DOMAIN frames = 1 .. Len(frames) /\ DOMAIN frames' = 1 .. Len(frames) - 1
        /\ \A i \in DOMAIN frames' : frames'[i] = frames[i + 1] /\ i + 1 \in DOMAIN frames
        /\ frames' \in Seq(Frame) /\ Len(frames') = Len(frames) - 1
    BY <1>4 DEF StreamsInv, StreamType
  <2>2. \A i \in DOMAIN frames : frames[i] \in Frame /\ frames[i] \in 1 .. arrived
    <3> SUFFICES ASSUME NEW i \in DOMAIN frames PROVE frames[i] \in Frame /\ frames[i] \in 1 .. arrived
      OBVIOUS
    <3>1. frames[i] \in Frame
      BY <2>1 DEF StreamsInv, StreamType
    <3>2. frames[i] <= arrived
      BY <2>1 DEF StreamsInv, StreamInv, NothingBeforehand
    <3>3. arrived \in Nat
      BY TransportAssumption DEF StreamsInv, StreamType
    <3> QED
      BY <3>1, <3>2, <3>3 DEF Frame
  <2>3. h \in 1 .. arrived /\ h \in Frame
    BY <2>1, <2>2
  <2>4. waiters = <<>>
    BY <1>4 DEF StreamsInv, StreamInv, WaitersQueued
  <2>5. \A i \in DOMAIN frames' : h < frames'[i]
    BY <2>1, <2>2 DEF StreamsInv, StreamInv, FramesAccounted
  <2>6. \A k \in 1 .. arrived : k < h => given[k] # 0
    <3> SUFFICES ASSUME NEW k \in 1 .. arrived, k < h, given[k] = 0 PROVE FALSE
      OBVIOUS
    <3>1. PICK i \in DOMAIN frames : frames[i] = k
      BY DEF StreamsInv, StreamInv, FramesAccounted
    <3>2. i # 1 => frames[1] < frames[i]
      BY <2>1 DEF StreamsInv, StreamInv, FramesAccounted
    <3> QED
      BY <2>1, <2>3, <3>1, <3>2
  <2>7. \A k \in 1 .. arrived : given[k] # 0 => k < h
    <3> SUFFICES ASSUME NEW k \in 1 .. arrived, given[k] # 0, ~ (k < h) PROVE FALSE
      OBVIOUS
    <3>1. given[h] = 0
      BY <2>1, <2>3 DEF StreamsInv, StreamInv, FramesAccounted
    <3>2. h < k
      BY <2>3, <3>1
    <3> QED
      BY <2>3, <3>1, <3>2 DEF StreamsInv, StreamInv, FramesAccounted
  <2>8. StreamType'
    BY <1>1, <1>4, <2>1, <2>3 DEF StreamsInv, StreamType, Read
  <2>9. ReadsInOrder'
    BY <1>2, <1>4, <2>8 DEF StreamType, StreamsInv
  <2>10. WaitersQueued'
    BY <1>4, <2>4 DEF WaitersQueued
  <2>11. NothingBeforehand'
    BY <1>1, <1>4, <2>1, <2>2, <2>3 DEF StreamsInv, StreamInv, NothingBeforehand, StreamType, Frame
  <2>12. FramesAccounted'
    <3>1. /\ given'[h] = r /\ r # 0
          /\ \A k \in 1 .. arrived : k # h => given'[k] = given[k]
      BY <1>4, <2>3, TransportAssumption DEF StreamsInv, StreamType, Frame, Read
    <3>2. \A k \in 1 .. arrived : given'[k] = 0 <=> \E i \in DOMAIN frames' : frames'[i] = k
      <4>1. ASSUME NEW k \in 1 .. arrived, given'[k] = 0
            PROVE  \E i \in DOMAIN frames' : frames'[i] = k
        <5>1. k # h /\ given[k] = 0
          BY <3>1, <4>1
        <5>2. PICK i \in DOMAIN frames : frames[i] = k
          BY <5>1 DEF StreamsInv, StreamInv, FramesAccounted
        <5>3. i # 1 /\ i - 1 \in DOMAIN frames' /\ i = (i - 1) + 1
          BY <2>1, <5>1, <5>2
        <5> QED
          BY <2>1, <5>2, <5>3
      <4>2. ASSUME NEW k \in 1 .. arrived, NEW i \in DOMAIN frames', frames'[i] = k
            PROVE  given'[k] = 0
        <5>1. k # h
          BY <2>3, <2>5, <4>2
        <5>2. given[k] = 0
          BY <2>1, <4>2 DEF StreamsInv, StreamInv, FramesAccounted
        <5> QED
          BY <3>1, <5>1, <5>2
      <4> QED
        BY <4>1, <4>2
    <3>3. \A i, j \in DOMAIN frames' : i < j => frames'[i] < frames'[j]
      BY <2>1 DEF StreamsInv, StreamInv, FramesAccounted
    <3>4. ASSUME NEW j \in 1 .. arrived, NEW k \in 1 .. arrived, j < k, given'[k] # 0
          PROVE  given'[j] # 0 /\ given'[j] < given'[k]
      <4>1. CASE k = h
        BY <1>1, <2>3, <2>6, <3>1, <3>4, <4>1
      <4>2. CASE k # h
        BY <2>3, <2>7, <3>1, <3>4, <4>2 DEF StreamsInv, StreamInv, FramesAccounted
      <4> QED
        BY <4>1, <4>2
    <3>5. ASSUME NEW k \in 1 .. arrived, given'[k] # 0
          PROVE  read'[given'[k]] \in {"frame", "gaveUp"}
      <4>1. CASE k = h
        BY <1>4, <3>1, <4>1 DEF StreamsInv, StreamType
      <4>2. CASE k # h
        <5>1. given[k] # 0 /\ given'[k] = given[k]
          BY <3>1, <3>5, <4>2
        <5>2. given[k] \in Read /\ read[given[k]] \in {"frame", "gaveUp"}
          BY <5>1, GivenIsRead
        <5> QED
          BY <1>3, <1>4, <5>1, <5>2
      <4> QED
        BY <4>1, <4>2
    <3> QED
      BY <1>1, <3>2, <3>3, <3>4, <3>5 DEF FramesAccounted
  <2> QED
    BY <2>8, <2>9, <2>10, <2>11, <2>12 DEF StreamsInv, StreamInv
\* nothing is queued, the stream is closed
<1>5. CASE read' = [read EXCEPT ![r] = "null"] /\ UNCHANGED <<frames, given, waiters>>
  <2>1. StreamType'
    BY <1>1, <1>5 DEF StreamsInv, StreamType
  <2>2. ReadsInOrder'
    BY <1>2, <1>5, <2>1 DEF StreamType, StreamsInv
  <2>3. WaitersQueued'
    BY <1>1, <1>5 DEF StreamsInv, StreamInv, StreamType, WaitersQueued
  <2>4. NothingBeforehand'
    BY <1>1, <1>5 DEF StreamsInv, StreamInv, NothingBeforehand
  <2>5. FramesAccounted'
    BY <1>1, <1>3, <1>5 DEF StreamsInv, StreamInv, StreamType, FramesAccounted
  <2> QED
    BY <2>1, <2>2, <2>3, <2>4, <2>5 DEF StreamsInv, StreamInv
\* nothing is queued, the stream is open
<1>6. CASE frames = <<>> /\ read' = [read EXCEPT ![r] = "waiting"]
           /\ waiters' = Append(waiters, r) /\ UNCHANGED <<frames, given>>
  <2>1. StreamType'
    BY <1>1, <1>6 DEF StreamsInv, StreamType
  <2>2. ReadsInOrder'
    BY <1>2, <1>6, <2>1 DEF StreamType, StreamsInv
  <2>3. WaitersQueued'
    <3>1. /\ Len(waiters) \in Nat /\ Len(waiters') = Len(waiters) + 1
          /\ \A i \in 1 .. Len(waiters) : waiters'[i] = waiters[i] /\ waiters[i] \in Read
          /\ waiters'[Len(waiters) + 1] = r
      BY <1>6 DEF StreamsInv, StreamType
    <3>2. \A i \in 1 .. Len(waiters') : read'[waiters'[i]] \in {"waiting", "gaveUp"}
      BY <1>1, <1>6, <3>1 DEF StreamsInv, StreamInv, StreamType, WaitersQueued
    <3>3. \A i, j \in 1 .. Len(waiters') : i < j => waiters'[i] < waiters'[j]
      BY <1>1, <3>1 DEF StreamsInv, StreamInv, WaitersQueued
    <3>4. \A k \in 1 .. arrived, i \in 1 .. Len(waiters') : given[k] < waiters'[i]
      BY <1>1, <3>1 DEF StreamsInv, StreamInv, WaitersQueued
    <3> QED
      BY <1>1, <1>6, <3>2, <3>3, <3>4 DEF WaitersQueued
  <2>4. NothingBeforehand'
    BY <1>1, <1>6 DEF StreamsInv, StreamInv, NothingBeforehand
  <2>5. FramesAccounted'
    BY <1>1, <1>3, <1>6 DEF StreamsInv, StreamInv, StreamType, FramesAccounted
  <2> QED
    BY <2>1, <2>2, <2>3, <2>4, <2>5 DEF StreamsInv, StreamInv
<1> QED
  BY <1>4, <1>5, <1>6 DEF ReadFrame

(* Every step keeps what the stream promises.                              *)
LEMMA StepStreams ==
  ASSUME StreamsInv, [RnNext]_rnVars
  PROVE  StreamsInv'
<1> USE DEF linkVars
<1>1. stream \in {"no", "opening", "gaveUp", "hello", "open", "lost", "closed"}
  BY DEF StreamsInv, StreamType
<1>2. CASE EndpointStep \/ UNCHANGED rnVars
  BY <1>1, <1>2, EndpointAlone, StreamsUnchanged DEF rnVars
<1>3. CASE SessionStep
  <2>1. CASE CloseSession
    BY <1>1, <2>1, MarkClosedKeeps, StreamsUnchanged DEF CloseSession
  <2>2. CASE Connect \/ DialSettles \/ StreamsClosed \/ NativeSessionCloses
    BY <1>1, <2>2, StreamsUnchanged DEF Connect, DialSettles, StreamsClosed, NativeSessionCloses
  <2> QED
    BY <1>3, <2>1, <2>2 DEF SessionStep
<1>4. CASE OpeningStep
  <2>1. CASE HelloFails
    BY <2>1, MarkClosedKeeps DEF HelloFails
  <2>2. CASE OpenStream \/ StreamArrives \/ StreamFails \/ HelloDone
    BY <1>1, <2>2, StreamsUnchanged DEF OpenStream, StreamArrives, StreamFails, HelloDone
  <2> QED
    BY <1>4, <2>1, <2>2 DEF OpeningStep
<1>5. CASE FrameStep
  <2>1. CASE FrameArrives
    BY <2>1, FrameArrivesKeeps
  <2>2. CASE BadFrame
    BY <2>2, MarkClosedKeeps DEF BadFrame
  <2>3. CASE LinkCloses
    BY <1>1, <2>3, MarkClosedKeeps, StreamsUnchanged DEF LinkCloses
  <2>4. ASSUME NEW r \in Read, ReadFrame(r) \/ ReadGivesUp(r) PROVE StreamsInv'
    BY <2>4, ReadFrameKeeps, ReadGivesUpKeeps
  <2> QED
    BY <1>5, <2>1, <2>2, <2>3, <2>4 DEF FrameStep
<1> QED
  BY <1>2, <1>3, <1>4, <1>5, StepParts

(* Every step keeps what is known of the session.                          *)
LEMMA StepLink ==
  ASSUME LinkInv, [RnNext]_rnVars
  PROVE  LinkInv'
<1>1. CASE EndpointStep \/ UNCHANGED rnVars
  BY <1>1, EndpointAlone DEF rnVars, linkVars, LinkInv, LinkType, OnlyOpenCloses, DialInv
<1> QED
  BY <1>1, SessionStepLink, OtherStepLink, StepParts

(* Every step keeps what is known of start(), stop() and the forwarders.   *)
LEMMA StepEndpoint ==
  ASSUME EndpointInv, [RnNext]_rnVars
  PROVE  EndpointInv'
<1>1. CASE EndpointStep
  BY <1>1, EndpointStepType, StepForwardersKnown, StepCalls DEF EndpointInv
<1>2. CASE UNCHANGED <<endpointVars, late>>
  BY <1>2 DEF endpointVars, EndpointInv, EndpointType, ForwardersKnown, CallsInv, OneCall,
              CallInState, InFlight
<1> QED
  BY <1>1, <1>2, SessionAlone, StepParts DEF rnVars

(* The endpoint as it is constructed.                                      *)
LEMMA InitRn == RnInit => RnInv
<1> SUFFICES ASSUME RnInit PROVE RnInv
  OBVIOUS
<1>1. EndpointInv
  BY DEF RnInit, EndpointInv, EndpointType, ForwardersKnown, CallsInv, OneCall, CallInState, InFlight
<1>2. LinkInv
  BY DEF RnInit, LinkInv, LinkType, OnlyOpenCloses, DialInv
<1>3. StreamType
  BY TransportAssumption DEF RnInit, StreamType
<1>4. StreamInv
  BY DEF RnInit, StreamInv, ReadsInOrder, WaitersQueued, NothingBeforehand, FramesAccounted, Read, Frame
<1> QED
  BY <1>1, <1>2, <1>3, <1>4 DEF RnInv, StreamsInv

(* The inductive invariant of the transport.                               *)
THEOREM RnInvariance == RnSpec => []RnInv
<1>1. RnInv /\ [RnNext]_rnVars => RnInv'
  BY StepEndpoint, StepLink, StepStreams DEF RnInv
<1> QED
  BY <1>1, InitRn, PTL DEF RnSpec

(* The type invariant of the transport.                                    *)
THEOREM TransportTypeCorrect == RnSpec => []RnTypeOK
<1>1. RnInv => RnTypeOK
  BY TypeParts DEF RnInv, EndpointInv, LinkInv, StreamsInv
<1> QED
  BY <1>1, RnInvariance, PTL

(* NativeFramedStream neither swaps nor repeats nor forgets a frame        *)
(* (transport-adapter.ts, onMessage and read): each is queued or went to   *)
(* one read, in the order of the calls, for any number of reads that time  *)
(* out and of frames that race them.                                       *)
THEOREM FramesAreAccounted == RnSpec => []FramesAccounted
<1>1. RnInv => FramesAccounted
  BY DEF RnInv, StreamsInv, StreamInv
<1> QED
  BY <1>1, RnInvariance, PTL

(* Every forwarder that runs, and was not asked for before the end of a    *)
(* stop(), is one the next stop() will reach, for any number of starts,    *)
(* stops and forwarders in any interleaving, failures included.            *)
THEOREM ForwardersAreReached == RnSpec => []StopReachesForwarders
<1>1. RnInv => StopReachesForwarders
  BY DEF RnInv, EndpointInv, ForwardersKnown, StopReachesForwarders
<1> QED
  BY <1>1, RnInvariance, PTL

(* While no start() has overlapped a stop() or another start(), the state  *)
(* says whether the native endpoint runs once every call is over, timers   *)
(* and native calls that settle late included.                             *)
THEOREM StateIsThatOfTheBridge == RnSpec => []StateTellsBridge
<1>1. RnInv => StateTellsBridge
  BY DEF RnInv, EndpointInv, CallsInv, CallInState, StateTellsBridge
<1> QED
  BY <1>1, RnInvariance, PTL

(* connect() dials one target, which does not depend on the order in which *)
(* the candidates are known: the one ticket they have, or every socket of  *)
(* theirs with the relay of each, the first of a JSON ticket               *)
(* (normalizeCandidates), for lists of any length with any addresses.      *)
(* That it keeps every relay of a JSON ticket is not said: the code dials  *)
(* the first ticket and the first relay of each candidate alone.           *)
THEOREM OneTargetWhateverTheOrder == RnSpec => []OneTargetForAll
<1>1. RnInv => OneTargetForAll
  BY TargetOfAccepted, ListsAssumption DEF RnInv, LinkInv, DialInv, OneTargetForAll
<1> QED
  BY <1>1, RnInvariance, PTL

-----------------------------------------------------------------------------
(* The hello of a stream: what an end may conclude when its negotiation    *)
(* has returned, for any protocols, any cutting of the hello and any       *)
(* amount of application data.                                             *)

LEMMA OtherEnd ==
  ASSUME NEW e \in End, HelloAssumption
  PROVE  Other(e) \in End /\ Other(e) # e /\ Other(Other(e)) = e
BY DEF End, Other, HelloAssumption

LEMMA TheOtherEnd ==
  ASSUME NEW e \in End, NEW x \in End, x # e
  PROVE  x = Other(e)
BY DEF End, Other

-----------------------------------------------------------------------------
(* The inductive invariant of the hello.                                   *)

\* The pieces of a hello are where they were sent: nowhere before the other
\* end has begun, afterwards on the way or in the decoder.
HelloAccounted(e) ==
  got[e] + helloIn[e] = IF pc[Other(e)] = "new" THEN 0 ELSE HelloParts

\* Data is lost by an end that has failed, and by no other.
DataAccounted(e) ==
  /\ exposed[e] + dataIn[e] <= sent[Other(e)]
  /\ pc[e] # "failed" => exposed[e] + dataIn[e] = sent[Other(e)]
  /\ pc[e] # "open" => exposed[e] = 0

\* An end that went past reading has the hello of its own protocol.
Agreed(e) ==
  pc[e] \in {"flushing", "open"} => got[e] = HelloParts /\ alpn[e] = alpn[Other(e)]

HelloInv ==
  /\ TypeOK
  /\ \A e \in End : HelloAccounted(e) /\ DataAccounted(e) /\ Agreed(e)

LEMMA InitHello == Init => HelloInv
<1> SUFFICES ASSUME Init PROVE HelloInv
  OBVIOUS
<1> USE HelloAssumption DEF Init, HelloAssumption
<1>1. TypeOK
  <2>1. 0 \in 0 .. HelloParts /\ 0 \in 0 .. MaxData
    OBVIOUS
  <2> QED BY <2>1 DEF TypeOK
<1>2. ASSUME NEW e \in End PROVE HelloAccounted(e) /\ DataAccounted(e) /\ Agreed(e)
  BY OtherEnd DEF HelloAccounted, DataAccounted, Agreed
<1> QED
  BY <1>1, <1>2 DEF HelloInv

-----------------------------------------------------------------------------
(* One lemma per step that moves pieces or data.  In each, x is the end    *)
(* whose part of the invariant is shown: the one that steps or the other.  *)

LEMMA BeginKeeps ==
  ASSUME HelloInv, HelloAssumption, NEW e \in End, Begin(e)
  PROVE  HelloInv'
<1> USE HelloAssumption DEF HelloAssumption
<1>o. Other(e) \in End /\ Other(e) # e /\ Other(Other(e)) = e
  BY OtherEnd
<1>1. helloIn[Other(e)] = 0 /\ got[Other(e)] = 0
  BY <1>o DEF HelloInv, TypeOK, HelloAccounted, Begin
<1>2. TypeOK'
  BY <1>o DEF HelloInv, TypeOK, Begin
<1>3. ASSUME NEW x \in End
      PROVE  HelloAccounted(x)' /\ DataAccounted(x)' /\ Agreed(x)'
  <2>1. CASE x = e
    BY <1>o, <1>1, <2>1 DEF HelloInv, TypeOK, Begin, HelloAccounted, DataAccounted, Agreed
  <2>2. CASE x = Other(e)
    BY <1>o, <1>1, <2>2 DEF HelloInv, TypeOK, Begin, HelloAccounted, DataAccounted, Agreed
  <2> QED BY <2>1, <2>2, TheOtherEnd
<1> QED
  BY <1>2, <1>3 DEF HelloInv

LEMMA ReadHelloKeeps ==
  ASSUME HelloInv, HelloAssumption, NEW e \in End, ReadHello(e)
  PROVE  HelloInv'
<1> USE HelloAssumption DEF HelloAssumption
<1>o. Other(e) \in End /\ Other(e) # e /\ Other(Other(e)) = e
  BY OtherEnd
<1> PICK pieces \in 1 .. helloIn[e], data \in 0 .. dataIn[e] :
       /\ data > 0 => pieces = helloIn[e]
       /\ helloIn' = [helloIn EXCEPT ![e] = @ - pieces]
       /\ dataIn' = [dataIn EXCEPT ![e] = @ - data]
       /\ got' = [got EXCEPT ![e] = @ + pieces]
       /\ pc' = [pc EXCEPT ![e] =
            IF got[e] + pieces < HelloParts THEN "reading"
            ELSE IF ~Refused(data) /\ Matches(e) THEN "flushing" ELSE "failed"]
       /\ early' = IF Refused(data) THEN early \cup {e} ELSE early
  BY DEF ReadHello
<1>t. /\ helloIn[e] \in Nat /\ got[e] \in Nat /\ dataIn[e] \in Nat
      /\ exposed[e] \in Nat /\ sent[Other(e)] \in Nat
      /\ pc[e] = "reading"
  BY <1>o DEF HelloInv, TypeOK, ReadHello
<1>1. got[e] + helloIn[e] = HelloParts /\ pc[Other(e)] # "new"
  BY <1>o, <1>t DEF HelloInv, HelloAccounted
<1>2. TypeOK'
  <2>1. helloIn[e] - pieces \in 0 .. HelloParts /\ got[e] + pieces \in 0 .. HelloParts
    BY <1>1, <1>t
  <2>2. dataIn[e] - data \in 0 .. MaxData
    BY <1>t DEF HelloInv, TypeOK
  <2> QED
    BY <2>1, <2>2 DEF HelloInv, TypeOK, ReadHello
<1>3. data > 0 => pc'[e] = "failed"
  BY <1>1, <1>t DEF HelloInv, TypeOK, Refused
<1>4. ASSUME NEW x \in End
      PROVE  HelloAccounted(x)' /\ DataAccounted(x)' /\ Agreed(x)'
  <2>1. CASE x = e
    <3>1. /\ got'[e] = got[e] + pieces /\ helloIn'[e] = helloIn[e] - pieces
          /\ dataIn'[e] = dataIn[e] - data
          /\ pc'[Other(e)] = pc[Other(e)]
          /\ exposed' = exposed /\ sent' = sent /\ alpn' = alpn
      BY <1>o DEF HelloInv, TypeOK, ReadHello
    <3>2. HelloAccounted(e)'
      BY <3>1, <1>1, <1>t DEF HelloAccounted
    <3>3. exposed[e] = 0 /\ dataIn[e] = sent[Other(e)]
      BY <1>t DEF HelloInv, DataAccounted
    <3>4. pc'[e] # "open"
      BY <1>t DEF HelloInv, TypeOK
    <3>5. DataAccounted(e)'
      BY <3>1, <3>3, <3>4, <1>3, <1>t DEF DataAccounted
    <3>6. Agreed(e)'
      BY <3>1, <3>4, <1>1, <1>t DEF Agreed, Matches, HelloInv, TypeOK
    <3> QED BY <2>1, <3>2, <3>5, <3>6
  <2>2. CASE x = Other(e)
    BY <1>o, <1>t, <2>2 DEF HelloInv, TypeOK, ReadHello, HelloAccounted, DataAccounted, Agreed
  <2> QED BY <2>1, <2>2, TheOtherEnd
<1> QED
  BY <1>2, <1>4 DEF HelloInv

LEMMA SendDataKeeps ==
  ASSUME HelloInv, HelloAssumption, NEW e \in End, SendData(e)
  PROVE  HelloInv'
<1> USE HelloAssumption DEF HelloAssumption
<1>o. Other(e) \in End /\ Other(e) # e /\ Other(Other(e)) = e
  BY OtherEnd
<1>1. exposed[Other(e)] + dataIn[Other(e)] <= sent[e]
  BY <1>o DEF HelloInv, DataAccounted
<1>2. TypeOK'
  <2>1. dataIn[Other(e)] + 1 \in 0 .. MaxData /\ sent[e] + 1 \in 0 .. MaxData
    BY <1>o, <1>1 DEF HelloInv, TypeOK, SendData
  <2> QED
    BY <2>1, <1>o DEF HelloInv, TypeOK, SendData
<1>3. ASSUME NEW x \in End
      PROVE  HelloAccounted(x)' /\ DataAccounted(x)' /\ Agreed(x)'
  <2>1. CASE x = e
    BY <1>o, <2>1 DEF HelloInv, TypeOK, SendData, HelloAccounted, DataAccounted, Agreed
  <2>2. CASE x = Other(e)
    BY <1>o, <2>2 DEF HelloInv, TypeOK, SendData, HelloAccounted, DataAccounted, Agreed
  <2> QED BY <2>1, <2>2, TheOtherEnd
<1> QED
  BY <1>2, <1>3 DEF HelloInv

LEMMA ReadDataKeeps ==
  ASSUME HelloInv, HelloAssumption, NEW e \in End, ReadData(e)
  PROVE  HelloInv'
<1> USE HelloAssumption DEF HelloAssumption
<1>o. Other(e) \in End /\ Other(e) # e /\ Other(Other(e)) = e
  BY OtherEnd
<1> PICK data \in 1 .. dataIn[e] :
       /\ dataIn' = [dataIn EXCEPT ![e] = @ - data]
       /\ exposed' = [exposed EXCEPT ![e] = @ + data]
  BY DEF ReadData
<1>1. exposed[e] + dataIn[e] <= sent[Other(e)]
  BY DEF HelloInv, DataAccounted
<1>2. TypeOK'
  <2>1. exposed[e] + data \in 0 .. MaxData /\ dataIn[e] - data \in 0 .. MaxData
    BY <1>o, <1>1 DEF HelloInv, TypeOK
  <2> QED
    BY <2>1 DEF HelloInv, TypeOK, ReadData
<1>3. ASSUME NEW x \in End
      PROVE  HelloAccounted(x)' /\ DataAccounted(x)' /\ Agreed(x)'
  <2>1. CASE x = e
    BY <1>o, <2>1 DEF HelloInv, TypeOK, ReadData, HelloAccounted, DataAccounted, Agreed
  <2>2. CASE x = Other(e)
    BY <1>o, <2>2 DEF HelloInv, TypeOK, ReadData, HelloAccounted, DataAccounted, Agreed
  <2> QED BY <2>1, <2>2, TheOtherEnd
<1> QED
  BY <1>2, <1>3 DEF HelloInv

(* The steps that leave pieces and data alone.                             *)
LEMMA ControlKeeps ==
  ASSUME HelloInv, HelloAssumption, NEW e \in End,
         WriteDone(e) \/ Flushed(e) \/ Timeout(e) \/ PeerGone(e)
  PROVE  HelloInv'
<1> USE HelloAssumption DEF HelloAssumption
<1>o. Other(e) \in End /\ Other(e) # e /\ Other(Other(e)) = e
  BY OtherEnd
<1>1. TypeOK'
  BY DEF HelloInv, TypeOK, WriteDone, Flushed, Timeout, PeerGone
<1>2. ASSUME NEW x \in End
      PROVE  HelloAccounted(x)' /\ DataAccounted(x)' /\ Agreed(x)'
  <2> USE DEF HelloInv, TypeOK, HelloAccounted, DataAccounted, Agreed
  <2>1. CASE x = e
    BY <1>o, <2>1 DEF WriteDone, Flushed, Timeout, PeerGone
  <2>2. CASE x = Other(e)
    BY <1>o, <2>2 DEF WriteDone, Flushed, Timeout, PeerGone
  <2> QED BY <2>1, <2>2, TheOtherEnd
<1> QED
  BY <1>1, <1>2 DEF HelloInv

LEMMA HelloInvariance == Spec => []HelloInv
<1>1. HelloInv /\ [Next]_vars => HelloInv'
  <2> SUFFICES ASSUME HelloInv, [Next]_vars PROVE HelloInv'
    OBVIOUS
  <2>1. ASSUME NEW e \in End, Step(e) PROVE HelloInv'
    BY <2>1, HelloAssumption, BeginKeeps, ReadHelloKeeps, SendDataKeeps, ReadDataKeeps,
       ControlKeeps DEF Step
  <2>2. CASE UNCHANGED vars
    BY <2>2 DEF vars, HelloInv, TypeOK, HelloAccounted, DataAccounted, Agreed
  <2> QED BY <2>1, <2>2 DEF Next
<1> QED
  BY <1>1, InitHello, PTL DEF Spec

-----------------------------------------------------------------------------
(* The theorems.                                                           *)

(* The type invariant of the negotiation.                                  *)
THEOREM HelloTypeCorrect == Spec => []TypeOK
<1>1. HelloInv => TypeOK
  BY DEF HelloInv
<1> QED BY <1>1, HelloInvariance, PTL

(* No end exposes application bytes before it has read the whole hello of  *)
(* an end with its own protocol, however the hello is cut                  *)
(* (stream-hello.ts:97-110).                                               *)
THEOREM ApplicationBytesNeedAgreement == Spec => []OpenOnlyOnAgreement
<1>1. HelloInv => OpenOnlyOnAgreement
  BY DEF HelloInv, OpenOnlyOnAgreement, Agreed, DataAccounted, TypeOK
<1> QED BY <1>1, HelloInvariance, PTL

(* A negotiation that succeeds has taken none of the application's bytes   *)
(* off the stream, since it fails on a chunk that holds some               *)
(* (stream-hello.ts:100-104).                                              *)
THEOREM NegotiationTakesNoData == Spec => []NothingSwallowed
<1>1. HelloInv => NothingSwallowed
  BY DEF HelloInv, NothingSwallowed, DataAccounted
<1> QED BY <1>1, HelloInvariance, PTL

-----------------------------------------------------------------------------
(* The numbers in a header.                                                *)
(* The powers of the radix are what their recursion says, and not zero.    *)
LEMMA Powers ==
  /\ Power[0] = 1
  /\ \A k \in Nat : Power[k] \in Nat \ {0} /\ Power[k + 1] = Radix * Power[k]
<1> DEFINE X == Nat \ {0}
           step == [n \in Nat |-> [x \in X |-> Radix * x]]
           E(f) == f = [k \in Nat |-> IF k = 0 THEN 1 ELSE Radix * f[k - 1]]
<1>1. 1 \in X /\ step \in [Nat -> [X -> X]]
  BY FormatAssumption
<1>2. \E f : E(f)
  <2>1. PICK f : Iterates(f, X, 1, step)
    <3> HIDE DEF X, step
    <3> QED
      BY <1>1, Iteration
  <2>2. ASSUME NEW k \in Nat PROVE f[k] = IF k = 0 THEN 1 ELSE Radix * f[k - 1]
    <3>1. CASE k = 0
      BY <2>1, <3>1 DEF Iterates
    <3>2. CASE k # 0
      <4>1. k - 1 \in Nat /\ (k - 1) + 1 = k
        BY <3>2
      <4>2. f[k] = step[k - 1][f[k - 1]] /\ f[k - 1] \in X
        BY <2>1, <4>1 DEF Iterates
      <4> QED
        BY <3>2, <4>1, <4>2
    <3> QED
      BY <3>1, <3>2
  <2>3. f = [k \in Nat |-> f[k]]
    BY <2>1 DEF Iterates
  <2> QED
    BY <2>2, <2>3
<1>3. E(Power)
  <2>1. Power = CHOOSE f : E(f)
    BY DEF Power
  <2> HIDE DEF E
  <2> QED
    BY <1>2, <2>1
<1>4. Power[0] = 1 /\ \A k \in Nat : Power[k + 1] = Radix * Power[k]
  <2>1. \A k \in Nat : Power[k] = IF k = 0 THEN 1 ELSE Radix * Power[k - 1]
    BY <1>3
  <2>2. ASSUME NEW k \in Nat PROVE Power[k + 1] = Radix * Power[k]
    <3>1. k + 1 \in Nat /\ k + 1 # 0 /\ (k + 1) - 1 = k
      OBVIOUS
    <3> QED
      BY <2>1, <3>1
  <2> QED
    BY <2>1, <2>2
<1> DEFINE T == {k \in Nat : Power[k] \in Nat \ {0}}
<1>5. Nat \subseteq T
  <2>1. 0 \in T /\ \A k \in Nat : k \in T => k + 1 \in T
    BY <1>4, FormatAssumption
  <2> HIDE DEF T
  <2> QED
    BY <2>1, Induction
<1> QED
  BY <1>4, <1>5

(* What getUint32 computes, as a sequence of values.                       *)
Values(bytes, value) ==
  value = [i \in 0 .. Len(bytes) |-> IF i = 0 THEN 0 ELSE value[i - 1] * Radix + bytes[i]]

(* The recursion in BigEndian defines something.                           *)
LEMMA BigEndianIsLast ==
  ASSUME NEW bytes \in Seq(Byte)
  PROVE  \E value : Values(bytes, value) /\ BigEndian(bytes) = value[Len(bytes)]
<1> DEFINE step == [n \in 1 .. Len(bytes) |-> [x \in Nat |-> x * Radix + bytes[n]]]
           E(v) == Values(bytes, v)
<1>1. Len(bytes) \in Nat /\ \A i \in 1 .. Len(bytes) : bytes[i] \in Nat
  <2>1. Byte \subseteq Nat
    BY FormatAssumption DEF Byte
  <2>2. Len(bytes) \in Nat /\ \A i \in 1 .. Len(bytes) : bytes[i] \in Byte
    OBVIOUS
  <2> QED
    BY <2>1, <2>2
<1>2. step \in [1 .. Len(bytes) -> [Nat -> Nat]]
  BY <1>1, FormatAssumption
<1>3. \E v : E(v)
  <2>1. PICK v : IteratesTo(v, Len(bytes), Nat, 0, step)
    <3> HIDE DEF step
    <3> QED
      BY <1>1, <1>2, IterationUpTo
  <2>2. ASSUME NEW i \in 0 .. Len(bytes) PROVE v[i] = IF i = 0 THEN 0 ELSE v[i - 1] * Radix + bytes[i]
    <3>1. CASE i = 0
      BY <2>1, <3>1 DEF IteratesTo
    <3>2. CASE i # 0
      <4>1. i \in 1 .. Len(bytes) /\ i - 1 \in 0 .. Len(bytes)
        BY <1>1, <3>2
      <4>2. v[i] = step[i][v[i - 1]] /\ v[i - 1] \in Nat
        BY <2>1, <4>1 DEF IteratesTo
      <4> QED
        BY <3>2, <4>1, <4>2
    <3> QED
      BY <3>1, <3>2
  <2>3. v = [i \in 0 .. Len(bytes) |-> v[i]]
    BY <2>1 DEF IteratesTo
  <2>4. E(v)
    BY <2>2, <2>3 DEF Values
  <2> QED
    BY <2>4
<1>4. BigEndian(bytes) = (CHOOSE v : E(v))[Len(bytes)]
  BY DEF BigEndian, Values
<1>5. E(CHOOSE v : E(v))
  <2> HIDE DEF E
  <2> QED
    BY <1>3
<1> HIDE DEF E
<1> QED
  BY <1>4, <1>5 DEF E

LEMMA BigEndianType ==
  ASSUME NEW bytes \in Seq(Byte)
  PROVE  BigEndian(bytes) \in Nat
<1>1. PICK value : Values(bytes, value) /\ BigEndian(bytes) = value[Len(bytes)]
  BY BigEndianIsLast
<1>2. Len(bytes) \in Nat /\ Radix \in Nat
  BY FormatAssumption
<1>3. \A i \in 1 .. Len(bytes) : bytes[i] \in Nat
  <2>1. Byte \subseteq Nat
    BY FormatAssumption DEF Byte
  <2>2. \A i \in 1 .. Len(bytes) : bytes[i] \in Byte
    OBVIOUS
  <2> QED
    BY <2>1, <2>2
<1> DEFINE T == {i \in 0 .. Len(bytes) : value[i] \in Nat}
<1>4. 0 \in T
  BY <1>1, <1>2 DEF Values
<1>5. ASSUME NEW i \in 1 .. Len(bytes), i - 1 \in T PROVE i \in T
  <2>1. value[i] = value[i - 1] * Radix + bytes[i] /\ i \in 0 .. Len(bytes)
    <3>1. i \in 0 .. Len(bytes) /\ i # 0
      BY <1>2
    <3> QED
      BY <1>1, <3>1 DEF Values
  <2>2. PICK x \in Nat, y \in Nat : x = value[i - 1] /\ y = bytes[i]
    BY <1>3, <1>5
  <2>3. x * Radix + y \in Nat
    BY <1>2
  <2> QED
    BY <2>1, <2>2, <2>3
<1>6. Len(bytes) \in T
  <2>1. Len(bytes) \in 0 .. Len(bytes)
    BY <1>2
  <2> HIDE DEF T
  <2> QED
    BY <1>2, <1>4, <1>5, <2>1, InductionUpTo
<1> QED
  BY <1>1, <1>6

LEMMA HeaderType ==
  ASSUME NEW n \in Nat
  PROVE  Header(n) \in Seq(Byte) /\ Len(Header(n)) = HeaderBytes
<1>1. ASSUME NEW i \in 1 .. HeaderBytes PROVE (n \div Power[HeaderBytes - i]) % Radix \in Byte
  <2>1. HeaderBytes - i \in Nat
    BY FormatAssumption
  <2>2. Power[HeaderBytes - i] \in Nat \ {0}
    BY <2>1, Powers
  <2>3. PICK p \in Nat \ {0} : p = Power[HeaderBytes - i]
    BY <2>2
  <2>4. n \div p \in Nat
    OBVIOUS
  <2> QED
    BY <2>3, <2>4, FormatAssumption DEF Byte
<1>2. HeaderBytes \in Nat
  BY FormatAssumption
<1> QED
  BY <1>1, <1>2 DEF Header

LEMMA QuotientAndRest ==
  ASSUME NEW n \in Nat, NEW b \in Nat \ {0}
  PROVE  n = (n \div b) * b + (n % b)
OBVIOUS

(* A header tells the length it was made of.                               *)
LEMMA HeaderIsRead ==
  ASSUME NEW n \in 0 .. MaxLength
  PROVE  BigEndian(Header(n)) = n
<1>1. PICK value : Values(Header(n), value) /\ BigEndian(Header(n)) = value[HeaderBytes]
  <2>1. n \in Nat
    BY FormatAssumption, Powers DEF MaxLength
  <2> QED
    BY <2>1, HeaderType, BigEndianIsLast
<1>2. n \in Nat /\ HeaderBytes \in Nat \ {0} /\ Radix \in Nat \ {0, 1} /\ n < Power[HeaderBytes]
  <2>1. Power[HeaderBytes] \in Nat /\ HeaderBytes \in Nat \ {0} /\ Radix \in Nat \ {0, 1}
    BY FormatAssumption, Powers
  <2> QED
    BY <2>1 DEF MaxLength
<1>3. /\ value[0] = 0
      /\ \A i \in 1 .. HeaderBytes : value[i] = value[i - 1] * Radix + Header(n)[i]
  <2>1. Len(Header(n)) = HeaderBytes
    BY <1>2, HeaderType
  <2>2. \A i \in 0 .. HeaderBytes :
          value[i] = IF i = 0 THEN 0 ELSE value[i - 1] * Radix + Header(n)[i]
    BY <1>1, <2>1 DEF Values
  <2>3. 0 \in 0 .. HeaderBytes /\ \A i \in 1 .. HeaderBytes : i \in 0 .. HeaderBytes /\ i # 0
    BY <1>2
  <2> QED
    BY <2>2, <2>3
<1> DEFINE T == {i \in 0 .. HeaderBytes : value[i] = n \div Power[HeaderBytes - i]}
<1>4. 0 \in T
  <2>1. n \div Power[HeaderBytes] = 0
    <3>1. PICK p \in Nat \ {0} : p = Power[HeaderBytes]
      BY <1>2, Powers
    <3>2. n \in 0 .. p - 1 /\ n = 0 * p + n
      BY <1>2, <3>1
    <3>3. n \div p = 0
      BY <1>2, <3>2, DivisionIs
    <3> QED
      BY <3>1, <3>3
  <2>2. HeaderBytes - 0 = HeaderBytes /\ 0 \in 0 .. HeaderBytes
    BY <1>2
  <2> QED
    BY <1>3, <2>1, <2>2
<1>5. ASSUME NEW i \in 1 .. HeaderBytes, i - 1 \in T PROVE i \in T
  <2>1. PICK k \in Nat : k = HeaderBytes - i /\ k + 1 = HeaderBytes - (i - 1) /\ i \in 0 .. HeaderBytes
    BY <1>2
  <2>2. PICK p \in Nat \ {0} : p = Power[k] /\ Power[k + 1] = Radix * p
    BY <2>1, Powers
  <2>3. PICK x \in Nat : x = n \div p
    BY <1>2
  <2>4. value[i - 1] = x \div Radix
    <3>1. value[i - 1] = n \div Power[HeaderBytes - (i - 1)]
      BY <1>5
    <3>2. value[i - 1] = n \div (Radix * p)
      BY <2>1, <2>2, <3>1
    <3> QED
      BY <1>2, <2>2, <2>3, <3>2, DivideTwice
  <2>5. Header(n)[i] = x % Radix
    BY <2>1, <2>2, <2>3 DEF Header
  <2>6. PICK d, m : d = x \div Radix /\ m = x % Radix
    OBVIOUS
  <2>7. value[i] = d * Radix + m
    BY <1>3, <2>4, <2>5, <2>6
  <2>8. d * Radix + m = x
    <3>1. Radix \in Nat \ {0}
      BY <1>2
    <3>2. x = (x \div Radix) * Radix + (x % Radix)
      BY <3>1, QuotientAndRest
    <3> QED
      BY <2>6, <3>2
  <2> QED
    BY <2>1, <2>2, <2>3, <2>7, <2>8
<1>6. HeaderBytes \in T
  <2>1. 0 .. HeaderBytes \subseteq T
    <3> HIDE DEF T
    <3> QED
      BY <1>2, <1>4, <1>5, InductionUpTo
  <2> HIDE DEF T
  <2> QED
    BY <1>2, <2>1
<1>7. n \div Power[0] = n
  BY <1>2, Powers
<1> QED
  BY <1>1, <1>2, <1>6, <1>7

-----------------------------------------------------------------------------
(* Where the frames of a list are among its bytes.                         *)

(* A frame is its header and its payload.                                  *)
LEMMA FrameBytes ==
  ASSUME NEW p \in Seq(Byte)
  PROVE  /\ EncodeFrame(p) \in Seq(Byte) /\ Len(EncodeFrame(p)) = HeaderBytes + Len(p)
         /\ \A i \in 1 .. HeaderBytes : EncodeFrame(p)[i] = Header(Len(p))[i]
         /\ \A i \in 1 .. Len(p) : EncodeFrame(p)[HeaderBytes + i] = p[i]
<1>1. PICK h \in Seq(Byte) : h = Header(Len(p)) /\ Len(h) = HeaderBytes
  <2>1. Len(p) \in Nat
    OBVIOUS
  <2> QED
    BY <2>1, HeaderType
<1>2. HeaderBytes \in Nat /\ Len(p) \in Nat /\ EncodeFrame(p) = h \o p
  BY <1>1, FormatAssumption DEF EncodeFrame
<1>3. PICK f : f = h \o p
  OBVIOUS
<1>4. f \in Seq(Byte) /\ Len(f) = HeaderBytes + Len(p)
  BY <1>1, <1>2, <1>3
<1>5. ASSUME NEW i \in 1 .. HeaderBytes PROVE f[i] = h[i]
  BY <1>1, <1>2, <1>3
<1>6. ASSUME NEW i \in 1 .. Len(p) PROVE f[HeaderBytes + i] = p[i]
  BY <1>1, <1>2, <1>3
<1> QED
  BY <1>1, <1>2, <1>3, <1>4, <1>5, <1>6

(* The encodings of the first members of a list.                           *)
Firsts(ws, first) ==
  first = [n \in 0 .. Len(ws) |-> IF n = 0 THEN <<>> ELSE first[n - 1] \o EncodeFrame(ws[n])]

(* Each of them is a sequence of bytes, one frame longer than the one      *)
(* before.                                                                 *)
LEMMA FirstsType ==
  ASSUME NEW ws \in Seq(Seq(Byte)), NEW first, Firsts(ws, first)
  PROVE  /\ \A n \in 0 .. Len(ws) : first[n] \in Seq(Byte)
         /\ first[0] = <<>>
         /\ \A n \in 1 .. Len(ws) : first[n] = first[n - 1] \o EncodeFrame(ws[n])
<1>1. Len(ws) \in Nat /\ \A n \in 1 .. Len(ws) : ws[n] \in Seq(Byte)
  OBVIOUS
<1>2. first[0] = <<>>
  BY <1>1 DEF Firsts
<1>3. ASSUME NEW n \in 1 .. Len(ws) PROVE first[n] = first[n - 1] \o EncodeFrame(ws[n])
  <2>1. n \in 0 .. Len(ws) /\ n # 0
    BY <1>1
  <2> QED
    BY <2>1 DEF Firsts
<1> DEFINE T == {n \in 0 .. Len(ws) : first[n] \in Seq(Byte)}
<1>4. 0 \in T
  <2>1. 0 \in 0 .. Len(ws) /\ <<>> \in Seq(Byte)
    BY <1>1
  <2> QED
    BY <1>2, <2>1
<1>5. ASSUME NEW n \in 1 .. Len(ws), n - 1 \in T PROVE n \in T
  <2>1. EncodeFrame(ws[n]) \in Seq(Byte) /\ first[n - 1] \in Seq(Byte)
    BY <1>1, <1>5, FrameBytes
  <2>2. PICK x \in Seq(Byte), y \in Seq(Byte) : x = first[n - 1] /\ y = EncodeFrame(ws[n])
    BY <2>1
  <2>3. first[n] = x \o y
    BY <1>3, <2>2
  <2>4. first[n] \in Seq(Byte)
    BY <2>3
  <2>5. n \in 0 .. Len(ws)
    BY <1>1
  <2> QED
    BY <2>4, <2>5
<1>6. 0 .. Len(ws) \subseteq T
  <2> HIDE DEF T
  <2> QED
    BY <1>1, <1>4, <1>5, InductionUpTo
<1> QED
  BY <1>2, <1>3, <1>6

(* The recursion in EncodeAll defines something.                           *)
LEMMA EncodeAllIsLast ==
  ASSUME NEW ws \in Seq(Seq(Byte))
  PROVE  \E first : Firsts(ws, first) /\ EncodeAll(ws) = first[Len(ws)]
<1> DEFINE step == [n \in 1 .. Len(ws) |-> [x \in Seq(Byte) |-> x \o EncodeFrame(ws[n])]]
           E(f) == Firsts(ws, f)
<1>1. Len(ws) \in Nat /\ \A n \in 1 .. Len(ws) : ws[n] \in Seq(Byte)
  OBVIOUS
<1>2. step \in [1 .. Len(ws) -> [Seq(Byte) -> Seq(Byte)]]
  <2>1. ASSUME NEW n \in 1 .. Len(ws), NEW x \in Seq(Byte) PROVE x \o EncodeFrame(ws[n]) \in Seq(Byte)
    <3>1. EncodeFrame(ws[n]) \in Seq(Byte)
      BY <1>1, FrameBytes
    <3> QED
      BY <3>1
  <2> QED
    BY <2>1
<1>3. \E f : E(f)
  <2>1. PICK f : IteratesTo(f, Len(ws), Seq(Byte), <<>>, step)
    <3>1. <<>> \in Seq(Byte)
      OBVIOUS
    <3> HIDE DEF step
    <3> QED
      BY <1>1, <1>2, <3>1, IterationUpTo
  <2>2. ASSUME NEW n \in 0 .. Len(ws) PROVE f[n] = IF n = 0 THEN <<>> ELSE f[n - 1] \o EncodeFrame(ws[n])
    <3>1. CASE n = 0
      BY <2>1, <3>1 DEF IteratesTo
    <3>2. CASE n # 0
      <4>1. n \in 1 .. Len(ws) /\ n - 1 \in 0 .. Len(ws)
        BY <1>1, <3>2
      <4>2. f[n] = step[n][f[n - 1]] /\ f[n - 1] \in Seq(Byte)
        BY <2>1, <4>1 DEF IteratesTo
      <4> QED
        BY <3>2, <4>1, <4>2
    <3> QED
      BY <3>1, <3>2
  <2>3. f = [n \in 0 .. Len(ws) |-> f[n]]
    BY <2>1 DEF IteratesTo
  <2>4. E(f)
    BY <2>2, <2>3 DEF Firsts
  <2> QED
    BY <2>4
<1>4. EncodeAll(ws) = (CHOOSE f : E(f))[Len(ws)]
  BY DEF EncodeAll, Firsts
<1>5. E(CHOOSE f : E(f))
  <2> HIDE DEF E
  <2> QED
    BY <1>3
<1> HIDE DEF E
<1> QED
  BY <1>4, <1>5 DEF E

(* The encoding of the first frames of a list is among the encodings of    *)
(* its first members.                                                      *)
LEMMA FirstsOfFewer ==
  ASSUME NEW ws \in Seq(Seq(Byte)), NEW vs \in Seq(Seq(Byte)), NEW first, Firsts(ws, first),
         Len(vs) <= Len(ws), \A i \in 1 .. Len(vs) : vs[i] = ws[i]
  PROVE  EncodeAll(vs) = first[Len(vs)]
<1>1. PICK f : Firsts(vs, f) /\ EncodeAll(vs) = f[Len(vs)]
  BY EncodeAllIsLast
<1>2. /\ Len(vs) \in Nat /\ Len(ws) \in Nat /\ f[0] = <<>> /\ first[0] = <<>>
      /\ \A n \in 1 .. Len(vs) : f[n] = f[n - 1] \o EncodeFrame(vs[n])
      /\ \A n \in 1 .. Len(vs) : first[n] = first[n - 1] \o EncodeFrame(ws[n])
  <2>1. Len(vs) \in Nat /\ Len(ws) \in Nat /\ \A n \in 1 .. Len(vs) : n \in 1 .. Len(ws)
    OBVIOUS
  <2> QED
    BY <1>1, <2>1, FirstsType
<1> DEFINE T == {n \in 0 .. Len(vs) : f[n] = first[n]}
<1>3. 0 \in T /\ \A n \in 1 .. Len(vs) : n - 1 \in T => n \in T
  <2>1. 0 \in 0 .. Len(vs) /\ \A n \in 1 .. Len(vs) : n \in 0 .. Len(vs)
    BY <1>2
  <2> QED
    BY <1>2, <2>1
<1>4. Len(vs) \in T
  <2>1. Len(vs) \in 0 .. Len(vs)
    BY <1>2
  <2> HIDE DEF T
  <2> QED
    BY <1>2, <1>3, <2>1, InductionUpTo
<1> QED
  BY <1>1, <1>4

(* Frame n of ws is the bytes from at[n - 1] to at[n] of total.            *)
Layout(at, ws, total) ==
  /\ at \in [0 .. Len(ws) -> 0 .. Len(total)] /\ at[0] = 0 /\ at[Len(ws)] = Len(total)
  /\ \A n \in 1 .. Len(ws) :
       /\ at[n] = at[n - 1] + HeaderBytes + Len(ws[n])
       /\ \A i \in 1 .. HeaderBytes : total[at[n - 1] + i] = Header(Len(ws[n]))[i]
       /\ \A i \in 1 .. Len(ws[n]) : total[at[n - 1] + HeaderBytes + i] = ws[n][i]
  /\ \A n \in 0 .. Len(ws) :
       LET bytes == EncodeAll(SubSeq(ws, 1, n))
       IN /\ bytes \in Seq(Byte) /\ Len(bytes) = at[n]
          /\ \A i \in 1 .. at[n] : bytes[i] = total[i]

(* Every list of payloads has its frames at some places of its bytes.      *)
LEMMA LayoutExists ==
  ASSUME NEW ws \in Seq(Seq(Byte))
  PROVE  EncodeAll(ws) \in Seq(Byte) /\ \E at : Layout(at, ws, EncodeAll(ws))
<1>1. PICK first : Firsts(ws, first) /\ EncodeAll(ws) = first[Len(ws)]
  BY EncodeAllIsLast
<1>2. PICK total : total = EncodeAll(ws)
  OBVIOUS
<1>3. /\ Len(ws) \in Nat /\ \A n \in 1 .. Len(ws) : ws[n] \in Seq(Byte)
      /\ HeaderBytes \in Nat
      /\ \A n \in 0 .. Len(ws) : first[n] \in Seq(Byte) /\ Len(first[n]) \in Nat
      /\ first[0] = <<>> /\ total = first[Len(ws)] /\ total \in Seq(Byte)
  <2>1. Len(ws) \in Nat /\ \A n \in 1 .. Len(ws) : ws[n] \in Seq(Byte)
    OBVIOUS
  <2>2. \A n \in 0 .. Len(ws) : first[n] \in Seq(Byte)
    BY <1>1, FirstsType
  <2>3. first[0] = <<>>
    BY <1>1, FirstsType
  <2>4. Len(ws) \in 0 .. Len(ws)
    BY <2>1
  <2> QED
    BY <1>1, <1>2, <2>1, <2>2, <2>3, <2>4, FormatAssumption
<1> DEFINE Grows(n, m) == /\ Len(first[n]) <= Len(first[m])
                           /\ \A i \in 1 .. Len(first[n]) : first[m][i] = first[n][i]
<1>4. ASSUME NEW n \in 1 .. Len(ws)
      PROVE  /\ Grows(n - 1, n)
             /\ n - 1 \in 0 .. Len(ws) /\ n \in 0 .. Len(ws)
             /\ Len(first[n]) = Len(first[n - 1]) + HeaderBytes + Len(ws[n])
             /\ \A i \in 1 .. HeaderBytes : first[n][Len(first[n - 1]) + i] = Header(Len(ws[n]))[i]
             /\ \A i \in 1 .. Len(ws[n]) : first[n][Len(first[n - 1]) + HeaderBytes + i] = ws[n][i]
  <2>1. PICK p, f, s : p = ws[n] /\ f = EncodeFrame(p) /\ s = first[n - 1]
    OBVIOUS
  <2>2. /\ p \in Seq(Byte) /\ f \in Seq(Byte) /\ s \in Seq(Byte) /\ first[n] = s \o f
        /\ Len(f) = HeaderBytes + Len(p) /\ Len(s) \in Nat /\ Len(p) \in Nat
        /\ \A i \in 1 .. HeaderBytes : f[i] = Header(Len(p))[i]
        /\ \A i \in 1 .. Len(p) : f[HeaderBytes + i] = p[i]
    <3>1. n - 1 \in 0 .. Len(ws) /\ p \in Seq(Byte) /\ s \in Seq(Byte) /\ Len(s) \in Nat /\ Len(p) \in Nat
      BY <1>3, <2>1
    <3>2. first[n] = s \o f
      BY <1>1, <2>1, FirstsType
    <3> QED
      BY <2>1, <3>1, <3>2, FrameBytes
  <2>3. /\ Len(first[n]) = Len(s) + (HeaderBytes + Len(p))
        /\ \A i \in 1 .. Len(s) : first[n][i] = s[i]
        /\ \A i \in 1 .. HeaderBytes + Len(p) : first[n][Len(s) + i] = f[i]
    BY <1>3, <2>2
  <2>4. \A i \in 1 .. HeaderBytes : i \in 1 .. HeaderBytes + Len(p)
    BY <1>3, <2>2
  <2>5. \A i \in 1 .. Len(p) : HeaderBytes + i \in 1 .. HeaderBytes + Len(p)
                               /\ Len(s) + HeaderBytes + i = Len(s) + (HeaderBytes + i)
    BY <1>3, <2>2
  <2>6. Grows(n - 1, n)
    <3>1. Len(s) <= Len(s) + (HeaderBytes + Len(p))
      BY <1>3, <2>2
    <3> QED
      BY <2>1, <2>3, <3>1
  <2>7. n - 1 \in 0 .. Len(ws) /\ n \in 0 .. Len(ws)
    BY <1>3
  <2>8. Len(first[n]) = Len(s) + HeaderBytes + Len(p)
    BY <1>3, <2>2, <2>3
  <2>9. \A i \in 1 .. HeaderBytes : first[n][Len(s) + i] = Header(Len(p))[i]
    BY <2>2, <2>3, <2>4
  <2>10. \A i \in 1 .. Len(p) : first[n][Len(s) + HeaderBytes + i] = p[i]
    BY <2>2, <2>3, <2>5
  <2> HIDE DEF Grows
  <2> QED
    BY <2>1, <2>6, <2>7, <2>8, <2>9, <2>10
<1>5. ASSUME NEW n \in 0 .. Len(ws) PROVE Grows(n, Len(ws))
  <2> DEFINE T == {m \in 0 .. Len(ws) : n <= m => Grows(n, m)}
  <2>1. 0 \in T
    BY <1>3
  <2>2. ASSUME NEW m \in 1 .. Len(ws), m - 1 \in T PROVE m \in T
    <3> SUFFICES ASSUME n <= m PROVE Grows(n, m)
      BY <1>3
    <3>1. CASE n = m
      BY <1>3, <3>1
    <3>2. CASE n # m
      <4>1. n <= m - 1 /\ Grows(n, m - 1) /\ Grows(m - 1, m) /\ m - 1 \in 0 .. Len(ws) /\ m \in 0 .. Len(ws)
        <5>1. n <= m - 1
          BY <1>3, <3>2
        <5> HIDE DEF Grows
        <5> QED
          BY <1>4, <2>2, <5>1
      <4>2. Len(first[n]) \in Nat /\ Len(first[m - 1]) \in Nat /\ Len(first[m]) \in Nat
        BY <1>3, <4>1
      <4> QED
        BY <4>1, <4>2
    <3> QED
      BY <3>1, <3>2
  <2>3. Len(ws) \in T
    <3>1. Len(ws) \in 0 .. Len(ws)
      BY <1>3
    <3> HIDE DEF T
    <3> QED
      BY <1>3, <2>1, <2>2, <3>1, InductionUpTo
  <2> QED
    BY <1>3, <2>3
<1>6. PICK at : at = [n \in 0 .. Len(ws) |-> Len(first[n])]
  OBVIOUS
<1>7. at \in [0 .. Len(ws) -> 0 .. Len(total)] /\ at[0] = 0 /\ at[Len(ws)] = Len(total)
  <2>1. \A n \in 0 .. Len(ws) : Len(first[n]) \in 0 .. Len(total)
    BY <1>3, <1>5
  <2>2. 0 \in 0 .. Len(ws) /\ Len(ws) \in 0 .. Len(ws) /\ Len(<<>>) = 0
    BY <1>3
  <2> QED
    BY <1>3, <1>6, <2>1, <2>2
<1>8. ASSUME NEW n \in 1 .. Len(ws)
      PROVE  /\ at[n] = at[n - 1] + HeaderBytes + Len(ws[n])
             /\ \A i \in 1 .. HeaderBytes : total[at[n - 1] + i] = Header(Len(ws[n]))[i]
             /\ \A i \in 1 .. Len(ws[n]) : total[at[n - 1] + HeaderBytes + i] = ws[n][i]
  <2>1. /\ n - 1 \in 0 .. Len(ws) /\ n \in 0 .. Len(ws)
        /\ at[n] = Len(first[n]) /\ at[n - 1] = Len(first[n - 1])
        /\ at[n] \in Nat /\ at[n - 1] \in Nat /\ Len(ws[n]) \in Nat
    <3>1. n - 1 \in 0 .. Len(ws) /\ n \in 0 .. Len(ws) /\ Len(ws[n]) \in Nat
      BY <1>3
    <3> QED
      BY <1>3, <1>6, <3>1
  <2>2. at[n] = at[n - 1] + HeaderBytes + Len(ws[n])
    BY <1>4, <2>1
  <2>3. \A i \in 1 .. at[n] : total[i] = first[n][i]
    BY <1>3, <1>5, <2>1
  <2>4. PICK a \in Nat, b \in Nat, k \in Nat : a = at[n - 1] /\ b = at[n] /\ k = Len(ws[n])
    BY <2>1
  <2>5. b = a + HeaderBytes + k
    BY <2>2, <2>4
  <2>6. ASSUME NEW i \in 1 .. HeaderBytes PROVE total[a + i] = Header(Len(ws[n]))[i]
    <3>1. a + i \in 1 .. b
      BY <1>3, <2>5
    <3>2. total[a + i] = first[n][a + i]
      BY <2>3, <2>4, <3>1
    <3> QED
      BY <1>4, <2>1, <2>4, <3>2
  <2>7. ASSUME NEW i \in 1 .. k PROVE total[a + HeaderBytes + i] = ws[n][i]
    <3>1. a + HeaderBytes + i \in 1 .. b
      BY <1>3, <2>5
    <3>2. total[a + HeaderBytes + i] = first[n][a + HeaderBytes + i]
      BY <2>3, <2>4, <3>1
    <3> QED
      BY <1>4, <2>1, <2>4, <3>2
  <2> QED
    BY <2>2, <2>4, <2>6, <2>7
<1>9. ASSUME NEW n \in 0 .. Len(ws), NEW bytes, bytes = EncodeAll(SubSeq(ws, 1, n))
      PROVE  bytes \in Seq(Byte) /\ Len(bytes) = at[n] /\ \A i \in 1 .. at[n] : bytes[i] = total[i]
  <2>1. PICK vs : vs = SubSeq(ws, 1, n)
    OBVIOUS
  <2>2. vs \in Seq(Seq(Byte)) /\ Len(vs) = n /\ \A i \in 1 .. Len(vs) : vs[i] = ws[i]
    BY <1>3, <2>1
  <2>3. Len(vs) <= Len(ws)
    BY <1>3, <2>2
  <2>4. \A i \in 1 .. Len(vs) : vs[i] = ws[i]
    BY <2>2
  <2>5. EncodeAll(vs) = first[Len(vs)]
    BY <1>1, <2>2, <2>3, <2>4, FirstsOfFewer
  <2>6. bytes = first[n]
    BY <1>9, <2>1, <2>2, <2>5
  <2> QED
    BY <1>3, <1>5, <1>6, <2>6
<1>10. Layout(at, ws, total)
  BY <1>7, <1>8, <1>9 DEF Layout
<1> QED
  BY <1>2, <1>3, <1>10

(* What one more frame adds.                                               *)
(* One more payload adds the bytes of its frame.                           *)
LEMMA EncodeOneMore ==
  ASSUME NEW ws \in Seq(Seq(Byte)), NEW p \in Seq(Byte)
  PROVE  EncodeAll(Append(ws, p)) = EncodeAll(ws) \o EncodeFrame(p)
<1>1. PICK vs : vs = Append(ws, p)
  OBVIOUS
<1>2. /\ vs \in Seq(Seq(Byte)) /\ Len(vs) = Len(ws) + 1 /\ vs[Len(vs)] = p /\ Len(ws) \in Nat
      /\ Len(vs) - 1 = Len(ws) /\ Len(ws) <= Len(vs) /\ Len(vs) \in 1 .. Len(vs)
      /\ \A i \in 1 .. Len(ws) : vs[i] = ws[i]
  BY <1>1
<1>3. PICK first : Firsts(vs, first) /\ EncodeAll(vs) = first[Len(vs)]
  BY <1>2, EncodeAllIsLast
<1>4. first[Len(vs)] = first[Len(vs) - 1] \o EncodeFrame(vs[Len(vs)])
  BY <1>2, <1>3, FirstsType
<1>5. EncodeAll(ws) = first[Len(ws)]
  BY <1>2, <1>3, FirstsOfFewer
<1> QED
  BY <1>1, <1>2, <1>3, <1>4, <1>5

-----------------------------------------------------------------------------
(* What the loop of a reader finds in bytes that begin at a frame.         *)

(* Where a header stands, LengthAt is the length it tells of.              *)
LEMMA LengthIsRead ==
  ASSUME NEW bytes \in Seq(Byte), NEW offset \in Nat, offset + HeaderBytes <= Len(bytes),
         NEW n \in 0 .. MaxLength, \A i \in 1 .. HeaderBytes : bytes[offset + i] = Header(n)[i]
  PROVE  LengthAt(bytes, offset) = n
<1>1. HeaderBytes \in Nat /\ Len(bytes) \in Nat /\ n \in Nat
  BY FormatAssumption, Powers DEF MaxLength
<1>2. PICK h \in Seq(Byte) : h = Header(n) /\ Len(h) = HeaderBytes
  BY <1>1, HeaderType
<1>3. PICK s : s = SubSeq(bytes, offset + 1, offset + HeaderBytes)
  OBVIOUS
<1>4. s \in Seq(Byte) /\ Len(s) = HeaderBytes /\ \A i \in 1 .. HeaderBytes : s[i] = bytes[offset + i]
  BY <1>1, <1>3, Slice
<1>5. s = h
  BY <1>2, <1>4
<1> QED
  BY <1>2, <1>3, <1>5, HeaderIsRead DEF LengthAt

(* The bytes stand in total where frame c ends.                            *)
Reading(at, ws, total, c, bytes) ==
  /\ ws \in Seq(Seq(Byte)) /\ Layout(at, ws, total)
  /\ \A n \in 1 .. Len(ws) : Len(ws[n]) \in 0 .. MaxLength
  /\ c \in 0 .. Len(ws) /\ bytes \in Seq(Byte) /\ Len(total) \in Nat
  /\ at[c] + Len(bytes) <= Len(total)
  /\ \A i \in 1 .. Len(bytes) : bytes[i] = total[at[c] + i]

(* The loop has cut out the k frames after frame c.                        *)
CutOut(loop, k, at, ws, c, bytes) ==
  /\ k \in 0 .. Len(ws) - c
  /\ loop = [offset |-> at[c + k] - at[c], frames |-> SubSeq(ws, c + 1, c + k), error |-> loop.error]
  /\ loop.error \in BOOLEAN /\ at[c + k] - at[c] \in 0 .. Len(bytes)

(* A turn of the loop cuts out the next frame or nothing, whatever lengths *)
(* the reader accepts.                                                     *)
LEMMA TurnCutsOut ==
  ASSUME NEW at, NEW ws, NEW total, NEW c, NEW bytes, NEW loop, NEW k, NEW lengths,
         Reading(at, ws, total, c, bytes), CutOut(loop, k, at, ws, c, bytes)
  PROVE  \E j : CutOut(Turn(loop, bytes, lengths), j, at, ws, c, bytes)
<1>1. PICK begin, length, end :
        begin = loop.offset + HeaderBytes /\ length = LengthAt(bytes, loop.offset) /\ end = begin + length
  OBVIOUS
<1>2. PICK next : next = Turn(loop, bytes, lengths)
  OBVIOUS
<1>3. /\ HeaderBytes \in Nat \ {0} /\ Len(bytes) \in Nat /\ Len(ws) \in Nat /\ Len(total) \in Nat
      /\ c \in Nat /\ k \in Nat /\ c + k \in 0 .. Len(ws) /\ c \in 0 .. Len(ws)
      /\ loop.offset = at[c + k] - at[c] /\ loop.offset \in 0 .. Len(bytes)
      /\ loop.frames = SubSeq(ws, c + 1, c + k) /\ loop.error \in BOOLEAN
  BY FormatAssumption DEF Reading, CutOut
<1>4. CASE next = loop
  BY <1>2, <1>4
<1>5. CASE next = [loop EXCEPT !.error = TRUE]
  <2>1. loop = [offset |-> loop.offset, frames |-> loop.frames, error |-> loop.error]
    BY DEF CutOut
  <2>2. next = [offset |-> loop.offset, frames |-> loop.frames, error |-> TRUE]
    BY <1>5, <2>1
  <2>3. CutOut(next, k, at, ws, c, bytes)
    <3>1. next.error = TRUE /\ next = [offset |-> at[c + k] - at[c], frames |-> SubSeq(ws, c + 1, c + k),
                                         error |-> TRUE]
      BY <1>3, <2>2
    <3> QED
      BY <3>1 DEF CutOut
  <2> QED
    BY <1>2, <2>3
<1>6. CASE /\ begin <= Len(bytes) /\ end <= Len(bytes)
           /\ next = [loop EXCEPT !.offset = end, !.frames = Append(@, SubSeq(bytes, begin + 1, end))]
  <2>1. at[c] \in Nat /\ at[c + k] \in Nat /\ at[c] + Len(bytes) <= Len(total) /\ at[c + k] = at[c] + loop.offset
    BY <1>3 DEF Reading, Layout
  <2>2. c + k # Len(ws)
    <3> SUFFICES ASSUME c + k = Len(ws) PROVE FALSE
      OBVIOUS
    <3>1. at[c + k] = Len(total)
      BY DEF Reading, Layout
    <3>2. loop.offset \in Nat /\ loop.offset + HeaderBytes <= Len(bytes)
      BY <1>1, <1>3, <1>6
    <3> QED
      BY <1>3, <2>1, <3>1, <3>2
  <2>3. PICK n \in 1 .. Len(ws) : n = c + k + 1 /\ n - 1 = c + k
    BY <1>3, <2>2
  <2>4. /\ at[n] = at[n - 1] + HeaderBytes + Len(ws[n])
        /\ \A i \in 1 .. HeaderBytes : total[at[n - 1] + i] = Header(Len(ws[n]))[i]
        /\ \A i \in 1 .. Len(ws[n]) : total[at[n - 1] + HeaderBytes + i] = ws[n][i]
        /\ Len(ws[n]) \in 0 .. MaxLength /\ ws[n] \in Seq(Byte)
    <3>1. Layout(at, ws, total) /\ Len(ws[n]) \in 0 .. MaxLength /\ ws \in Seq(Seq(Byte))
      BY DEF Reading
    <3>2. ws[n] \in Seq(Byte)
      BY <3>1
    <3> QED
      BY <3>1, <3>2 DEF Layout
  <2>5. PICK o \in Nat, a \in Nat, p \in Seq(Byte) : o = loop.offset /\ a = at[c] /\ p = ws[n]
    <3>1. loop.offset \in Nat
      BY <1>3
    <3> QED
      BY <2>1, <2>4, <3>1
  <2>6. at[n - 1] = a + o
    BY <2>1, <2>3, <2>5
  <2>7. \A i \in 1 .. Len(bytes) : bytes[i] = total[a + i]
    BY <2>5 DEF Reading
  <2>8. o + HeaderBytes <= Len(bytes)
    BY <1>1, <1>6, <2>5
  <2>9. ASSUME NEW i \in 1 .. HeaderBytes PROVE bytes[o + i] = Header(Len(p))[i]
    <3>1. o + i \in 1 .. Len(bytes) /\ a + (o + i) = (a + o) + i
      BY <1>3, <2>8
    <3>2. bytes[o + i] = total[at[n - 1] + i]
      BY <2>6, <2>7, <3>1
    <3> QED
      BY <2>4, <2>5, <3>2
  <2>10. length = Len(p)
    <3>1. Len(p) \in 0 .. MaxLength
      BY <2>4, <2>5
    <3> QED
      <4>1. bytes \in Seq(Byte)
        BY DEF Reading
      <4>2. LengthAt(bytes, o) = Len(p)
        BY <2>8, <2>9, <3>1, <4>1, LengthIsRead
      <4> QED
        BY <1>1, <2>5, <4>2
  <2>11. /\ begin = o + HeaderBytes /\ end = o + HeaderBytes + Len(p) /\ Len(p) \in Nat
         /\ end <= Len(bytes)
    BY <1>1, <1>6, <2>5, <2>10
  <2>12. SubSeq(bytes, begin + 1, end) = p
    <3>1. PICK s : s = SubSeq(bytes, begin + 1, end)
      OBVIOUS
    <3>2. s \in Seq(Byte) /\ Len(s) = Len(p) /\ \A i \in 1 .. Len(p) : s[i] = bytes[begin + i]
      <4>1. bytes \in Seq(Byte)
        BY DEF Reading
      <4>2. begin \in Nat /\ end = begin + Len(p)
        BY <1>3, <2>11
      <4> QED
        BY <1>3, <2>11, <3>1, <4>1, <4>2
    <3>3. ASSUME NEW i \in 1 .. Len(p) PROVE s[i] = p[i]
      <4>1. begin + i \in 1 .. Len(bytes) /\ a + (begin + i) = (a + o) + HeaderBytes + i
        BY <1>3, <2>11
      <4>2. bytes[begin + i] = total[at[n - 1] + HeaderBytes + i]
        BY <2>6, <2>7, <4>1
      <4> QED
        BY <2>4, <2>5, <3>2, <4>2
    <3>4. s = p
      BY <3>2, <3>3
    <3> QED
      BY <3>1, <3>4
  <2>13. Append(loop.frames, p) = SubSeq(ws, c + 1, c + (k + 1))
    <3>1. c + k < Len(ws) /\ c + (k + 1) = c + k + 1 /\ ws \in Seq(Seq(Byte))
      BY <1>3, <2>2 DEF Reading
    <3> QED
      BY <1>3, <2>3, <2>5, <3>1, OneMoreOf
  <2>14. end = at[c + (k + 1)] - at[c] /\ end \in 0 .. Len(bytes)
    <3>1. c + (k + 1) = n
      BY <1>3, <2>3
    <3>2. at[n] = a + o + HeaderBytes + Len(p)
      BY <2>4, <2>5, <2>6
    <3>3. end = at[n] - at[c]
      <4>1. (a + o + HeaderBytes + Len(p)) - a = o + HeaderBytes + Len(p)
        BY <1>3, <2>11
      <4> QED
        BY <2>5, <2>11, <3>2, <4>1
    <3>4. end \in 0 .. Len(bytes)
      BY <1>3, <2>11
    <3> QED
      BY <3>1, <3>3, <3>4
  <2>15. next = [offset |-> end, frames |-> Append(loop.frames, p), error |-> loop.error]
    <3>1. loop = [offset |-> loop.offset, frames |-> loop.frames, error |-> loop.error]
      BY DEF CutOut
    <3> QED
      BY <1>6, <2>12, <3>1
  <2>16. k + 1 \in 0 .. Len(ws) - c
    BY <1>3, <2>2
  <2>17. CutOut(next, k + 1, at, ws, c, bytes)
    BY <1>3, <2>13, <2>14, <2>15, <2>16 DEF CutOut
  <2> QED
    BY <1>2, <2>17
<1> QED
  <2>1. \/ next = loop
        \/ next = [loop EXCEPT !.error = TRUE]
        \/ /\ ~ (begin > Len(bytes)) /\ ~ (end > Len(bytes))
           /\ next = [loop EXCEPT !.offset = end, !.frames = Append(@, SubSeq(bytes, begin + 1, end))]
    BY <1>1, <1>2 DEF Turn
  <2>2. begin \in Nat
    BY <1>1, <1>3
  <2>3. ~ (begin > Len(bytes)) => length \in Nat
    <3> SUFFICES ASSUME begin <= Len(bytes) PROVE length \in Nat
      BY <1>3, <2>2
    <3>1. PICK s : s = SubSeq(bytes, loop.offset + 1, loop.offset + HeaderBytes)
      OBVIOUS
    <3>2. s \in Seq(Byte)
      <4>1. bytes \in Seq(Byte) /\ loop.offset \in Nat /\ loop.offset + HeaderBytes <= Len(bytes)
        BY <1>1, <1>3 DEF Reading
      <4> QED
        BY <1>3, <3>1, <4>1
    <3> QED
      BY <1>1, <3>1, <3>2, BigEndianType DEF LengthAt
  <2> QED
    BY <1>3, <1>4, <1>5, <1>6, <1>1, <2>1, <2>2, <2>3

(* What push makes of them.                                                *)
TakesFrames(d, at, ws, c, bytes) ==
  /\ d.error \in BOOLEAN
  /\ \E k \in 0 .. Len(ws) - c :
       /\ at[c + k] - at[c] \in 0 .. Len(bytes)
       /\ d.frames = SubSeq(ws, c + 1, c + k)
       /\ d.rest = SubSeq(bytes, at[c + k] - at[c] + 1, Len(bytes))

(* The loop ends with some of the next frames cut out, and the bytes that  *)
(* follow them left.                                                       *)
LEMMA DecodeCutsOut ==
  ASSUME NEW at, NEW ws, NEW total, NEW c, NEW bytes, NEW lengths,
         Reading(at, ws, total, c, bytes), NEW d, d = Decode(bytes, lengths)
  PROVE  TakesFrames(d, at, ws, c, bytes)
<1> DEFINE L == [offset : Int, frames : Seq(Seq(Byte)), error : BOOLEAN]
           X == {l \in L : \E k : CutOut(l, k, at, ws, c, bytes)}
           zero == [offset |-> 0, frames |-> <<>>, error |-> FALSE]
           step == [n \in 1 .. Len(bytes) |-> [l \in X |-> Turn(l, bytes, lengths)]]
           E(f) == f = [n \in 0 .. Len(bytes) |-> IF n = 0 THEN zero ELSE Turn(f[n - 1], bytes, lengths)]
<1>1. /\ Len(bytes) \in Nat /\ ws \in Seq(Seq(Byte)) /\ Len(ws) \in Nat /\ c \in 0 .. Len(ws)
      /\ at \in [0 .. Len(ws) -> 0 .. Len(total)] /\ Len(total) \in Nat
  BY DEF Reading, Layout
<1>2. ASSUME NEW l, NEW k, CutOut(l, k, at, ws, c, bytes) PROVE l \in X
  <2>1. SubSeq(ws, c + 1, c + k) \in Seq(Seq(Byte))
    <3>1. c \in Nat /\ k \in Nat /\ c + k <= Len(ws)
      BY <1>1, <1>2 DEF CutOut
    <3> QED
      BY <1>1, <3>1, Slice
  <2>2. l \in L
    <3>1. at[c + k] - at[c] \in Int /\ l.error \in BOOLEAN
      BY <1>2 DEF CutOut
    <3>2. l = [offset |-> at[c + k] - at[c], frames |-> SubSeq(ws, c + 1, c + k), error |-> l.error]
      BY <1>2 DEF CutOut
    <3>3. PICK o \in Int, f \in Seq(Seq(Byte)), e \in BOOLEAN : l = [offset |-> o, frames |-> f, error |-> e]
      BY <2>1, <3>1, <3>2
    <3> QED
      BY <3>3
  <2> QED
    BY <1>2, <2>2
<1>3. zero \in X
  <2>1. SubSeq(ws, c + 1, c + 0) = <<>> /\ c + 0 = c /\ at[c] - at[c] = 0
    BY <1>1
  <2>2. CutOut(zero, 0, at, ws, c, bytes)
    <3>1. 0 \in 0 .. Len(ws) - c /\ 0 \in 0 .. Len(bytes)
      BY <1>1
    <3> QED
      BY <2>1, <3>1 DEF CutOut
  <2> QED
    BY <1>2, <2>2
<1>4. step \in [1 .. Len(bytes) -> [X -> X]]
  <2>1. ASSUME NEW l \in X PROVE Turn(l, bytes, lengths) \in X
    <3>1. PICK k : CutOut(l, k, at, ws, c, bytes)
      OBVIOUS
    <3>2. PICK j : CutOut(Turn(l, bytes, lengths), j, at, ws, c, bytes)
      BY <3>1, TurnCutsOut
    <3> HIDE DEF X
    <3> QED
      BY <1>2, <3>2
  <2> HIDE DEF X
  <2> QED
    BY <2>1
<1> HIDE DEF X, zero
<1>5. \E f : E(f) /\ f[Len(bytes)] \in X
  <2>1. PICK f : IteratesTo(f, Len(bytes), X, zero, step)
    <3> HIDE DEF step
    <3> QED
      BY <1>1, <1>3, <1>4, IterationUpTo
  <2>2. ASSUME NEW n \in 0 .. Len(bytes) PROVE f[n] = IF n = 0 THEN zero ELSE Turn(f[n - 1], bytes, lengths)
    <3>1. CASE n = 0
      BY <2>1, <3>1 DEF IteratesTo
    <3>2. CASE n # 0
      <4>1. n \in 1 .. Len(bytes) /\ n - 1 \in 0 .. Len(bytes)
        BY <1>1, <3>2
      <4>2. f[n] = step[n][f[n - 1]] /\ f[n - 1] \in X
        BY <2>1, <4>1 DEF IteratesTo
      <4> QED
        BY <3>2, <4>1, <4>2
    <3> QED
      BY <3>1, <3>2
  <2>3. f = [n \in 0 .. Len(bytes) |-> f[n]] /\ f[Len(bytes)] \in X
    BY <1>1, <2>1 DEF IteratesTo
  <2> QED
    BY <2>2, <2>3
<1>6. PICK loop : /\ loop = (CHOOSE f : E(f))[Len(bytes)]
                  /\ d = [frames |-> loop.frames, rest |-> SubSeq(bytes, loop.offset + 1, Len(bytes)),
                          error |-> loop.error]
  BY DEF Decode, zero
<1>7. ASSUME NEW f, NEW g, E(f), E(g) PROVE f = g
  <2> DEFINE T == {n \in 0 .. Len(bytes) : f[n] = g[n]}
  <2>1. 0 \in T /\ \A n \in 1 .. Len(bytes) : n - 1 \in T => n \in T
    <3>1. 0 \in 0 .. Len(bytes) /\ \A n \in 1 .. Len(bytes) : n \in 0 .. Len(bytes) /\ n # 0
      BY <1>1
    <3>2. \A n \in 0 .. Len(bytes) : /\ f[n] = IF n = 0 THEN zero ELSE Turn(f[n - 1], bytes, lengths)
                                     /\ g[n] = IF n = 0 THEN zero ELSE Turn(g[n - 1], bytes, lengths)
      BY <1>7
    <3> QED
      BY <3>1, <3>2
  <2>2. 0 .. Len(bytes) \subseteq T
    <3> HIDE DEF T
    <3> QED
      BY <1>1, <2>1, InductionUpTo
  <2> QED
    BY <1>7, <2>2
<1>8. loop \in X
  <2>1. PICK f : E(f) /\ f[Len(bytes)] \in X
    BY <1>5
  <2>2. E(CHOOSE g : E(g))
    <3>1. E(f)
      BY <2>1
    <3> HIDE DEF E
    <3> QED
      BY <3>1
  <2>3. (CHOOSE g : E(g)) = f
    BY <1>7, <2>1, <2>2
  <2> HIDE DEF E
  <2> QED
    BY <1>6, <2>1, <2>3
<1>9. PICK k : CutOut(loop, k, at, ws, c, bytes)
  BY <1>8 DEF X
<1> HIDE DEF L, X, zero, step, E
<1>10. PICK offset, taken, error :
         /\ loop = [offset |-> offset, frames |-> taken, error |-> error]
         /\ offset = at[c + k] - at[c] /\ taken = SubSeq(ws, c + 1, c + k) /\ error \in BOOLEAN
         /\ offset \in 0 .. Len(bytes) /\ k \in 0 .. Len(ws) - c
  BY <1>9 DEF CutOut
<1>11. loop.offset = offset /\ loop.frames = taken /\ loop.error = error
  BY <1>10
<1>12. PICK rest : rest = SubSeq(bytes, offset + 1, Len(bytes))
  OBVIOUS
<1>13. d = [frames |-> taken, rest |-> rest, error |-> error]
  BY <1>6, <1>11, <1>12
<1>14. d.frames = taken /\ d.rest = rest
  BY <1>13
<1>15. d.error = error
  BY <1>13
<1> QED
  BY <1>10, <1>12, <1>14, <1>15 DEF TakesFrames

-----------------------------------------------------------------------------
(* Whatever the chunks, push accounts for every byte of them: the frames   *)
(* it returns are the next ones, and what it keeps is what follows them.   *)
Whole(d, c, k, ws, all) ==
  /\ k \in 0 .. Len(ws) - c
  /\ d.frames = SubSeq(ws, c + 1, c + k) /\ d.rest \in Seq(Byte)
  /\ EncodeAll(SubSeq(ws, 1, c + k)) \o d.rest = all

Fed(ws, c, old, have, chunk) ==
  /\ c \in 0 .. Len(ws) /\ \A n \in 1 .. Len(ws) : Len(ws[n]) \in 0 .. MaxLength
  /\ EncodeAll(SubSeq(ws, 1, c)) \o old = have /\ Begins(have \o chunk, EncodeAll(ws))

LEMMA PushLosesNothing ==
  ASSUME NEW ws \in Seq(Seq(Byte)), NEW c, NEW old \in Seq(Byte), NEW have \in Seq(Byte),
         NEW chunk \in Seq(Byte), Fed(ws, c, old, have, chunk), NEW lengths, NEW d, d = Decode(old \o chunk, lengths)
  PROVE  d.error \in BOOLEAN /\ \E k : Whole(d, c, k, ws, have \o chunk)
<1>1. PICK total, at : total \in Seq(Byte) /\ total = EncodeAll(ws) /\ Layout(at, ws, total)
  BY LayoutExists
<1>2. /\ Len(ws) \in Nat /\ Len(total) \in Nat /\ c \in Nat /\ c \in 0 .. Len(ws)
      /\ at \in [0 .. Len(ws) -> 0 .. Len(total)]
      /\ \A n \in 0 .. Len(ws) : at[n] \in Nat
  <2>1. c \in 0 .. Len(ws)
    BY DEF Fed
  <2> QED
    BY <1>1, <2>1 DEF Layout
<1>3. ASSUME NEW n \in 0 .. Len(ws)
      PROVE  \E done \in Seq(Byte) : /\ done = EncodeAll(SubSeq(ws, 1, n)) /\ Len(done) = at[n]
                                     /\ \A i \in 1 .. at[n] : done[i] = total[i]
  BY <1>1 DEF Layout
<1>4. PICK bytes \in Seq(Byte), all \in Seq(Byte) : bytes = old \o chunk /\ all = have \o chunk
  BY Joined DEF Joins
<1>5. PICK done \in Seq(Byte) : done = EncodeAll(SubSeq(ws, 1, c)) /\ Len(done) = at[c]
  BY <1>2, <1>3
<1>6. all = done \o bytes
  <2>1. have = done \o old
    BY <1>5 DEF Fed
  <2>2. (done \o old) \o chunk = done \o (old \o chunk)
    <3>1. Associate(done, old, chunk)
      BY JoinedTwice
    <3> QED
      BY <3>1 DEF Associate
  <2> QED
    BY <1>4, <2>1, <2>2
<1>7. Len(all) = at[c] + Len(bytes) /\ \A i \in 1 .. Len(bytes) : all[at[c] + i] = bytes[i]
  <2>1. Joins(all, done, bytes, Byte)
    BY <1>6, Joined
  <2> QED
    BY <1>5, <2>1 DEF Joins
<1>8. Len(all) <= Len(total) /\ \A i \in 1 .. Len(all) : all[i] = total[i]
  BY <1>1, <1>4 DEF Fed, Begins
<1>9. Len(all) \in Nat /\ Len(bytes) \in Nat /\ at[c] \in Nat
  BY <1>2
<1>10. Reading(at, ws, total, c, bytes)
  <2>1. ASSUME NEW i \in 1 .. Len(bytes) PROVE bytes[i] = total[at[c] + i]
    <3>1. at[c] + i \in 1 .. Len(all)
      BY <1>7, <1>9
    <3> QED
      BY <1>7, <1>8, <3>1
  <2> QED
    <3>1. \A n \in 1 .. Len(ws) : Len(ws[n]) \in 0 .. MaxLength
      BY DEF Fed
    <3> QED
      BY <1>1, <1>2, <1>7, <1>8, <2>1, <3>1 DEF Reading
<1>11. d = Decode(bytes, lengths)
  BY <1>4
<1>12. TakesFrames(d, at, ws, c, bytes)
  BY <1>10, <1>11, DecodeCutsOut
<1>13. PICK k \in 0 .. Len(ws) - c :
         /\ at[c + k] - at[c] \in 0 .. Len(bytes)
         /\ d.frames = SubSeq(ws, c + 1, c + k)
         /\ d.rest = SubSeq(bytes, at[c + k] - at[c] + 1, Len(bytes))
  BY <1>12 DEF TakesFrames
<1>14. PICK o \in 0 .. Len(bytes), m \in 0 .. Len(ws) : m = c + k /\ o = at[m] - at[c] /\ at[m] = at[c] + o
  <2>1. c + k \in 0 .. Len(ws)
    BY <1>2
  <2> QED
    BY <1>2, <1>13, <2>1
<1>15. PICK before \in Seq(Byte) : /\ before = EncodeAll(SubSeq(ws, 1, m)) /\ Len(before) = at[m]
                                   /\ \A i \in 1 .. at[m] : before[i] = total[i]
  BY <1>3
<1>16. d.rest \in Seq(Byte) /\ before \o d.rest = all
  <2>1. Len(before) = Len(done) + o /\ Len(before) <= Len(all)
    <3>1. Len(done) = at[c] /\ at[m] = at[c] + o /\ Len(before) = at[m]
      BY <1>5, <1>14, <1>15
    <3>2. Len(all) = at[c] + Len(bytes)
      BY <1>7
    <3> QED
      BY <1>9, <3>1, <3>2
  <2>2. \A i \in 1 .. Len(before) : i \in 1 .. Len(all)
    BY <1>9, <2>1
  <2>3. Begins(before, done \o bytes)
    BY <1>6, <1>8, <1>15, <2>1, <2>2 DEF Begins
  <2>4. d.rest = SubSeq(bytes, o + 1, Len(bytes))
    BY <1>13, <1>14
  <2> QED
    <3>1. CutsElsewhere(before, SubSeq(bytes, o + 1, Len(bytes)), done, bytes, Byte)
      BY <2>1, <2>3, CutElsewhere
    <3> QED
      BY <1>6, <2>4, <3>1 DEF CutsElsewhere
<1>17. Whole(d, c, k, ws, all)
  BY <1>13, <1>14, <1>15, <1>16 DEF Whole
<1> QED
  BY <1>4, <1>12, <1>17 DEF TakesFrames

-----------------------------------------------------------------------------
(* FrameStream: what holds of every state of it.                           *)
Written ==
  /\ Len(written) <= MaxWrites
  /\ \A n \in 1 .. Len(written) : Len(written[n]) \in 1 .. SendLimit

(* What was read and what is on the wire is what was written, or the       *)
(* beginning of it once the stream was cut.                                *)
OnTheWay ==
  /\ Begins(received \o wire, EncodeAll(written))
  /\ ~ ended => received \o wire = EncodeAll(written)

(* The handler got the frames after those it missed.                       *)
InPlace ==
  /\ missed + Len(delivered) <= Len(written)
  /\ delivered = SubSeq(written, missed + 1, missed + Len(delivered))
  /\ ~ subscribed => delivered = <<>>

FrameInv == FrameTypeOK /\ Written /\ OnTheWay /\ InPlace /\ NoByteLost /\ CleanEndIsWhole

LEMMA FrameTypes ==
  ASSUME FrameInv
  PROVE  /\ written \in Seq(Payload) /\ written \in Seq(Seq(Byte)) /\ delivered \in Seq(Payload)
         /\ wire \in Seq(Byte) /\ pending \in Seq(Byte) /\ received \in Seq(Byte)
         /\ Len(written) \in Nat /\ Len(delivered) \in Nat /\ missed \in Nat /\ MaxWrites \in Nat
         /\ ended \in BOOLEAN /\ subscribed \in BOOLEAN
         /\ status \in {"open", "ended", "failed"}
         /\ \A n \in 1 .. Len(written) : Len(written[n]) \in 0 .. MaxLength
<1>1. FrameTypeOK /\ Written
  BY DEF FrameInv
<1>2. Payload \subseteq Seq(Byte) /\ SendLimit \in 1 .. MaxLength /\ MaxWrites \in Nat
  BY StreamAssumption
<1>3. written \in Seq(Payload) /\ delivered \in Seq(Payload)
  BY <1>1 DEF FrameTypeOK
<1>4. written \in Seq(Seq(Byte))
  BY <1>2, <1>3
<1>5. MaxLength \in Int
  BY Powers, FormatAssumption DEF MaxLength
<1>6. \A n \in 1 .. Len(written) : Len(written[n]) \in 0 .. MaxLength
  BY <1>1, <1>2, <1>5 DEF Written
<1>7. /\ wire \in Seq(Byte) /\ pending \in Seq(Byte) /\ received \in Seq(Byte)
      /\ ended \in BOOLEAN /\ subscribed \in BOOLEAN /\ missed \in 0 .. MaxWrites
      /\ status \in {"open", "ended", "failed"}
  BY <1>1 DEF FrameTypeOK, Bytes
<1>8. Len(written) \in Nat /\ Len(delivered) \in Nat
  BY <1>3
<1> QED
  BY <1>2, <1>3, <1>4, <1>6, <1>7, <1>8

(* No frames are no bytes.                                                 *)
LEMMA NothingEncoded == EncodeAll(<<>>) = <<>>
<1>1. PICK ws \in Seq(Seq(Byte)) : ws = <<>> /\ Len(ws) = 0
  <2>1. <<>> \in Seq(Seq(Byte)) /\ Len(<<>>) = 0
    OBVIOUS
  <2> QED
    BY <2>1
<1>2. PICK first : Firsts(ws, first) /\ EncodeAll(ws) = first[0]
  BY <1>1, EncodeAllIsLast
<1>3. first[0] = <<>>
  BY <1>1, <1>2, FirstsType
<1> QED
  BY <1>1, <1>2, <1>3

LEMMA FrameInitially == FrameInit => FrameInv
<1> SUFFICES ASSUME FrameInit PROVE FrameInv
  OBVIOUS
<1>1. /\ written = <<>> /\ wire = <<>> /\ pending = <<>> /\ delivered = <<>> /\ received = <<>>
      /\ ended = FALSE /\ subscribed = FALSE /\ missed = 0 /\ status = "open" /\ by = "none"
  BY DEF FrameInit
<1>2. MaxWrites \in Nat
  BY StreamAssumption
<1>3. \A S : <<>> \in Seq(S)
  OBVIOUS
<1>4. FrameTypeOK
  <2>1. <<>> \in Seq(Payload) /\ <<>> \in Seq(Byte)
    BY <1>3
  <2>2. missed \in 0 .. MaxWrites
    BY <1>1, <1>2
  <2> QED
    BY <1>1, <2>1, <2>2 DEF FrameTypeOK, Bytes
<1>5. Len(<<>>) = 0 /\ <<>> \o <<>> = <<>> /\ SubSeq(<<>>, 1, 0) = <<>>
  OBVIOUS
<1>6. Written
  BY <1>1, <1>2, <1>5 DEF Written
<1>7. received \o wire = EncodeAll(written) /\ received \o wire = <<>>
  BY <1>1, <1>5, NothingEncoded
<1>8. OnTheWay
  BY <1>5, <1>7, BeginsItself DEF OnTheWay
<1>9. InPlace
  <2>1. missed + Len(delivered) = 0 /\ missed + 1 = 1 /\ Len(written) = 0
    BY <1>1, <1>5
  <2> QED
    BY <1>1, <1>5, <2>1 DEF InPlace
<1>10. NoByteLost
  <2>1. missed + Len(delivered) = 0
    BY <1>1, <1>5
  <2> QED
    BY <1>1, <1>5, <2>1, NothingEncoded DEF NoByteLost
<1>11. CleanEndIsWhole
  BY <1>1 DEF CleanEndIsWhole
<1> QED
  BY <1>4, <1>6, <1>8, <1>9, <1>10, <1>11 DEF FrameInv

(* What is written goes behind what is on the wire, and behind the list.   *)
LEMMA WriteKeeps ==
  ASSUME FrameInv, NEW p \in Payload, Write(p)
  PROVE  FrameInv'
<1>1. /\ written \in Seq(Payload) /\ written \in Seq(Seq(Byte)) /\ delivered \in Seq(Payload)
      /\ wire \in Seq(Byte) /\ received \in Seq(Byte)
      /\ Len(written) \in Nat /\ Len(delivered) \in Nat /\ missed \in Nat /\ MaxWrites \in Nat
  BY FrameTypes
<1>2. /\ ~ ended /\ Len(written) < MaxWrites /\ Len(p) \in 1 .. SendLimit
      /\ written' = Append(written, p) /\ wire' = wire \o EncodeFrame(p)
      /\ ended' = ended /\ pending' = pending /\ subscribed' = subscribed /\ missed' = missed
      /\ delivered' = delivered /\ received' = received /\ status' = status /\ by' = by
  BY DEF Write, Encodable
<1>3. p \in Seq(Byte)
  BY StreamAssumption
<1>4. PICK f \in Seq(Byte) : f = EncodeFrame(p)
  BY <1>3, FrameBytes
<1>5. /\ written' \in Seq(Payload) /\ Len(written') = Len(written) + 1
      /\ written'[Len(written) + 1] = p /\ \A n \in 1 .. Len(written) : written'[n] = written[n]
  BY <1>1, <1>2
<1>6. PICK c \in Nat : c = missed + Len(delivered) /\ c <= Len(written)
  BY <1>1 DEF FrameInv, InPlace
<1>7. SubSeq(written', missed + 1, c) = SubSeq(written, missed + 1, c)
  BY <1>1, <1>2, <1>6, SliceOfAppend
<1>8. SubSeq(written', 1, c) = SubSeq(written, 1, c)
  <2>1. PICK z \in Nat : z = 0 /\ z + 1 = 1 /\ z + c = c
    BY <1>6
  <2>2. SubSeq(Append(written, p), z + 1, z + c) = SubSeq(written, z + 1, z + c)
    BY <1>1, <1>6, <2>1, SliceOfAppend
  <2> QED
    BY <1>2, <2>1, <2>2
<1>9. FrameTypeOK'
  <2>1. wire' \in Seq(Byte)
    BY <1>1, <1>2, <1>4
  <2> QED
    BY <1>2, <1>5, <2>1 DEF FrameInv, FrameTypeOK, Bytes
<1>10. Written'
  <2>1. Len(written') <= MaxWrites
    BY <1>1, <1>2, <1>5
  <2>2. ASSUME NEW n \in 1 .. Len(written') PROVE Len(written'[n]) \in 1 .. SendLimit
    <3>1. CASE n \in 1 .. Len(written)
      BY <1>5, <3>1 DEF FrameInv, Written
    <3>2. CASE n = Len(written) + 1
      BY <1>2, <1>5, <3>2
    <3> QED
      BY <1>1, <1>5, <3>1, <3>2
  <2> QED
    BY <2>1, <2>2 DEF Written
<1>11. OnTheWay'
  <2>1. EncodeAll(written') = EncodeAll(written) \o f
    BY <1>1, <1>2, <1>3, <1>4, EncodeOneMore
  <2>2. received \o wire = EncodeAll(written)
    BY <1>2 DEF FrameInv, OnTheWay
  <2>3. Associate(received, wire, f)
    BY <1>1, JoinedTwice
  <2>4. received' \o wire' = EncodeAll(written')
    BY <1>2, <1>4, <2>1, <2>2, <2>3 DEF Associate
  <2>5. Len(received' \o wire') \in Nat
    <3>1. wire' \in Seq(Byte)
      BY <1>9 DEF FrameTypeOK, Bytes
    <3>2. Joins(received \o wire', received, wire', Byte)
      BY <1>1, <3>1, Joined
    <3> QED
      BY <1>2, <3>2 DEF Joins
  <2> QED
    BY <2>4, <2>5, BeginsItself DEF OnTheWay
<1>12. InPlace'
  <2>1. missed + Len(delivered) <= Len(written')
    BY <1>1, <1>5, <1>6
  <2> QED
    BY <1>2, <1>6, <1>7, <2>1 DEF FrameInv, InPlace
<1>13. NoByteLost' /\ CleanEndIsWhole'
  BY <1>2, <1>6, <1>8 DEF FrameInv, NoByteLost, CleanEndIsWhole
<1> QED
  BY <1>9, <1>10, <1>11, <1>12, <1>13 DEF FrameInv

(* A cut leaves the beginning of what was on the wire.                     *)
LEMMA PeerEndsKeeps ==
  ASSUME FrameInv, PeerEnds
  PROVE  FrameInv'
<1>1. /\ written \in Seq(Seq(Byte)) /\ wire \in Seq(Byte) /\ received \in Seq(Byte)
  BY FrameTypes
<1>2. /\ ended' = TRUE /\ written' = written /\ pending' = pending /\ subscribed' = subscribed
      /\ missed' = missed /\ delivered' = delivered /\ received' = received /\ status' = status
      /\ by' = by
  BY DEF PeerEnds
<1>3. PICK n \in 0 .. Len(wire) : wire' = SubSeq(wire, 1, n)
  BY DEF PeerEnds
<1>4. wire' \in Seq(Byte) /\ Begins(wire', wire)
  <2>1. PICK z \in Nat : z = 0 /\ z + 1 = 1 /\ z + n = n /\ n \in Nat /\ \A i \in 1 .. n : z + i = i
    OBVIOUS
  <2>2. PICK s : s = SubSeq(wire, z + 1, z + n)
    OBVIOUS
  <2>3. z + n <= Len(wire)
    BY <1>1, <2>1
  <2>4. s \in Seq(Byte) /\ Len(s) = n /\ \A i \in 1 .. n : s[i] = wire[z + i]
    BY <1>1, <2>1, <2>2, <2>3, Slice
  <2>5. s = wire'
    BY <1>3, <2>1, <2>2
  <2> QED
    BY <2>1, <2>3, <2>4, <2>5 DEF Begins
<1>5. Begins(received \o wire', EncodeAll(written))
  <2>1. PICK x \in Seq(Byte) : x = wire'
    BY <1>4
  <2>2. Begins(received \o x, received \o wire)
    BY <1>1, <1>4, <2>1, BeginsBoth
  <2>3. Begins(received \o wire, EncodeAll(written))
    BY DEF FrameInv, OnTheWay
  <2>4. PICK l, m, r : l = received \o x /\ m = received \o wire /\ r = EncodeAll(written)
    OBVIOUS
  <2>5. l \in Seq(Byte) /\ m \in Seq(Byte)
    <3>1. Joins(l, received, x, Byte) /\ Joins(m, received, wire, Byte)
      BY <1>1, <2>4, Joined
    <3> QED
      BY <3>1 DEF Joins
  <2>6. r \in Seq(Byte)
    BY <1>1, <2>4, LayoutExists
  <2>7. Begins(l, r)
    BY <2>2, <2>3, <2>4, <2>5, <2>6, BeginsTransitive
  <2> QED
    BY <2>1, <2>4, <2>7
<1>6. FrameTypeOK'
  BY <1>2, <1>4 DEF FrameInv, FrameTypeOK, Bytes
<1> QED
  BY <1>2, <1>5, <1>6 DEF FrameInv, Written, OnTheWay, InPlace, NoByteLost, CleanEndIsWhole

(* What a turn of readLoop does: the next frames after the c decoded so far*)
(* were missed, or the handler got the first j of them.                    *)
Reads(j) ==
  /\ j \in Nat /\ missed + Len(delivered) + j <= Len(written)
  /\ \/ ~ subscribed /\ delivered' = delivered /\ missed' = missed + j
     \/ /\ subscribed \/ j = 0
        /\ missed' = missed
        /\ delivered' = SubSeq(written, missed + 1, missed + Len(delivered) + j)
  /\ pending' \in Seq(Byte) /\ status' \in {"open", "failed", "ended"}
  /\ by' \in {"none", "stream", "session", "self"} /\ (status' = "ended" => by' = "self")
  /\ status' = "open" =>
       EncodeAll(SubSeq(written, 1, missed + Len(delivered) + j)) \o pending' = received'

Advances ==
  /\ wire' \in Seq(Byte) /\ received' \in Seq(Byte) /\ received' \o wire' = received \o wire
  /\ written' = written /\ ended' = ended /\ subscribed' = subscribed

(* A turn of readLoop moves bytes from the wire to those read.             *)
LEMMA ReadAdvances ==
  ASSUME FrameInv, status = "open", NEW n \in 1 .. Len(wire),
         wire' = SubSeq(wire, n + 1, Len(wire)), received' = received \o SubSeq(wire, 1, n)
  PROVE  /\ wire' \in Seq(Byte) /\ received' \in Seq(Byte) /\ received' \o wire' = received \o wire
         /\ SubSeq(wire, 1, n) \in Seq(Byte)
<1>1. wire \in Seq(Byte) /\ received \in Seq(Byte) /\ Len(wire) \in Nat
  BY FrameTypes
<1>2. PICK z \in Nat, k \in Nat, j \in Nat :
        z = 0 /\ k = n /\ j = Len(wire) - n /\ z + 1 = 1 /\ z + k = n /\ z + k + 1 = n + 1 /\ z + k + j = Len(wire)
  <2>1. n \in Nat /\ Len(wire) - n \in Nat /\ 0 + n + (Len(wire) - n) = Len(wire) /\ 0 + 1 = 1
    BY <1>1
  <2>2. 0 \in Nat /\ 0 + n = n /\ 0 + n + 1 = n + 1
    BY <2>1
  <2> QED
    BY <2>1, <2>2, Zenon
<1>3. PICK chunk, rest : chunk = SubSeq(wire, z + 1, z + k) /\ rest = SubSeq(wire, z + k + 1, z + k + j)
  OBVIOUS
<1>4. chunk = SubSeq(wire, 1, n) /\ rest = wire'
  BY <1>2, <1>3
<1>5. chunk \o rest = wire
  <2>1. SubSeq(wire, z + 1, z + k) \o SubSeq(wire, z + k + 1, z + k + j) = SubSeq(wire, z + 1, z + k + j)
    <3>1. z + k + j <= Len(wire)
      BY <1>1, <1>2
    <3> QED
      BY <1>1, <3>1, SlicesJoin
  <2>2. SubSeq(wire, 1, Len(wire)) = wire
    BY <1>1
  <2> QED
    BY <1>2, <1>3, <2>1, <2>2
<1>6. chunk \in Seq(Byte)
  <2>1. z + k <= Len(wire)
    BY <1>1, <1>2
  <2> QED
    BY <1>1, <1>3, <2>1, Slice
<1>7. rest \in Seq(Byte)
  <2>1. PICK b \in Nat : b = z + k /\ b + j <= Len(wire)
    <3>1. z + k \in Nat /\ z + k + j <= Len(wire)
      BY <1>1, <1>2
    <3> QED
      BY <3>1
  <2>2. rest = SubSeq(wire, b + 1, b + j)
    BY <1>3, <2>1
  <2> QED
    BY <1>1, <2>1, <2>2, Slice
<1>8. Associate(received, chunk, rest) /\ Joins(received \o chunk, received, chunk, Byte)
  BY <1>1, <1>6, <1>7, Joined, JoinedTwice
<1> QED
  BY <1>4, <1>5, <1>6, <1>7, <1>8 DEF Associate, Joins

(* The bytes read are those push is given, after those of earlier frames.  *)
LEMMA ReadIsFed ==
  ASSUME FrameInv, status = "open", NEW chunk \in Seq(Byte), NEW rest \in Seq(Byte),
         (received \o chunk) \o rest = received \o wire
  PROVE  Fed(written, missed + Len(delivered), pending, received, chunk)
<1>1. /\ written \in Seq(Seq(Byte)) /\ wire \in Seq(Byte) /\ received \in Seq(Byte)
      /\ Len(written) \in Nat /\ Len(delivered) \in Nat /\ missed \in Nat
      /\ \A n \in 1 .. Len(written) : Len(written[n]) \in 0 .. MaxLength
  BY FrameTypes
<1>2. missed + Len(delivered) \in 0 .. Len(written)
  BY <1>1 DEF FrameInv, InPlace
<1>3. EncodeAll(SubSeq(written, 1, missed + Len(delivered))) \o pending = received
  BY DEF FrameInv, NoByteLost
<1>4. PICK x, y, total : x = received \o chunk /\ y = received \o wire /\ total = EncodeAll(written)
  OBVIOUS
<1>5. x \in Seq(Byte) /\ y \in Seq(Byte) /\ total \in Seq(Byte)
  <2>1. Joins(x, received, chunk, Byte) /\ Joins(y, received, wire, Byte)
    BY <1>1, <1>4, Joined
  <2> QED
    BY <1>1, <1>4, <2>1, LayoutExists DEF Joins
<1>6. Begins(x, y)
  <2>1. Begins(x, x \o rest)
    BY <1>5, BeginsJoined
  <2> QED
    BY <1>4, <2>1
<1>7. Begins(y, total)
  BY <1>4 DEF FrameInv, OnTheWay
<1>8. Begins(x, total)
  BY <1>5, <1>6, <1>7, BeginsTransitive
<1> QED
  BY <1>1, <1>2, <1>3, <1>4, <1>8 DEF Fed

Hands(taken, k, j, c) ==
  /\ Len(taken) = k /\ SubSeq(taken, 1, k) = taken
  /\ delivered \o SubSeq(taken, 1, j) = SubSeq(written, missed + 1, c + j)

(* Handing out the first j of the frames of a push continues what the      *)
(* handler has.                                                            *)
LEMMA HandsTheNext ==
  ASSUME FrameInv, NEW c \in Nat, c = missed + Len(delivered), NEW k \in 0 .. Len(written) - c,
         NEW taken, taken = SubSeq(written, c + 1, c + k), NEW j \in 0 .. k
  PROVE  Hands(taken, k, j, c)
<1>1. /\ written \in Seq(Payload) /\ Len(written) \in Nat /\ Len(delivered) \in Nat /\ missed \in Nat
  BY FrameTypes
<1>2. c = missed + Len(delivered)
  OBVIOUS
<1>3. k \in Nat /\ j \in Nat /\ c + k <= Len(written) /\ c + j <= Len(written)
  BY <1>1, <1>2
<1>4. PICK g : g = SubSeq(written, c + 1, c + k)
  OBVIOUS
<1>5. g \in Seq(Payload) /\ Len(g) = k
  BY <1>1, <1>3, <1>4, Slice
<1>6. SubSeq(g, 1, k) = g
  BY <1>5
<1>7. SubSeq(g, 1, j) = SubSeq(written, c + 1, c + j)
  BY <1>1, <1>3, <1>4, SliceOfSlice
<1>8. PICK l \in Nat : l = Len(delivered)
  BY <1>1
<1>9. SubSeq(written, missed + 1, missed + l) \o SubSeq(written, missed + l + 1, missed + l + j)
        = SubSeq(written, missed + 1, missed + l + j)
  <2>1. missed + l + j <= Len(written)
    BY <1>2, <1>3, <1>8
  <2> QED
    BY <1>1, <1>3, <2>1, SlicesJoin
<1>10. delivered = SubSeq(written, missed + 1, missed + l)
  BY <1>8 DEF FrameInv, InPlace
<1>11. taken = g
  BY <1>2, <1>4
<1> QED
  BY <1>2, <1>5, <1>6, <1>7, <1>8, <1>9, <1>10, <1>11 DEF Hands

(* A turn of readLoop is one of Reads, for some number of frames.          *)
LEMMA ReadEffect ==
  ASSUME FrameInv, ReadChunk
  PROVE  Advances /\ \E j : Reads(j)
<1>1. /\ Len(written) \in Nat /\ Len(delivered) \in Nat /\ missed \in Nat /\ written \in Seq(Seq(Byte))
      /\ pending \in Seq(Byte) /\ received \in Seq(Byte) /\ subscribed \in BOOLEAN
  BY FrameTypes
<1>2. /\ status = "open" /\ written' = written /\ ended' = ended /\ subscribed' = subscribed
      /\ by \in {"none", "stream", "session", "self"}
  BY DEF ReadChunk, FrameInv, FrameTypeOK
<1>3. PICK n, chunk, push :
        /\ n \in 1 .. Len(wire)
        /\ chunk = SubSeq(wire, 1, n) /\ push = Push(chunk)
        /\ wire' = SubSeq(wire, n + 1, Len(wire)) /\ received' = received \o chunk
        /\ \/ /\ push.error
              /\ status' = "failed" /\ by' = "stream"
              /\ UNCHANGED <<pending, missed, delivered>>
           \/ /\ ~push.error /\ ~subscribed
              /\ pending' = push.rest
              /\ missed' = missed + Len(push.frames)
              /\ UNCHANGED <<delivered, status, by>>
           \/ /\ ~push.error /\ subscribed
              /\ pending' = push.rest
              /\ delivered' = delivered \o push.frames
              /\ UNCHANGED <<missed, status, by>>
           \/ /\ ~push.error /\ subscribed
              /\ pending' = push.rest
              /\ status' = "ended" /\ by' = "self"
              /\ \E k \in 1 .. Len(push.frames) :
                   delivered' = delivered \o SubSeq(push.frames, 1, k)
              /\ UNCHANGED missed
  BY DEF ReadChunk
<1>4. /\ wire' \in Seq(Byte) /\ received' \in Seq(Byte) /\ received' \o wire' = received \o wire
      /\ chunk \in Seq(Byte)
  BY <1>2, <1>3, ReadAdvances
<1>5. Advances
  BY <1>2, <1>4 DEF Advances
<1>6. PICK c \in Nat : c = missed + Len(delivered) /\ c <= Len(written)
  BY <1>1 DEF FrameInv, InPlace
<1>7. Fed(written, c, pending, received, chunk)
  BY <1>2, <1>3, <1>4, <1>6, ReadIsFed
<1>8. push = Decode(pending \o chunk, 1 .. ReceiveLimit)
  BY <1>3 DEF Push
<1>9. PICK k : Whole(push, c, k, written, received \o chunk)
  BY <1>1, <1>4, <1>7, <1>8, PushLosesNothing
<1>10. PICK taken, rest : taken = push.frames /\ rest = push.rest
  OBVIOUS
<1>11. /\ k \in 0 .. Len(written) - c /\ k \in Nat /\ c + k <= Len(written)
       /\ taken = SubSeq(written, c + 1, c + k) /\ rest \in Seq(Byte)
       /\ EncodeAll(SubSeq(written, 1, c + k)) \o rest = received'
  <2>1. /\ k \in 0 .. Len(written) - c /\ taken = SubSeq(written, c + 1, c + k) /\ rest \in Seq(Byte)
        /\ EncodeAll(SubSeq(written, 1, c + k)) \o rest = received \o chunk
    BY <1>9, <1>10 DEF Whole
  <2>2. k \in Nat /\ c + k <= Len(written)
    BY <1>1, <2>1
  <2> QED
    BY <1>3, <2>1, <2>2
<1>12. ASSUME NEW j \in 0 .. k
       PROVE  /\ Len(taken) = k /\ SubSeq(taken, 1, k) = taken
              /\ delivered \o SubSeq(taken, 1, j) = SubSeq(written, missed + 1, c + j)
  <2>1. Hands(taken, k, j, c)
    BY <1>6, <1>11, HandsTheNext
  <2> QED
    BY <2>1 DEF Hands
<1>13. CASE status' = "failed" /\ by' = "stream" /\ pending' = pending /\ missed' = missed /\ delivered' = delivered
  <2>1. delivered' = SubSeq(written, missed + 1, c + 0)
    BY <1>1, <1>6, <1>13 DEF FrameInv, InPlace
  <2>2. Reads(0)
    BY <1>1, <1>6, <1>13, <2>1 DEF Reads
  <2> QED
    BY <1>5, <2>2
<1>14. CASE /\ ~ subscribed /\ pending' = rest /\ missed' = missed + Len(taken)
            /\ delivered' = delivered /\ status' = status /\ by' = by
  <2>1. Len(taken) = k
    BY <1>11, <1>12
  <2>2. Reads(k)
    BY <1>2, <1>6, <1>11, <1>14, <2>1 DEF Reads
  <2> QED
    BY <1>5, <2>2
<1>15. CASE /\ subscribed /\ pending' = rest /\ delivered' = delivered \o taken
            /\ missed' = missed /\ status' = status /\ by' = by
  <2>1. delivered \o taken = SubSeq(written, missed + 1, c + k)
    <3>1. k \in 0 .. k
      BY <1>11
    <3> QED
      BY <1>12, <3>1
  <2>2. Reads(k)
    BY <1>2, <1>6, <1>11, <1>15, <2>1 DEF Reads
  <2> QED
    BY <1>5, <2>2
<1>16. CASE /\ subscribed /\ pending' = rest /\ status' = "ended" /\ by' = "self" /\ missed' = missed
            /\ \E j \in 1 .. Len(taken) : delivered' = delivered \o SubSeq(taken, 1, j)
  <2>1. PICK j \in 1 .. k : delivered' = delivered \o SubSeq(taken, 1, j)
    <3>1. Len(taken) = k
      BY <1>11, <1>12
    <3> QED
      BY <1>16, <3>1
  <2>2. j \in 0 .. k /\ j \in Nat /\ c + j <= Len(written)
    BY <1>1, <1>6, <1>11
  <2>3. delivered' = SubSeq(written, missed + 1, c + j)
    BY <1>12, <2>1, <2>2
  <2>4. Reads(j)
    BY <1>6, <1>11, <1>16, <2>2, <2>3 DEF Reads
  <2> QED
    BY <1>5, <2>4
<1> QED
  BY <1>3, <1>10, <1>13, <1>14, <1>15, <1>16

(* A turn of readLoop keeps the invariant: by what Reads says of it.       *)
LEMMA ReadKeeps ==
  ASSUME FrameInv, ReadChunk
  PROVE  FrameInv'
<1>1. /\ Len(written) \in Nat /\ Len(delivered) \in Nat /\ missed \in Nat /\ MaxWrites \in Nat
      /\ written \in Seq(Payload) /\ delivered \in Seq(Payload)
  BY FrameTypes
<1>2. Advances
  BY ReadEffect
<1>3. PICK j : Reads(j)
  BY ReadEffect
<1>4. /\ j \in Nat /\ missed + Len(delivered) + j <= Len(written)
      /\ written' = written /\ ended' = ended /\ subscribed' = subscribed
      /\ pending' \in Seq(Byte) /\ status' \in {"open", "failed", "ended"}
      /\ by' \in {"none", "stream", "session", "self"} /\ (status' = "ended" => by' = "self")
      /\ wire' \in Seq(Byte) /\ received' \in Seq(Byte)
  BY <1>2, <1>3 DEF Advances, Reads
<1>5. /\ missed' \in Nat /\ delivered' \in Seq(Payload)
      /\ missed' + Len(delivered') = missed + Len(delivered) + j
      /\ InPlace'
  <2>1. CASE ~ subscribed /\ delivered' = delivered /\ missed' = missed + j
    <3>1. delivered = <<>> /\ Len(delivered) = 0
      BY <2>1 DEF FrameInv, InPlace
    <3>2. missed' \in Nat /\ missed' + 0 = missed' /\ missed' < missed' + 1
      BY <1>1, <1>4, <2>1
    <3>3. SubSeq(written', missed' + 1, missed' + Len(delivered')) = <<>>
      BY <1>1, <1>4, <2>1, <3>1, <3>2
    <3> QED
      BY <1>1, <1>4, <2>1, <3>1, <3>2, <3>3 DEF InPlace
  <2>2. CASE /\ subscribed \/ j = 0
             /\ missed' = missed
             /\ delivered' = SubSeq(written, missed + 1, missed + Len(delivered) + j)
    <3>1. PICK l \in Nat : l = Len(delivered) + j /\ missed + Len(delivered) + j = missed + l /\ missed + l <= Len(written)
      <4>1. Len(delivered) + j \in Nat /\ missed + Len(delivered) + j = missed + (Len(delivered) + j)
        BY <1>1, <1>4
      <4> QED
        BY <1>4, <4>1
    <3>2. delivered' = SubSeq(written, missed + 1, missed + l)
      BY <2>2, <3>1
    <3>3. delivered' \in Seq(Payload) /\ Len(delivered') = l
      <4>1. SubSeq(written, missed + 1, missed + l) \in Seq(Payload) /\ Len(SubSeq(written, missed + 1, missed + l)) = l
        <5>1. written \in Seq(Payload) /\ missed \in Nat /\ missed + l <= Len(written)
          BY <1>1, <3>1
        <5> QED
          BY <5>1, Slice
      <4> QED
        BY <3>2, <4>1
    <3>4. ~ subscribed' => delivered' = <<>>
      <4> SUFFICES ASSUME ~ subscribed PROVE delivered' = <<>>
        BY <1>4
      <4>1. Len(delivered) = 0 /\ j = 0
        BY <2>2 DEF FrameInv, InPlace
      <4>2. Len(delivered') = 0
        BY <3>1, <3>3, <4>1
      <4> QED
        BY <3>3, <4>2
    <3> QED
      BY <1>1, <1>4, <2>2, <3>1, <3>2, <3>3, <3>4 DEF InPlace
  <2> QED
    BY <1>3, <2>1, <2>2 DEF Reads
<1>6. FrameTypeOK'
  <2>1. missed' \in 0 .. MaxWrites
    <3>1. Len(delivered') \in Nat /\ Len(written) <= MaxWrites
      BY <1>5 DEF FrameInv, Written
    <3> QED
      BY <1>1, <1>4, <1>5, <3>1
  <2> QED
    BY <1>4, <1>5, <2>1 DEF FrameInv, FrameTypeOK, Bytes
<1>7. Written'
  BY <1>4 DEF FrameInv, Written
<1>8. OnTheWay'
  BY <1>2 DEF FrameInv, OnTheWay, Advances
<1>9. NoByteLost'
  BY <1>3, <1>4, <1>5 DEF Reads, NoByteLost
<1>10. CleanEndIsWhole'
  BY <1>4 DEF CleanEndIsWhole
<1> QED
  BY <1>5, <1>6, <1>7, <1>8, <1>9, <1>10 DEF FrameInv

LEMMA FrameStreamStep ==
  FrameInv /\ [FrameNext]_frameVars => FrameInv'
<1> SUFFICES ASSUME FrameInv, [FrameNext]_frameVars PROVE FrameInv'
  OBVIOUS
<1>1. ASSUME NEW p \in Payload, Write(p) PROVE FrameInv'
  BY <1>1, WriteKeeps
<1>2. CASE PeerEnds
  BY <1>2, PeerEndsKeeps
<1>3. CASE Subscribe
  BY <1>3 DEF Subscribe, FrameInv, FrameTypeOK, Written, OnTheWay, InPlace, NoByteLost, CleanEndIsWhole
<1>4. CASE ReadChunk
  BY <1>4, ReadKeeps
<1>5. CASE ReadEnd
  <2>1. /\ status = "open" /\ status' = (IF Truncated THEN "failed" ELSE "ended") /\ by' = "stream"
        /\ written' = written /\ wire' = wire /\ ended' = ended /\ pending' = pending
        /\ subscribed' = subscribed /\ missed' = missed /\ delivered' = delivered /\ received' = received
    BY <1>5 DEF ReadEnd
  <2>2. CleanEndIsWhole'
    <3> SUFFICES ASSUME status' = "ended"
                 PROVE  received = EncodeAll(SubSeq(written, 1, missed + Len(delivered)))
      BY <2>1 DEF CleanEndIsWhole
    <3>1. pending = <<>>
      BY <2>1 DEF Truncated
    <3>2. PICK done : done = EncodeAll(SubSeq(written, 1, missed + Len(delivered)))
      OBVIOUS
    <3>3. done \o pending = received
      BY <2>1, <3>2 DEF FrameInv, NoByteLost
    <3>4. done \in Seq(Byte)
      <4>1. /\ written \in Seq(Seq(Byte)) /\ Len(written) \in Nat /\ Len(delivered) \in Nat /\ missed \in Nat
        BY FrameTypes
      <4>2. missed + Len(delivered) \in 0 .. Len(written)
        BY <4>1 DEF FrameInv, InPlace
      <4>3. PICK at : Layout(at, written, EncodeAll(written))
        BY <4>1, LayoutExists
      <4> QED
        BY <3>2, <4>2, <4>3 DEF Layout
    <3>5. done \o <<>> = done
      BY <3>4
    <3> QED
      BY <3>1, <3>2, <3>3, <3>5
  <2> QED
    BY <2>1, <2>2 DEF FrameInv, FrameTypeOK, Written, OnTheWay, InPlace, NoByteLost
<1>6. CASE CloseConnection \/ ReadFails \/ SessionCloses
  <2>1. PICK how \in {"ended", "failed"}, who \in {"stream", "session", "self"} :
          Closed(how, who) /\ ~ (how = "ended" /\ who = "stream")
    BY <1>6 DEF CloseConnection, ReadFails, SessionCloses
  <2> QED
    BY <2>1 DEF Closed, FrameInv, FrameTypeOK, Written, OnTheWay, InPlace, NoByteLost, CleanEndIsWhole
<1>7. CASE UNCHANGED frameVars
  BY <1>7 DEF frameVars, FrameInv, FrameTypeOK, Bytes, Written, OnTheWay, InPlace, NoByteLost, CleanEndIsWhole
<1> QED
  BY <1>1, <1>2, <1>3, <1>4, <1>5, <1>6, <1>7 DEF FrameNext

LEMMA FrameInvariant == FrameSpec => []FrameInv
<1> QED
  BY FrameInitially, FrameStreamStep, PTL DEF FrameSpec

(* Every variable of a stream of frames keeps its type.                    *)
THEOREM FrameTypeCorrect == FrameSpec => []FrameTypeOK
<1>1. FrameInv => FrameTypeOK
  BY DEF FrameInv
<1> QED
  BY <1>1, FrameInvariant, PTL

(* However the bytes of the wire are cut into chunks, every byte           *)
(* FrameDecoder was given is in a frame it returned or still pending, in   *)
(* its place (framing.ts:41).                                              *)
THEOREM EveryByteIsAccounted == FrameSpec => []NoByteLost
<1>1. FrameInv => NoByteLost
  BY DEF FrameInv
<1> QED
  BY <1>1, FrameInvariant, PTL

(* Where readLoop comes to the end of the stream and tells the close       *)
(* handlers of no error, every byte read was part of a whole frame         *)
(* (iroh-node.ts:355, framing.ts:73).  An end that session.closed reports  *)
(* is not one of these: the handlers of a stream cut inside a frame are    *)
(* called without an error there too (iroh-node.ts:283).                   *)
THEOREM ACleanReadEndIsWhole == FrameSpec => []CleanEndIsWhole
<1>1. FrameInv => CleanEndIsWhole
  BY DEF FrameInv
<1> QED
  BY <1>1, FrameInvariant, PTL

(* A FramedIrohConnection is an ordered channel: the handler of onMessage  *)
(* gets what the peer sent, in order, none twice and none left out from    *)
(* the moment it was registered.                                           *)
THEOREM StreamIsAChannel == FrameSpec => ImplementsChannel
<1>1. FrameInit => Channel!Init
  BY DEF FrameInit, Channel!Init
<1>2. ASSUME FrameInv, [FrameNext]_frameVars PROVE [Channel!Next]_(Channel!vars)
  <2>1. ASSUME NEW p \in Payload, Write(p) PROVE Channel!Next
    <3>1. Channel!Send(p)
      BY <2>1 DEF Write, Channel!Send
    <3> QED
      BY <3>1 DEF Channel!Next
  <2>2. CASE UNCHANGED <<written, missed, delivered>>
    BY <2>2 DEF Channel!vars
  <2>3. CASE ReadChunk
    <3>1. Advances
      BY <1>2, <2>3, ReadEffect
    <3>2. PICK j : Reads(j)
      BY <1>2, <2>3, ReadEffect
    <3>3. /\ Len(written) \in Nat /\ Len(delivered) \in Nat /\ missed \in Nat
      BY <1>2, FrameTypes
    <3>4. j \in Nat /\ missed + Len(delivered) + j <= Len(written) /\ written' = written
      BY <3>1, <3>2 DEF Reads, Advances
    <3>5. CASE ~ subscribed /\ delivered' = delivered /\ missed' = missed + j
      <4>1. CASE j = 0
        BY <2>2, <3>3, <3>4, <3>5, <4>1
      <4>2. CASE j # 0
        <5>1. delivered = <<>> /\ Len(delivered) = 0
          BY <1>2, <3>5 DEF FrameInv, InPlace
        <5>2. missed + j \in missed + 1 .. Len(written)
          BY <3>3, <3>4, <4>2, <5>1
        <5>3. Channel!Miss
          BY <3>4, <3>5, <5>1, <5>2 DEF Channel!Miss
        <5> QED
          BY <5>3 DEF Channel!Next
      <4> QED
        BY <4>1, <4>2
    <3>6. CASE /\ missed' = missed
               /\ delivered' = SubSeq(written, missed + 1, missed + Len(delivered) + j)
      <4>1. CASE j = 0
        <5>1. missed + Len(delivered) + j = missed + Len(delivered)
          BY <3>3, <4>1
        <5>2. delivered' = delivered
          BY <1>2, <3>6, <5>1 DEF FrameInv, InPlace
        <5> QED
          BY <2>2, <3>4, <3>6, <5>2
      <4>2. CASE j # 0
        <5>1. missed + Len(delivered) + j \in missed + Len(delivered) + 1 .. Len(written)
          BY <3>3, <3>4, <4>2
        <5>2. Channel!Receive
          BY <3>4, <3>6, <5>1 DEF Channel!Receive
        <5> QED
          BY <5>2 DEF Channel!Next
      <4> QED
        BY <4>1, <4>2
    <3> QED
      BY <3>2, <3>5, <3>6 DEF Reads
  <2> QED
    BY <1>2, <2>1, <2>2, <2>3 DEF FrameNext, frameVars, PeerEnds, Subscribe, ReadEnd,
                                        Closed, CloseConnection, ReadFails, SessionCloses
<1> QED
  BY <1>1, <1>2, FrameInvariant, PTL DEF FrameSpec, ImplementsChannel, Channel!Spec

=============================================================================
